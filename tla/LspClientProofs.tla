----------------------------- MODULE LspClientProofs -----------------------------
(***************************************************************************)
(* The safety properties of LspClient, for any number of callers, any room *)
(* in the pipes and any bounds on calls, messages and servers.             *)
(***************************************************************************)
EXTENDS LspClient, FiniteSetTheorems, SequenceTheorems, TLAPS

Starting == {"initialize", "initialized", "shutdown", "exit"}
Serving  == {"didOpen", "definition"}

\* The mutex of the cache is held by the caller that starts a server or closes
\* the one it could not start, and no server lives that nobody has to do with.
StartInv ==
    /\ server => cacheMu = None
    /\ alive => server \/ cacheMu # None
    /\ \A c \in Caller :
        /\ pc[c] \in {"idle", "load", "reap"} <=> job[c] = "none"
        /\ pc[c] \in {"register", "await"} => job[c] \in Request
        /\ job[c] \in Starting \/ pc[c] = "reap" <=> cacheMu = c
        /\ job[c] \in Serving => server

\* The callers that may still ask for a definition.
Due == {c \in Caller :
          \/ pc[c] = "load"
          \/ job[c] \in {"initialize", "initialized", "didOpen"}
          \/ pc[c] = "register" /\ job[c] = "definition"}

\* How many requests a server has had that is being started.
Requested(c) ==
    IF job[c] = "initialize" /\ pc[c] = "register" THEN 0
    ELSE IF job[c] \in {"initialize", "initialized"} \/ pc[c] = "register" THEN 1
    ELSE 2

\* A server gets one request to start it, and then at most one for each call.
CountInv ==
    /\ calls <= MaxCalls
    /\ IsFiniteSet(Due) /\ Cardinality(Due) <= calls
    /\ server => nextID + Cardinality(Due) <= calls + 1
    /\ \A c \in Caller : cacheMu = c => nextID = Requested(c)

\* The writer whose header the server has had, or will have had once it has read
\* all there is in the pipe.
Last ==
    IF toServer = <<>> THEN frame
    ELSE IF toServer[Len(toServer)].part = "header" THEN toServer[Len(toServer)].from ELSE None

\* Who writes holds writeMu, and the body it is about to write is that of the
\* last header.
WriteInv ==
    /\ \A c \in Caller : pc[c] \in {"header", "body"} <=> writeMu = c
    /\ reader \in {"header", "body"} <=> writeMu = Reader
    /\ FramesWhole
    /\ alive /\ stdin =>
        /\ \A c \in Caller : pc[c] = "body" => Last = c
        /\ reader = "body" => Last = Reader
        /\ (\A c \in Caller : pc[c] # "body") /\ reader # "body" => Last = None

InFlight(c) == pc[c] \in {"write", "header", "body", "await"} /\ job[c] \in Request

\* Id i has been given to a request, and if that is in flight, it is one of o.
Of(i, o) ==
    /\ i \in 1 .. nextID
    /\ \A c \in Caller : InFlight(c) /\ id[c] = i => o = c

\* Wherever an id is, it comes with the caller it was given to.
OwnerInv ==
    /\ \A c \in Caller : InFlight(c) => Of(id[c], c)
    /\ \A i \in ID : pending[i] # None => Of(i, pending[i])
    /\ \A i \in ID : box[i] # NoMessage => Of(i, box[i].for)
    /\ \A k \in DOMAIN toServer : toServer[k].job \in Request =>
            toServer[k].from \in Caller /\ Of(toServer[k].id, toServer[k].from)
    /\ \A q \in todo : Of(q.id, q.for)
    /\ \A k \in DOMAIN toClient : toClient[k].kind \in {"result", "error"} =>
            Of(toClient[k].id, toClient[k].for)
    /\ reader = "deliver" => Of(hand.id, hand.for)

\* A request is pending, in the hands of the reader, or in its channel, but not
\* in two of these; and only a request in flight is pending.
TokenInv ==
    /\ \A i \in ID : pending[i] # None => box[i] = NoMessage
    /\ reader = "deliver" => box[hand.id] = NoMessage /\ pending[hand.id] = None
    /\ ~closed => \A i \in ID : pending[i] # None =>
            InFlight(pending[i]) /\ id[pending[i]] = i

IInv == TypeOK /\ StartInv /\ CountInv /\ WriteInv /\ OwnerInv /\ TokenInv

-----------------------------------------------------------------------------
(* Lemmas about the steps of a caller and about the pipe.                  *)

Label == {"idle", "load", "reap", "register", "write", "header", "body", "await"}

\* What a caller does next, and what it does to the cache and to the server's
\* input, when its message is sent or answered or is not.
Moves(c) ==
    \/ /\ job[c] = "initialize" /\ Goto(c, "write", "initialized")
       /\ UNCHANGED <<cacheMu, server, stdin>>
    \/ /\ job[c] = "initialized" /\ Goto(c, "write", "didOpen")
       /\ cacheMu' = None /\ server' = TRUE /\ stdin' = stdin
    \/ /\ job[c] \in {"initialize", "initialized"} /\ Goto(c, "register", "shutdown")
       /\ UNCHANGED <<cacheMu, server, stdin>>
    \/ /\ job[c] = "didOpen" /\ Goto(c, "register", "definition")
       /\ UNCHANGED <<cacheMu, server, stdin>>
    \/ /\ job[c] \in Serving /\ Goto(c, "idle", "none")
       /\ UNCHANGED <<cacheMu, server, stdin>>
    \/ /\ job[c] = "shutdown" /\ Goto(c, "write", "exit")
       /\ UNCHANGED <<cacheMu, server, stdin>>
    \/ /\ job[c] = "exit" /\ Goto(c, "reap", "none")
       /\ UNCHANGED <<cacheMu, server>> /\ stdin' = FALSE

LEMMA SucceedMoves ==
    ASSUME TypeOK, NEW c \in Caller, job[c] # "none", Succeed(c)
    PROVE  Moves(c) /\ located' = located
<1>1. job[c] \in Request \cup Notice /\ server \in BOOLEAN /\ stdin \in BOOLEAN
  BY DEF TypeOK
<1>2. job[c] # "initialized" => server' = server /\ cacheMu' = cacheMu
  BY <1>1 DEF Succeed
<1>3. job[c] = "initialized" => server' = TRUE /\ cacheMu' = None
  BY <1>1 DEF Succeed
<1>4. /\ job[c] # "exit" => stdin' = stdin
      /\ job[c] = "exit" => stdin' = FALSE
  BY <1>1 DEF Succeed
<1>5. located' = located
  BY DEF Succeed
<1>6. CASE job[c] = "initialize"
  BY <1>6, <1>2, <1>4, <1>5 DEF Succeed, Moves
<1>7. CASE job[c] = "initialized"
  BY <1>7, <1>3, <1>4, <1>5 DEF Succeed, Moves
<1>8. CASE job[c] = "didOpen"
  BY <1>8, <1>2, <1>4, <1>5 DEF Succeed, Moves
<1>9. CASE job[c] = "definition"
  BY <1>9, <1>2, <1>4, <1>5 DEF Succeed, Moves, Serving
<1>10. CASE job[c] = "shutdown"
  BY <1>10, <1>2, <1>4, <1>5 DEF Succeed, Moves
<1>11. CASE job[c] = "exit"
  BY <1>11, <1>2, <1>4, <1>5 DEF Succeed, Moves
<1> QED
  BY <1>1, <1>6, <1>7, <1>8, <1>9, <1>10, <1>11 DEF Request, Notice

LEMMA FailMoves ==
    ASSUME TypeOK, NEW c \in Caller, job[c] # "none", Fail(c)
    PROVE  Moves(c) /\ located' = located
<1>1. job[c] \in Request \cup Notice
  BY DEF TypeOK
<1>2. CASE job[c] \in {"initialize", "initialized"}
  BY <1>2 DEF Fail, Moves, cacheVars
<1>3. CASE job[c] \in {"didOpen", "definition"}
  BY <1>3 DEF Fail, Moves, cacheVars, Serving
<1>4. CASE job[c] \in {"shutdown", "exit"}
  BY <1>4, SucceedMoves DEF Fail
<1> QED
  BY <1>1, <1>2, <1>3, <1>4 DEF Request, Notice

\* The same, by what it comes to for the invariant: the caller is not in flight,
\* and not writing.
LEMMA MovesTypes ==
    ASSUME TypeOK, NEW c \in Caller, Moves(c)
    PROVE  /\ pc' \in [Caller -> Label] /\ pc'[c] \in {"idle", "register", "write", "reap"}
           /\ job' \in [Caller -> Request \cup Notice \cup {"none"}]
           /\ pc'[c] = "write" => job'[c] \in Notice
           /\ cacheMu' \in Caller \cup {None} /\ server' \in BOOLEAN /\ stdin' \in BOOLEAN
           /\ stdin' => stdin
           /\ \A d \in Caller \ {c} : pc'[d] = pc[d] /\ job'[d] = job[d]
<1> USE DEF Goto, TypeOK, Label, Request, Notice
<1>1. ASSUME NEW l \in {"idle", "register", "write", "reap"},
             NEW j \in Request \cup Notice \cup {"none"},
             Goto(c, l, j)
      PROVE  /\ pc' \in [Caller -> Label] /\ pc'[c] = l
             /\ job' \in [Caller -> Request \cup Notice \cup {"none"}] /\ job'[c] = j
             /\ \A d \in Caller \ {c} : pc'[d] = pc[d] /\ job'[d] = job[d]
  BY <1>1
<1>2. \E l \in {"idle", "register", "write", "reap"}, j \in Request \cup Notice \cup {"none"} :
          Goto(c, l, j) /\ (l = "write" => j \in Notice)
  <2> HIDE DEF Goto
  <2>1. CASE Goto(c, "write", "initialized") \/ Goto(c, "write", "didOpen")
             \/ Goto(c, "write", "exit")
    BY <2>1
  <2>2. CASE Goto(c, "register", "shutdown") \/ Goto(c, "register", "definition")
    BY <2>2
  <2>3. CASE Goto(c, "idle", "none") \/ Goto(c, "reap", "none")
    BY <2>3
  <2>4. \/ Goto(c, "write", "initialized") \/ Goto(c, "write", "didOpen")
        \/ Goto(c, "write", "exit") \/ Goto(c, "register", "shutdown")
        \/ Goto(c, "register", "definition") \/ Goto(c, "idle", "none")
        \/ Goto(c, "reap", "none")
    BY DEF Moves
  <2> QED
    BY <2>1, <2>2, <2>3, <2>4
<1>3. /\ cacheMu' \in Caller \cup {None} /\ server' \in BOOLEAN /\ stdin' \in BOOLEAN
      /\ stdin' => stdin
  <2> HIDE DEF Goto
  <2>1. /\ cacheMu' = cacheMu \/ cacheMu' = None
        /\ server' = server \/ server' = TRUE
        /\ stdin' = stdin \/ stdin' = FALSE
    BY DEF Moves
  <2>2. stdin' => stdin
    BY <2>1, Zenon
  <2> QED
    BY <2>1, <2>2
<1> HIDE DEF Goto
<1> QED
  BY <1>1, <1>2, <1>3

\* Before(k) is the writer of the header that part k of the pipe follows.
Before(k) ==
    IF k = 1 THEN frame
    ELSE IF toServer[k - 1].part = "header" THEN toServer[k - 1].from ELSE None

Fits(k) == Before(k) = IF toServer[k].part = "body" THEN toServer[k].from ELSE None

LEMMA FramesFit == FramesWhole <=> \A k \in DOMAIN toServer : Fits(k)
BY DEF FramesWhole, Fits, Before

LEMMA FramesFitNext == FramesWhole' <=> \A k \in DOMAIN toServer' : Fits(k)'
BY DEF FramesWhole, Fits, Before

\* A part that goes with the last header keeps the frames whole.
LEMMA PutFits ==
    ASSUME toServer \in Seq(Part), FramesWhole, NEW p \in Part,
           toServer' = Append(toServer, p), frame' = frame,
           Last = IF p.part = "body" THEN p.from ELSE None
    PROVE  /\ FramesWhole'
           /\ Last' = IF p.part = "header" THEN p.from ELSE None
<1>0. PICK n \in Nat : n = Len(toServer)
  OBVIOUS
<1>1. /\ n \in Nat /\ DOMAIN toServer = 1 .. n /\ DOMAIN toServer' = 1 .. n + 1
      /\ toServer' # <<>> /\ Len(toServer') = n + 1
      /\ toServer'[n + 1] = p
      /\ \A k \in 1 .. n : toServer'[k] = toServer[k]
      /\ toServer = <<>> <=> n = 0
  BY <1>0
<1>2. \A k \in 1 .. n : Fits(k)
  BY <1>1, FramesFit
<1>3. ASSUME NEW k \in 1 .. n PROVE Fits(k)'
  <2>1. k = 1 \/ k - 1 \in 1 .. n
    BY <1>1
  <2> QED
    BY <1>1, <1>2, <2>1 DEF Fits, Before
<1>4. Fits(n + 1)'
  <2>1. Before(n + 1)' = Last
    <3>1. CASE n = 0
      BY <1>1, <3>1 DEF Before, Last
    <3>2. CASE n # 0
      BY <1>0, <1>1, <3>2 DEF Before, Last
    <3> QED
      BY <3>1, <3>2
  <2> QED
    BY <1>1, <2>1 DEF Fits
<1>5. FramesWhole'
  BY <1>1, <1>3, <1>4, FramesFitNext
<1> QED
  BY <1>1, <1>5 DEF Last

\* So does the server when it reads one.
LEMMA ReadFits ==
    ASSUME toServer \in Seq(Part), toServer # <<>>, FramesWhole,
           toServer' = Tail(toServer),
           frame' = IF Head(toServer).part = "header" THEN Head(toServer).from ELSE None
    PROVE  FramesWhole' /\ Last' = Last
<1>0. PICK n \in Nat : n = Len(toServer)
  OBVIOUS
<1>1. /\ n \in Nat \ {0} /\ DOMAIN toServer = 1 .. n /\ DOMAIN toServer' = 1 .. n - 1
      /\ toServer' \in Seq(Part) /\ Len(toServer') = n - 1
      /\ Head(toServer) = toServer[1]
      /\ \A k \in 1 .. n - 1 : toServer'[k] = toServer[k + 1]
  BY <1>0
<1>9. toServer' = <<>> <=> n = 1
  BY <1>1, EmptySeq
<1>2. \A k \in 1 .. n : Fits(k)
  BY <1>1, FramesFit
<1>3. ASSUME NEW k \in 1 .. n - 1 PROVE Fits(k)'
  <2>1. k + 1 \in 1 .. n /\ (k + 1) - 1 = k /\ k + 1 # 1
    BY <1>1
  <2>2. k = 1 \/ (k - 1 \in 1 .. n - 1 /\ (k - 1) + 1 = k)
    BY <1>1
  <2>3. Before(k)' = Before(k + 1)
    BY <1>1, <2>1, <2>2 DEF Before
  <2> QED
    BY <1>1, <1>2, <2>1, <2>3 DEF Fits
<1>4. FramesWhole'
  BY <1>1, <1>3, FramesFitNext
<1>5. Last' = Last
  <2>1. CASE n = 1
    BY <1>0, <1>1, <1>9, <2>1 DEF Last
  <2>2. CASE n # 1
    <3>1. n - 1 \in 1 .. n - 1 /\ (n - 1) + 1 = n
      BY <1>1, <2>2
    <3> QED
      BY <1>0, <1>1, <1>9, <2>2, <3>1 DEF Last
  <2> QED
    BY <2>1, <2>2
<1> QED
  BY <1>4, <1>5

-----------------------------------------------------------------------------
(* What a step may change.                                                 *)

Others == ReaderStep \/ ServerReads \/ ServerAnswers(Request) \/ ServerAsks \/ ServerDies

\* The reader and the server have nothing to do with the cache and the callers.
LEMMA OthersLeave ==
    ASSUME Others
    PROVE  /\ UNCHANGED <<cacheMu, server, located, pc, job, id, gone>>
           /\ UNCHANGED <<nextID, stdin, calls, starts>>
           /\ alive' = alive \/ alive' = FALSE
BY DEF Others, ReaderStep, Read, Deliver, ReplyLock, ReplyHeader, ReplyBody, ReplyFails,
       FailAll, CloseClient, ServerReads, ServerAnswers, ServerAsks, ServerSends,
       ServerDies, Put, cacheVars, clientVars, readerVars, pipeVars, bounds

\* The end of a message, whichever it is, is one of Moves.
Ends(c) ==
    \/ WriteBody(c) /\ job[c] \notin Request
    \/ WriteFails(c) \/ Answered(c) \/ GiveUp(c) \/ ClientClosed(c)

LEMMA EndsMove ==
    ASSUME TypeOK, StartInv, NEW c \in Caller, Ends(c)
    PROVE  /\ Moves(c) /\ located' = located
           /\ pc[c] \in {"header", "body", "await"}
           /\ UNCHANGED <<id, gone, nextID, alive, bounds>>
<1>1. pc[c] \in {"header", "body", "await"}
  BY DEF Ends, WriteBody, WriteFails, Answered, GiveUp, ClientClosed
<1>2. job[c] # "none"
  BY <1>1 DEF StartInv
<1>3. Succeed(c) \/ Fail(c)
  BY DEF Ends, WriteBody, WriteFails, Answered, GiveUp, ClientClosed
<1>4. UNCHANGED <<id, gone, nextID, alive, bounds>>
  BY DEF Ends, WriteBody, WriteFails, Answered, GiveUp, ClientClosed, clientVars
<1> QED
  BY <1>1, <1>2, <1>3, <1>4, SucceedMoves, FailMoves

\* The steps of a caller, in the groups the proofs take them in.
LEMMA CallerCases ==
    ASSUME NEW c \in Caller, CallerStep(c)
    PROVE  \/ Hit(c) \/ LoadFails(c) \/ Start(c) \/ Reap(c) \/ Register(c)
           \/ LockWrite(c) \/ WriteHeader(c)
           \/ WriteBody(c) /\ job[c] \in Request
           \/ Ends(c)
BY DEF CallerStep, Load, Ends

\* A step of one caller is not one of another.
LEMMA OtherCallers ==
    ASSUME TypeOK, StartInv, NEW c \in Caller, Call(c) \/ CallerStep(c) \/ Cancel(c),
           NEW d \in Caller, d # c
    PROVE  pc'[d] = pc[d] /\ job'[d] = job[d] /\ id'[d] = id[d]
<1>1. CASE Ends(c)
  BY <1>1, EndsMove, MovesTypes
<1>2. CASE Hit(c) \/ LoadFails(c) \/ Start(c) \/ Reap(c) \/ Register(c)
  BY <1>2 DEF Hit, LoadFails, Start, Reap, Register, Goto, TypeOK
<1>3. CASE LockWrite(c) \/ WriteHeader(c) \/ (WriteBody(c) /\ job[c] \in Request)
  BY <1>3 DEF LockWrite, WriteHeader, WriteBody, Goto, TypeOK
<1>4. CASE Call(c) \/ Cancel(c)
  BY <1>4 DEF Call, Cancel, Goto, TypeOK
<1> QED
  BY <1>1, <1>2, <1>3, <1>4, CallerCases

-----------------------------------------------------------------------------
(* The start of a server.                                                  *)

LEMMA StartStepCaller ==
    ASSUME IInv, NEW c \in Caller, Call(c) \/ CallerStep(c) \/ Cancel(c)
    PROVE  StartInv'
<1>1. TypeOK /\ StartInv /\ None \notin Caller
  BY ClientAssumption DEF IInv
<1>2. \A d \in Caller \ {c} : pc'[d] = pc[d] /\ job'[d] = job[d]
  BY <1>1, OtherCallers
<1>3. CASE Call(c)
  BY <1>1, <1>3 DEF Call, Goto, TypeOK, StartInv, cacheVars, pipeVars, Starting, Serving, Request
<1>4. CASE Cancel(c)
  BY <1>1, <1>4 DEF Cancel, StartInv, cacheVars, pipeVars
<1>5. CASE Hit(c)
  BY <1>1, <1>5 DEF Hit, Goto, TypeOK, StartInv, cacheVars, pipeVars, Starting, Serving, Request
<1>6. CASE LoadFails(c)
  BY <1>1, <1>6 DEF LoadFails, Goto, TypeOK, StartInv, pipeVars, Starting, Serving, Request
<1>7. CASE Start(c)
  BY <1>1, <1>7 DEF Start, NewClient, Goto, TypeOK, StartInv, Starting, Serving, Request
<1>8. CASE Reap(c)
  BY <1>1, <1>8 DEF Reap, Goto, TypeOK, StartInv, pipeVars, Starting, Serving, Request
<1>9. CASE Register(c)
  BY <1>1, <1>9 DEF Register, Goto, TypeOK, StartInv, cacheVars, pipeVars, Request
<1>10. CASE LockWrite(c)
  BY <1>1, <1>10 DEF LockWrite, Goto, TypeOK, StartInv, cacheVars, pipeVars
<1>11. CASE WriteHeader(c)
  BY <1>1, <1>11 DEF WriteHeader, Goto, TypeOK, StartInv, cacheVars
<1>12. CASE WriteBody(c) /\ job[c] \in Request
  BY <1>1, <1>12 DEF WriteBody, Goto, TypeOK, StartInv, cacheVars
<1>13. CASE Ends(c)
  <2>1. Moves(c) /\ alive' = alive /\ pc[c] \in {"header", "body", "await"}
    BY <1>1, <1>13, EndsMove
  <2>2. pc \in [Caller -> Label] /\ job \in [Caller -> Request \cup Notice \cup {"none"}]
    BY <1>1 DEF TypeOK, Label
  <2>3. (job[c] \in Starting <=> cacheMu = c) /\ (job[c] \in Serving => server)
    BY <1>1, <2>1 DEF StartInv
  <2>4. CASE job[c] = "initialized" /\ Goto(c, "write", "didOpen")
             /\ cacheMu' = None /\ server' = TRUE
    BY <1>1, <2>1, <2>2, <2>3, <2>4 DEF Goto, StartInv, Starting, Serving
  <2>5. CASE UNCHANGED <<cacheMu, server>> /\ job[c] \in Starting
             /\ \/ Goto(c, "write", "initialized") \/ Goto(c, "register", "shutdown")
                \/ Goto(c, "write", "exit") \/ Goto(c, "reap", "none")
    BY <1>1, <2>1, <2>2, <2>3, <2>5 DEF Goto, StartInv, Starting, Serving, Request
  <2>6. CASE UNCHANGED <<cacheMu, server>> /\ job[c] \in Serving
             /\ (Goto(c, "register", "definition") \/ Goto(c, "idle", "none"))
    BY <1>1, <2>1, <2>2, <2>3, <2>6 DEF Goto, StartInv, Starting, Serving, Request
  <2> QED
    BY <2>1, <2>4, <2>5, <2>6 DEF Moves, Starting, Serving
<1> QED
  BY <1>3, <1>4, <1>5, <1>6, <1>7, <1>8, <1>9, <1>10, <1>11, <1>12, <1>13, CallerCases

LEMMA StartStepOthers ==
    ASSUME IInv, Others
    PROVE  StartInv'
<1>1. alive' => alive
  BY OthersLeave, Zenon
<1> QED
  BY <1>1, OthersLeave DEF IInv, StartInv

-----------------------------------------------------------------------------
(* The number of requests of a server.                                     *)

\* The next id is one there is room for.
LEMMA NextIdSound ==
    ASSUME IInv, NEW c \in Caller, pc[c] = "register"
    PROVE  nextID \in Nat /\ nextID + 1 \in ID
<1>1. nextID \in Nat /\ calls \in Nat /\ calls <= MaxCalls /\ MaxCalls \in Nat
  BY ClientAssumption DEF IInv, TypeOK, CountInv, ID
<1>2. job[c] \in Request
  BY DEF IInv, StartInv
<1>3. CASE job[c] = "definition"
  <2>1. IsFiniteSet(Due) /\ c \in Due
    BY <1>3 DEF IInv, CountInv, Due
  <2>2. Cardinality(Due) \in Nat \ {0}
    BY <2>1, FS_EmptySet, FS_CardinalityType
  <2>3. nextID + Cardinality(Due) <= calls + 1
    BY <1>3 DEF IInv, CountInv, StartInv, Serving
  <2> QED
    BY <1>1, <2>2, <2>3 DEF ID
<1>4. CASE job[c] # "definition"
  <2>1. cacheMu = c
    BY <1>2, <1>4 DEF IInv, StartInv, Request, Starting
  <2>2. nextID \in {0, 1}
    BY <2>1 DEF IInv, CountInv, Requested
  <2> QED
    BY <1>1, <2>2 DEF ID
<1> QED
  BY <1>3, <1>4

\* When nobody new is due, there are no more of them.
LEMMA DueShrinks ==
    ASSUME IsFiniteSet(Due), Due' \subseteq Due
    PROVE  /\ IsFiniteSet(Due') /\ Cardinality(Due') <= Cardinality(Due)
           /\ Cardinality(Due) \in Nat /\ Cardinality(Due') \in Nat
BY FS_Subset, FS_CardinalityType

LEMMA CountStepCaller ==
    ASSUME IInv, NEW c \in Caller, Call(c) \/ CallerStep(c) \/ Cancel(c)
    PROVE  CountInv'
<1>1. /\ TypeOK /\ StartInv /\ CountInv /\ None \notin Caller
      /\ nextID \in Nat /\ calls \in Nat /\ MaxCalls \in Nat
  BY ClientAssumption DEF IInv, TypeOK, ID
<1>2. StartInv'
  BY StartStepCaller
<1>3. /\ \A d \in Caller \ {c} : Requested(d)' = Requested(d)
      /\ \A d \in Caller \ {c} : d \in Due' <=> d \in Due
  BY <1>1, OtherCallers DEF Requested, Due
<1>4. Due \subseteq Caller /\ Due' \subseteq Caller
  BY DEF Due
\* Steps that count nothing.
<1>5. ASSUME c \in Due' => c \in Due, nextID' = nextID, calls' = calls, server' => server,
             cacheMu' = c => cacheMu = c /\ Requested(c)' = Requested(c),
             cacheMu' = cacheMu \/ cacheMu' = None
      PROVE  CountInv'
  <2>1. Due' \subseteq Due
    BY <1>3, <1>4, <1>5
  <2>2. IsFiniteSet(Due') /\ Cardinality(Due') <= Cardinality(Due)
        /\ Cardinality(Due) \in Nat /\ Cardinality(Due') \in Nat
    BY <1>1, <2>1, DueShrinks DEF CountInv
  <2>3. server' => nextID' + Cardinality(Due') <= calls' + 1
    BY <1>1, <1>5, <2>2 DEF CountInv
  <2>4. \A d \in Caller : cacheMu' = d => nextID' = Requested(d)'
    BY <1>1, <1>3, <1>5 DEF CountInv
  <2> QED
    BY <1>1, <1>5, <2>2, <2>3, <2>4 DEF CountInv
<1>6. CASE Call(c)
  <2>1. /\ calls < MaxCalls /\ calls' = calls + 1 /\ UNCHANGED <<server, cacheMu, nextID>>
        /\ pc'[c] = "load" /\ cacheMu # c /\ c \notin Due
    BY <1>1, <1>6
       DEF Call, Goto, TypeOK, StartInv, Due, Starting, cacheVars, clientVars
  <2>2. Due' = Due \cup {c}
    BY <1>3, <1>4, <2>1 DEF Due
  <2>3. IsFiniteSet(Due') /\ Cardinality(Due') = Cardinality(Due) + 1
        /\ Cardinality(Due) \in Nat
    BY <1>1, <2>1, <2>2, FS_AddElement, FS_CardinalityType DEF CountInv
  <2>4. server' => nextID' + Cardinality(Due') <= calls' + 1
    BY <1>1, <2>1, <2>3 DEF CountInv
  <2>5. \A d \in Caller : cacheMu' = d => nextID' = Requested(d)'
    BY <1>1, <1>3, <2>1 DEF CountInv
  <2>6. calls' <= MaxCalls /\ Cardinality(Due') <= calls'
    BY <1>1, <2>1, <2>3 DEF CountInv
  <2> QED
    BY <2>3, <2>4, <2>5, <2>6 DEF CountInv
<1>7. CASE Start(c)
  <2>1. /\ nextID' = 0 /\ calls' = calls /\ ~server' /\ cacheMu' = c
        /\ pc'[c] = "register" /\ job'[c] = "initialize" /\ c \in Due
    BY <1>1, <1>7 DEF Start, NewClient, Goto, TypeOK, Due
  <2>2. Due' \subseteq Due
    BY <1>3, <1>4, <2>1
  <2>3. Requested(c)' = 0
    BY <2>1 DEF Requested
  <2>4. IsFiniteSet(Due') /\ Cardinality(Due') <= calls'
    BY <1>1, <2>1, <2>2, DueShrinks DEF CountInv
  <2> QED
    BY <1>1, <1>4, <2>1, <2>3, <2>4 DEF CountInv
<1>8. CASE Register(c)
  <2>1. /\ nextID' = nextID + 1 /\ calls' = calls /\ UNCHANGED <<server, cacheMu>>
        /\ pc[c] = "register" /\ pc'[c] = "write" /\ job'[c] = job[c] /\ job[c] \in Request
    BY <1>1, <1>8 DEF Register, Goto, TypeOK, StartInv, cacheVars, bounds
  <2>2. CASE job[c] = "definition"
    <3>1. c \in Due /\ c \notin Due'
      BY <2>1, <2>2 DEF Due
    <3>2. Due' = Due \ {c}
      BY <1>3, <1>4, <3>1
    <3>3. IsFiniteSet(Due') /\ Cardinality(Due') = Cardinality(Due) - 1
          /\ Cardinality(Due) \in Nat
      BY <1>1, <3>1, <3>2, FS_RemoveElement, FS_CardinalityType DEF CountInv
    <3>4. cacheMu # c /\ server
      BY <1>1, <2>1, <2>2 DEF StartInv, Serving, Starting
    <3>5. cacheMu = None
      BY <1>1, <3>4 DEF StartInv
    <3>6. server' => nextID' + Cardinality(Due') <= calls' + 1
      BY <1>1, <2>1, <3>3, <3>4 DEF CountInv
    <3>7. calls' <= MaxCalls /\ Cardinality(Due') <= calls'
      BY <1>1, <2>1, <3>3 DEF CountInv
    <3> QED
      BY <1>1, <2>1, <3>3, <3>5, <3>6, <3>7 DEF CountInv
  <2>3. CASE job[c] # "definition"
    <3>1. cacheMu = c /\ ~server
      BY <1>1, <2>1, <2>3 DEF StartInv, Starting, Request
    <3>2. nextID = Requested(c) /\ Requested(c)' = Requested(c) + 1
      BY <1>1, <2>1, <2>3, <3>1 DEF CountInv, Requested, Request
    <3>3. Due' \subseteq Due
      BY <1>3, <1>4, <2>1, <2>3 DEF Due
    <3>4. IsFiniteSet(Due') /\ Cardinality(Due') <= calls'
      BY <1>1, <2>1, <3>3, DueShrinks DEF CountInv
    <3> QED
      BY <1>1, <2>1, <3>1, <3>2, <3>4 DEF CountInv
  <2> QED
    BY <2>2, <2>3
<1>9. CASE Ends(c)
  <2>1. /\ Moves(c) /\ pc[c] \in {"header", "body", "await"}
        /\ nextID' = nextID /\ calls' = calls
    BY <1>1, <1>9, EndsMove DEF bounds
  <2>2. pc \in [Caller -> Label] /\ job \in [Caller -> Request \cup Notice \cup {"none"}]
    BY <1>1 DEF TypeOK, Label
  <2>3. CASE job[c] = "initialized" /\ Goto(c, "write", "didOpen")
             /\ cacheMu' = None /\ server' = TRUE
    <3>1. cacheMu = c /\ c \in Due
      BY <1>1, <2>3 DEF StartInv, Starting, Due
    <3>2. nextID = 1
      BY <1>1, <2>3, <3>1 DEF CountInv, Requested
    <3>3. Due' \subseteq Due
      BY <1>3, <1>4, <3>1
    <3>4. IsFiniteSet(Due') /\ Cardinality(Due') <= calls /\ Cardinality(Due') \in Nat
      BY <1>1, <3>3, DueShrinks DEF CountInv
    <3> QED
      BY <1>1, <2>1, <2>3, <3>2, <3>4 DEF CountInv
  <2>4. CASE UNCHANGED <<cacheMu, server>> /\ job[c] \in Starting
             /\ \/ job[c] = "initialize" /\ Goto(c, "write", "initialized")
                \/ job[c] \in {"initialize", "initialized"} /\ Goto(c, "register", "shutdown")
                \/ job[c] = "shutdown" /\ Goto(c, "write", "exit")
                \/ job[c] = "exit" /\ Goto(c, "reap", "none")
    <3>1. Requested(c)' = Requested(c)
      BY <2>1, <2>2, <2>4 DEF Goto, Requested
    <3>2. c \in Due' => c \in Due
      BY <2>1, <2>2, <2>4 DEF Goto, Due
    <3>3. server' => server
      BY <2>4, Zenon
    <3> QED
      BY <1>5, <2>1, <2>4, <3>1, <3>2, <3>3
  <2>5. CASE UNCHANGED <<cacheMu, server>> /\ job[c] \in Serving
             /\ \/ job[c] = "didOpen" /\ Goto(c, "register", "definition")
                \/ Goto(c, "idle", "none")
    <3>1. cacheMu # c
      BY <1>1, <2>1, <2>5 DEF StartInv, Serving, Starting
    <3>2. c \in Due' => c \in Due
      BY <2>1, <2>2, <2>5 DEF Goto, Due
    <3>3. server' => server
      BY <2>5, Zenon
    <3> QED
      BY <1>5, <2>1, <2>5, <3>1, <3>2, <3>3
  <2> QED
    BY <2>1, <2>3, <2>4, <2>5 DEF Moves, Starting, Serving
<1>10. CASE Hit(c) \/ Reap(c) \/ LoadFails(c) \/ LockWrite(c) \/ WriteHeader(c)
            \/ (WriteBody(c) /\ job[c] \in Request) \/ Cancel(c)
  <2>1. server' = server /\ nextID' = nextID /\ calls' = calls
        /\ (cacheMu' = cacheMu \/ cacheMu' = None)
    BY <1>10 DEF Hit, Reap, LoadFails, LockWrite, WriteHeader, WriteBody, Cancel,
                 cacheVars, clientVars, bounds
  <2>2. c \in Due' => c \in Due
    BY <1>1, <1>10 DEF Hit, Reap, LoadFails, LockWrite, WriteHeader, WriteBody, Cancel,
                       Goto, TypeOK, Due, StartInv
  <2>3. cacheMu' = c => cacheMu = c /\ Requested(c)' = Requested(c)
    <3>1. CASE Hit(c) \/ LoadFails(c) \/ Reap(c)
      BY <1>1, <3>1 DEF Hit, LoadFails, Reap, cacheVars
    <3>2. CASE LockWrite(c) \/ WriteHeader(c) \/ (WriteBody(c) /\ job[c] \in Request)
      <4>1. /\ cacheMu' = cacheMu
            /\ pc[c] \in {"write", "header", "body"}
            /\ pc' = [pc EXCEPT ![c] = "header"] \/ pc' = [pc EXCEPT ![c] = "body"]
               \/ pc' = [pc EXCEPT ![c] = "await"]
            /\ job' = [job EXCEPT ![c] = job[c]]
        BY <3>2 DEF LockWrite, WriteHeader, WriteBody, Goto, cacheVars
      <4>2. pc[c] # "register" /\ pc'[c] # "register" /\ job'[c] = job[c]
        BY <1>1, <4>1 DEF TypeOK
      <4> QED
        BY <4>1, <4>2 DEF Requested
    <3>3. CASE Cancel(c)
      BY <3>3 DEF Cancel, cacheVars, Requested
    <3> QED
      BY <1>10, <3>1, <3>2, <3>3
  <2>4. server' => server
    BY <2>1, Zenon
  <2> QED
    BY <1>5, <2>1, <2>2, <2>3, <2>4
<1> QED
  BY <1>6, <1>7, <1>8, <1>9, <1>10, CallerCases

LEMMA CountStepOthers ==
    ASSUME IInv, Others
    PROVE  CountInv'
BY OthersLeave DEF IInv, CountInv, Due, Requested

-----------------------------------------------------------------------------
(* The types.                                                              *)

\* A part that has room is put into the pipe.
LEMMA PutTypes ==
    ASSUME TypeOK, CanWrite, NEW from \in Caller \cup {Reader},
           NEW j \in Request \cup Notice \cup {"reply"}, NEW i \in {0} \cup ID,
           Put("header", from, j, i) \/ Put("body", from, j, i)
    PROVE  toServer' \in Seq(Part) /\ Len(toServer') <= PipeRoom
<1>1. \A part \in {"header", "body"} : [part |-> part, from |-> from, job |-> j, id |-> i] \in Part
  BY DEF Part
<1>2. toServer \in Seq(Part) /\ Len(toServer) < PipeRoom /\ PipeRoom \in Nat
  BY ClientAssumption DEF TypeOK, CanWrite
<1>3. PICK p \in Part : toServer' = Append(toServer, p)
  BY <1>1 DEF Put
<1> QED
  BY <1>2, <1>3

LEMMA NoMessageType == NoMessage \in Message
BY DEF NoMessage, Message

LEMMA TypeStepCaller ==
    ASSUME IInv, NEW c \in Caller, Call(c) \/ CallerStep(c) \/ Cancel(c)
    PROVE  TypeOK'
<1>1. TypeOK /\ StartInv
  BY DEF IInv
<1>2. job[c] \in Request \cup Notice \cup {"none"} /\ id[c] \in {0} \cup ID
  BY <1>1 DEF TypeOK
<1> USE DEF cacheVars, readerVars, clientVars, pipeVars, bounds
<1>3. CASE Call(c)
  BY <1>1, <1>3 DEF Call, Goto, TypeOK
<1>4. CASE Cancel(c)
  BY <1>1, <1>4 DEF Cancel, TypeOK
<1>5. CASE Hit(c)
  BY <1>1, <1>5 DEF Hit, Goto, TypeOK, Notice
<1>6. CASE LoadFails(c)
  <2>1. located' \in BOOLEAN
    BY <1>1, <1>6 DEF LoadFails, TypeOK
  <2> QED
    BY <1>1, <1>6, <2>1 DEF LoadFails, Goto, TypeOK
<1>7. CASE Start(c)
  <2>1. /\ toServer' \in Seq(Part) /\ Len(toServer') <= PipeRoom
        /\ toClient' \in Seq(Message) /\ Len(toClient') <= PipeRoom
    BY <1>7, EmptySeq, ClientAssumption DEF Start, NewClient
  <2>2. /\ pending' \in [ID -> Caller \cup {None}] /\ box' \in [ID -> Message]
        /\ hand' \in Message /\ nextID' = 0 /\ writeMu' = None /\ closed' = FALSE
        /\ reader' = "read" /\ alive' = TRUE /\ stdin' = TRUE /\ frame' = None /\ todo' = {}
    BY <1>7, NoMessageType DEF Start, NewClient
  <2>3. /\ starts' = starts + 1 /\ located' = TRUE /\ cacheMu' = c
        /\ Goto(c, "register", "initialize")
        /\ UNCHANGED <<server, id, gone, calls, asks>>
    BY <1>7 DEF Start
  <2>4. /\ pc' \in [Caller -> {"idle", "load", "reap", "register", "write", "header",
                            "body", "await"}]
        /\ job' \in [Caller -> Request \cup Notice \cup {"none"}]
    BY <1>1, <2>3 DEF Goto, TypeOK, Request
  <2>5. starts' \in Nat
    BY <1>1, <2>3 DEF TypeOK
  <2> QED
    BY <1>1, <2>1, <2>2, <2>3, <2>4, <2>5 DEF TypeOK
<1>8. CASE Reap(c)
  BY <1>1, <1>8 DEF Reap, Goto, TypeOK
<1>9. CASE Register(c)
  <2>1. nextID + 1 \in ID
    BY <1>9, NextIdSound DEF Register
  <2> QED
    BY <1>1, <1>2, <1>9, <2>1, NoMessageType DEF Register, Goto, TypeOK
<1>10. CASE LockWrite(c)
  BY <1>1, <1>2, <1>10 DEF LockWrite, Goto, TypeOK
<1>11. CASE WriteHeader(c)
  <2>1. toServer' \in Seq(Part) /\ Len(toServer') <= PipeRoom
    <3>1. job[c] # "none"
      BY <1>1, <1>11 DEF WriteHeader, StartInv
    <3> QED
      BY <1>1, <1>2, <1>11, <3>1, PutTypes DEF WriteHeader
  <2> QED
    BY <1>1, <1>2, <1>11, <2>1 DEF WriteHeader, Goto, TypeOK
<1>12. ASSUME WriteBody(c)
       PROVE  toServer' \in Seq(Part) /\ Len(toServer') <= PipeRoom
  <2>1. job[c] # "none"
    BY <1>1, <1>12 DEF WriteBody, StartInv
  <2> QED
    BY <1>1, <1>2, <1>12, <2>1, PutTypes DEF WriteBody
<1>13. CASE WriteBody(c) /\ job[c] \in Request
  <2>1. /\ Goto(c, "await", job[c]) /\ writeMu' = None
        /\ UNCHANGED <<cacheVars, stdin, id, gone, nextID, pending, box, closed, readerVars,
                       alive, toClient, frame, todo, bounds>>
    BY <1>13 DEF WriteBody
  <2> QED
    BY <1>1, <1>2, <1>12, <1>13, <2>1 DEF Goto, TypeOK
<1>14. CASE Ends(c)
  <2>1. /\ pc' \in [Caller -> Label] /\ job' \in [Caller -> Request \cup Notice \cup {"none"}]
        /\ cacheMu' \in Caller \cup {None} /\ server' \in BOOLEAN /\ stdin' \in BOOLEAN
        /\ located' = located
    BY <1>1, <1>14, EndsMove, MovesTypes
  <2>2. UNCHANGED <<id, gone, nextID, alive, calls, asks, starts>>
    BY <1>1, <1>14, EndsMove
  <2>3. /\ toServer' = toServer \/ WriteBody(c)
        /\ UNCHANGED <<closed, reader, hand, toClient, frame, todo>>
        /\ writeMu' = None \/ writeMu' = writeMu
        /\ pending' = pending \/ \E i \in {0} \cup ID : pending' = [pending EXCEPT ![i] = None]
        /\ box' = box \/ \E i \in {0} \cup ID : box' = [box EXCEPT ![i] = NoMessage]
    BY <1>2, <1>14 DEF Ends, WriteBody, WriteFails, Answered, GiveUp, ClientClosed
  <2>4. toServer' \in Seq(Part) /\ Len(toServer') <= PipeRoom
    BY <1>1, <1>12, <2>3 DEF TypeOK
  <2>5. pending' \in [ID -> Caller \cup {None}]
    <3>1. pending \in [ID -> Caller \cup {None}]
      BY <1>1 DEF TypeOK
    <3> QED
      BY <2>3, <3>1
  <2>6. box' \in [ID -> Message]
    <3>1. box \in [ID -> Message]
      BY <1>1 DEF TypeOK
    <3> QED
      BY <2>3, <3>1, NoMessageType
  <2> QED
    BY <1>1, <2>1, <2>2, <2>3, <2>4, <2>5, <2>6 DEF TypeOK, Label
<1> QED
  BY <1>3, <1>4, <1>5, <1>6, <1>7, <1>8, <1>9, <1>10, <1>11, <1>13, <1>14, CallerCases

\* What the reader takes from the pipe.
LEMMA HeadSound ==
    ASSUME TypeOK, OwnerInv, toClient # <<>>
    PROVE  /\ Head(toClient) \in Message /\ Tail(toClient) \in Seq(Message)
           /\ Len(Tail(toClient)) <= PipeRoom
           /\ \A k \in DOMAIN Tail(toClient) :
                 k + 1 \in DOMAIN toClient /\ Tail(toClient)[k] = toClient[k + 1]
           /\ Head(toClient).kind \in {"result", "error"} =>
                 /\ Head(toClient).id \in ID
                 /\ Of(Head(toClient).id, Head(toClient).for)
<1>1. /\ toClient \in Seq(Message) /\ Len(toClient) <= PipeRoom /\ PipeRoom \in Nat
      /\ 1 \in DOMAIN toClient /\ Head(toClient) = toClient[1]
      /\ nextID \in {0} \cup ID
  BY ClientAssumption DEF TypeOK
<1>2. /\ Head(toClient) \in Message /\ Tail(toClient) \in Seq(Message)
      /\ Len(Tail(toClient)) = Len(toClient) - 1 /\ Len(toClient) \in Nat
      /\ \A k \in DOMAIN Tail(toClient) :
            k + 1 \in DOMAIN toClient /\ Tail(toClient)[k] = toClient[k + 1]
  BY <1>1
<1>3. Head(toClient).kind \in {"result", "error"} => Of(Head(toClient).id, Head(toClient).for)
  BY <1>1 DEF OwnerInv
<1>4. \A i \in 1 .. nextID : i \in ID
  BY <1>1, ClientAssumption DEF ID
<1> QED
  BY <1>1, <1>2, <1>3, <1>4 DEF Of

\* What the server takes from its pipe.
LEMMA PartSound ==
    ASSUME TypeOK, OwnerInv, toServer # <<>>
    PROVE  /\ Head(toServer) \in Part /\ Tail(toServer) \in Seq(Part)
           /\ Len(Tail(toServer)) <= PipeRoom
           /\ \A k \in DOMAIN Tail(toServer) :
                 k + 1 \in DOMAIN toServer /\ Tail(toServer)[k] = toServer[k + 1]
           /\ Head(toServer).job \in Request =>
                 /\ Head(toServer).id \in ID /\ Head(toServer).from \in Caller
                 /\ Of(Head(toServer).id, Head(toServer).from)
<1>1. /\ toServer \in Seq(Part) /\ Len(toServer) <= PipeRoom /\ PipeRoom \in Nat
      /\ 1 \in DOMAIN toServer /\ Head(toServer) = toServer[1]
      /\ nextID \in {0} \cup ID
  BY ClientAssumption DEF TypeOK
<1>2. /\ Head(toServer) \in Part /\ Tail(toServer) \in Seq(Part)
      /\ Len(Tail(toServer)) = Len(toServer) - 1 /\ Len(toServer) \in Nat
      /\ \A k \in DOMAIN Tail(toServer) :
            k + 1 \in DOMAIN toServer /\ Tail(toServer)[k] = toServer[k + 1]
  BY <1>1
<1>3. Head(toServer).job \in Request =>
        Head(toServer).from \in Caller /\ Of(Head(toServer).id, Head(toServer).from)
  BY <1>1 DEF OwnerInv
<1>4. \A i \in 1 .. nextID : i \in ID
  BY <1>1, ClientAssumption DEF ID
<1> QED
  BY <1>1, <1>2, <1>3, <1>4 DEF Of

LEMMA TypeStepOthers ==
    ASSUME IInv, Others
    PROVE  TypeOK'
<1>1. TypeOK /\ OwnerInv
  BY DEF IInv
<1> USE DEF cacheVars, readerVars, clientVars, pipeVars, bounds
<1>2. CASE Read
  BY <1>1, <1>2, HeadSound, NoMessageType DEF Read, ReaderAt, TypeOK
<1>3. CASE Deliver
  <2>1. box' \in [ID -> Message] /\ hand' \in Message /\ reader' = "read"
    BY <1>1, <1>3, NoMessageType DEF Deliver, ReaderAt, TypeOK
  <2> QED
    BY <1>1, <1>3, <2>1 DEF Deliver, TypeOK
<1>4. CASE ReplyLock
  BY <1>1, <1>4 DEF ReplyLock, ReaderAt, TypeOK
<1>5. CASE ReplyHeader
  <2>1. toServer' \in Seq(Part) /\ Len(toServer') <= PipeRoom
    BY <1>1, <1>5, PutTypes DEF ReplyHeader
  <2> QED
    BY <1>1, <1>5, <2>1 DEF ReplyHeader, ReaderAt, TypeOK
<1>6. CASE ReplyBody
  <2>1. toServer' \in Seq(Part) /\ Len(toServer') <= PipeRoom
    BY <1>1, <1>6, PutTypes DEF ReplyBody
  <2> QED
    BY <1>1, <1>6, <2>1 DEF ReplyBody, ReaderAt, TypeOK
<1>7. CASE ReplyFails
  BY <1>1, <1>7 DEF ReplyFails, ReaderAt, TypeOK
<1>8. CASE FailAll
  <2>1. \A i \in ID : pending[i] # None =>
            [kind |-> "lost", id |-> i, for |-> pending[i]] \in Message
    BY <1>1 DEF TypeOK, Message
  <2>2. box' \in [ID -> Message]
    BY <1>1, <1>8, <2>1 DEF FailAll, TypeOK
  <2> QED
    BY <1>1, <1>8, <2>2 DEF FailAll, ReaderAt, TypeOK
<1>9. CASE CloseClient
  BY <1>1, <1>9 DEF CloseClient, ReaderAt, TypeOK
<1>10. CASE ServerReads
  <2>1. /\ Head(toServer) \in Part /\ Tail(toServer) \in Seq(Part)
        /\ Len(Tail(toServer)) <= PipeRoom
        /\ Head(toServer).job \in Request =>
              Head(toServer).id \in ID /\ Head(toServer).from \in Caller
    BY <1>1, <1>10, PartSound DEF ServerReads
  <2>2. todo' \subseteq [job : Request, id : ID, for : Caller]
    BY <1>1, <1>10, <2>1 DEF ServerReads, TypeOK
  <2>3. frame' \in Caller \cup {Reader, None}
    BY <1>1, <1>10, <2>1 DEF ServerReads, Part
  <2> QED
    BY <1>1, <1>10, <2>1, <2>2, <2>3 DEF ServerReads, TypeOK
<1>11. ASSUME NEW m \in Message, ServerSends(m)
       PROVE  toClient' \in Seq(Message) /\ Len(toClient') <= PipeRoom
  BY <1>1, <1>11, ClientAssumption DEF ServerSends, TypeOK
<1>12. CASE ServerAnswers(Request)
  <2>1. PICK q \in todo, kind \in {"result", "error"} :
            /\ ServerSends([kind |-> kind, id |-> q.id, for |-> q.for])
            /\ todo' = todo \ {q} /\ UNCHANGED bounds
    BY <1>12 DEF ServerAnswers
  <2>2. [kind |-> kind, id |-> q.id, for |-> q.for] \in Message
    BY <1>1 DEF TypeOK, Message
  <2>3. toClient' \in Seq(Message) /\ Len(toClient') <= PipeRoom
    BY <1>11, <2>1, <2>2
  <2> QED
    BY <1>1, <2>1, <2>3 DEF ServerSends, TypeOK
<1>13. CASE ServerAsks
  <2>1. PICK kind \in {"ask", "notice", "junk"} :
            /\ asks' = asks + 1 /\ ServerSends([kind |-> kind, id |-> 0, for |-> None])
            /\ UNCHANGED <<todo, calls, starts>>
    BY <1>13 DEF ServerAsks
  <2>2. [kind |-> kind, id |-> 0, for |-> None] \in Message
    BY DEF Message
  <2>3. toClient' \in Seq(Message) /\ Len(toClient') <= PipeRoom
    BY <1>11, <2>1, <2>2
  <2> QED
    BY <1>1, <2>1, <2>3 DEF ServerSends, TypeOK
<1>14. CASE ServerDies
  <2>1. toServer' \in Seq(Part) /\ Len(toServer') <= PipeRoom
    BY <1>14, EmptySeq, ClientAssumption DEF ServerDies
  <2>2. todo' \subseteq [job : Request, id : ID, for : Caller] /\ frame' = None /\ alive' = FALSE
    BY <1>14 DEF ServerDies
  <2>3. UNCHANGED <<cacheMu, server, located, pc, job, id, gone, nextID, pending, box, writeMu,
                    closed, reader, hand, stdin, toClient, calls, asks, starts>>
    BY <1>14 DEF ServerDies
  <2>4. /\ todo' \subseteq [job : Request, id : ID, for : Caller]
        /\ frame' \in Caller \cup {Reader, None} /\ alive' \in BOOLEAN
    BY <2>2
  <2>5. /\ cacheMu' \in Caller \cup {None} /\ server' \in BOOLEAN /\ located' \in BOOLEAN
        /\ pc' \in [Caller -> {"idle", "load", "reap", "register", "write", "header", "body", "await"}]
        /\ job' \in [Caller -> Request \cup Notice \cup {"none"}]
        /\ id' \in [Caller -> {0} \cup ID] /\ gone' \in [Caller -> BOOLEAN]
        /\ nextID' \in {0} \cup ID
        /\ pending' \in [ID -> Caller \cup {None}] /\ box' \in [ID -> Message]
    BY <1>1, <2>3, Zenon DEF TypeOK
  <2>6. /\ writeMu' \in Caller \cup {Reader, None} /\ closed' \in BOOLEAN
        /\ reader' \in {"read", "deliver", "write", "header", "body", "close", "done"}
        /\ hand' \in Message /\ stdin' \in BOOLEAN
        /\ toClient' \in Seq(Message) /\ Len(toClient') <= PipeRoom
        /\ calls' \in Nat /\ asks' \in Nat /\ starts' \in Nat
    BY <1>1, <2>3, Zenon DEF TypeOK
  <2> QED
    BY <2>1, <2>4, <2>5, <2>6, Zenon DEF TypeOK
<1> QED
  BY <1>2, <1>3, <1>4, <1>5, <1>6, <1>7, <1>8, <1>9, <1>10, <1>12, <1>13, <1>14
     DEF Others, ReaderStep

-----------------------------------------------------------------------------
(* Whose an id is.                                                         *)

\* When a server is started, no caller has anything to do with one.
LEMMA StartQuiet ==
    ASSUME IInv, NEW c \in Caller, Start(c)
    PROVE  \A d \in Caller : /\ job[d] = "none" /\ pc[d] \in {"idle", "load", "reap"}
                             /\ ~InFlight(d)' /\ pc'[d] \notin {"header", "body"}
<1>1. cacheMu = None /\ ~server /\ None \notin Caller
  BY ClientAssumption DEF Start
<1>2. \A d \in Caller : job[d] = "none"
  BY <1>1 DEF IInv, TypeOK, StartInv, Starting, Serving, Request, Notice
<1>3. \A d \in Caller : pc[d] \in {"idle", "load", "reap"}
  BY <1>2 DEF IInv, StartInv
<1> QED
  BY <1>2, <1>3 DEF IInv, TypeOK, Start, Goto, InFlight

\* Only Register puts a request in flight.
LEMMA InFlightStep ==
    ASSUME IInv, NEW c \in Caller, Call(c) \/ CallerStep(c) \/ Cancel(c), InFlight(c)'
    PROVE  Register(c) \/ (InFlight(c) /\ id'[c] = id[c])
<1>1. TypeOK /\ StartInv
  BY DEF IInv
<1>2. CASE Ends(c)
  BY <1>1, <1>2, EndsMove, MovesTypes DEF InFlight, Notice, Request
<1>3. CASE Start(c)
  BY <1>3, StartQuiet
<1>4. CASE Hit(c) \/ LoadFails(c) \/ Reap(c) \/ Call(c)
  BY <1>1, <1>4 DEF Hit, LoadFails, Reap, Call, Goto, TypeOK, InFlight, Request
<1>5. CASE LockWrite(c) \/ WriteHeader(c) \/ (WriteBody(c) /\ job[c] \in Request) \/ Cancel(c)
  BY <1>1, <1>5 DEF LockWrite, WriteHeader, WriteBody, Cancel, Goto, TypeOK, InFlight
<1> QED
  BY <1>2, <1>3, <1>4, <1>5, CallerCases

\* Of, of the next state.
OfNext(i, o) ==
    /\ i \in 1 .. nextID'
    /\ \A c \in Caller : InFlight(c)' /\ id'[c] = i => o = c

LEMMA OwnerNext ==
    ASSUME \A c \in Caller : InFlight(c)' => OfNext(id'[c], c),
           \A i \in ID : pending'[i] # None => OfNext(i, pending'[i]),
           \A i \in ID : box'[i] # NoMessage => OfNext(i, box'[i].for),
           \A k \in DOMAIN toServer' : toServer'[k].job \in Request =>
                toServer'[k].from \in Caller /\ OfNext(toServer'[k].id, toServer'[k].from),
           \A q \in todo' : OfNext(q.id, q.for),
           \A k \in DOMAIN toClient' : toClient'[k].kind \in {"result", "error"} =>
                OfNext(toClient'[k].id, toClient'[k].for),
           reader' = "deliver" => OfNext(hand'.id, hand'.for)
    PROVE  OwnerInv'
BY DEF OwnerInv, Of, OfNext

\* An id that has been given to a request stays with it.
LEMMA OfKept ==
    ASSUME IInv, NEW c \in Caller, Call(c) \/ CallerStep(c) \/ Cancel(c), ~Start(c),
           NEW i, NEW o, Of(i, o)
    PROVE  OfNext(i, o)
<1>1. TypeOK /\ StartInv
  BY DEF IInv
<1>2. nextID \in Nat /\ i \in 1 .. nextID
  BY <1>1, ClientAssumption DEF TypeOK, ID, Of
<1>3. nextID' = nextID \/ (Register(c) /\ nextID' = nextID + 1)
  <2>1. CASE Ends(c)
    BY <1>1, <2>1, EndsMove
  <2>2. CASE Call(c) \/ Cancel(c) \/ Hit(c) \/ LoadFails(c) \/ Reap(c) \/ Register(c)
             \/ LockWrite(c) \/ WriteHeader(c) \/ WriteBody(c)
    BY <2>2 DEF Call, Cancel, Hit, LoadFails, Reap, Register, LockWrite, WriteHeader,
                WriteBody, clientVars
  <2> QED
    BY <2>1, <2>2, CallerCases
<1>4. i \in 1 .. nextID'
  BY <1>2, <1>3
<1>5. ASSUME NEW d \in Caller, InFlight(d)', id'[d] = i PROVE o = d
  <2>1. CASE d = c
    <3>1. Register(c) => id'[c] = nextID + 1
      BY <1>1 DEF Register, TypeOK
    <3>2. id'[c] # nextID + 1
      BY <1>2, <1>5, <2>1
    <3>3. InFlight(c) /\ id[c] = i
      BY <1>5, <2>1, <3>1, <3>2, InFlightStep
    <3> QED
      BY <2>1, <3>3 DEF Of
  <2>2. CASE d # c
    BY <1>1, <1>5, <2>2, OtherCallers DEF InFlight, Of
  <2> QED
    BY <2>1, <2>2
<1> QED
  BY <1>4, <1>5 DEF OfNext

\* A new id belongs to the caller that takes it.
LEMMA NewOf ==
    ASSUME IInv, NEW c \in Caller, Register(c)
    PROVE  /\ id'[c] = nextID + 1 /\ nextID' = nextID + 1
           /\ nextID + 1 \in ID /\ OfNext(nextID + 1, c)
<1>1. TypeOK /\ StartInv /\ OwnerInv
  BY DEF IInv
<1>2. nextID \in Nat /\ nextID + 1 \in ID
  BY NextIdSound DEF Register
<1>3. id'[c] = nextID + 1 /\ nextID' = nextID + 1
  BY <1>1 DEF Register, TypeOK
<1>4. ASSUME NEW d \in Caller, d # c, InFlight(d)' PROVE id'[d] \in 1 .. nextID
  <2>1. InFlight(d) /\ id'[d] = id[d]
    BY <1>1, <1>4, OtherCallers DEF CallerStep, InFlight
  <2> QED
    BY <1>1, <2>1 DEF OwnerInv, Of
<1> QED
  BY <1>2, <1>3, <1>4 DEF OfNext

\* What a caller that does not start a server does to the ids outside its hands.
LEMMA CallerLeaves ==
    ASSUME IInv, NEW c \in Caller, Call(c) \/ CallerStep(c) \/ Cancel(c), ~Start(c)
    PROVE  /\ UNCHANGED <<toClient, todo, frame, reader, hand, alive, closed>>
           /\ ~Register(c) => \A i \in ID :
                 /\ pending'[i] = pending[i] \/ pending'[i] = None
                 /\ box'[i] = box[i] \/ box'[i] = NoMessage
           /\ \/ toServer' = toServer
              \/ \E part \in {"header", "body"} : Put(part, c, job[c], id[c])
                    /\ pc[c] = part /\ CanWrite
<1>1. TypeOK /\ StartInv /\ id[c] \in {0} \cup ID
  BY DEF IInv, TypeOK
<1> USE DEF cacheVars, readerVars, clientVars, pipeVars, bounds
<1>2. CASE Ends(c)
  <2>1. UNCHANGED <<toClient, todo, frame, reader, hand, alive, closed>>
    BY <1>2 DEF Ends, WriteBody, WriteFails, Answered, GiveUp, ClientClosed
  <2>2. /\ pending' = pending \/ \E i \in {0} \cup ID : pending' = [pending EXCEPT ![i] = None]
        /\ box' = box \/ \E i \in {0} \cup ID : box' = [box EXCEPT ![i] = NoMessage]
    BY <1>1, <1>2 DEF Ends, WriteBody, WriteFails, Answered, GiveUp, ClientClosed
  <2>3. pending \in [ID -> Caller \cup {None}] /\ box \in [ID -> Message]
    BY <1>1 DEF TypeOK
  <2>4. \A i \in ID : pending'[i] = pending[i] \/ pending'[i] = None
    BY <2>2, <2>3
  <2>5. \A i \in ID : box'[i] = box[i] \/ box'[i] = NoMessage
    BY <2>2, <2>3
  <2>6. toServer' = toServer \/ (Put("body", c, job[c], id[c]) /\ pc[c] = "body" /\ CanWrite)
    BY <1>2 DEF Ends, WriteBody, WriteFails, Answered, GiveUp, ClientClosed
  <2> QED
    BY <2>1, <2>4, <2>5, <2>6
<1>3. CASE Call(c) \/ Cancel(c) \/ Hit(c) \/ LoadFails(c) \/ Reap(c) \/ LockWrite(c)
           \/ Register(c)
  BY <1>3 DEF Call, Cancel, Hit, LoadFails, Reap, LockWrite, Register
<1>4. CASE WriteHeader(c) \/ (WriteBody(c) /\ job[c] \in Request)
  BY <1>4 DEF WriteHeader, WriteBody
<1> QED
  BY <1>2, <1>3, <1>4, CallerCases

\* A part put into the pipe, among those that are there.
LEMMA PutParts ==
    ASSUME TypeOK, NEW part, NEW from, NEW j, NEW i, Put(part, from, j, i)
    PROVE  \A k \in DOMAIN toServer' :
              \/ k \in DOMAIN toServer /\ toServer'[k] = toServer[k]
              \/ toServer'[k] = [part |-> part, from |-> from, job |-> j, id |-> i]
BY DEF Put, TypeOK

LEMMA OwnerStepCaller ==
    ASSUME IInv, NEW c \in Caller, Call(c) \/ CallerStep(c) \/ Cancel(c)
    PROVE  OwnerInv'
<1>1. TypeOK /\ StartInv /\ OwnerInv
  BY DEF IInv
<1>2. CASE Start(c)
  <2>1. /\ pending' = [i \in ID |-> None] /\ box' = [i \in ID |-> NoMessage]
        /\ reader' = "read" /\ toServer' = <<>> /\ toClient' = <<>> /\ todo' = {}
    BY <1>2 DEF Start, NewClient
  <2>2. DOMAIN toServer' = {} /\ DOMAIN toClient' = {}
    BY <2>1
  <2>3. \A d \in Caller : ~InFlight(d)'
    BY <1>2, StartQuiet
  <2> QED
    BY <2>1, <2>2, <2>3, OwnerNext
<1>3. CASE ~Start(c)
  <2>1. \A i, o : Of(i, o) => OfNext(i, o)
    BY <1>3, OfKept
  <2>2. Register(c) => /\ id'[c] = nextID + 1 /\ OfNext(nextID + 1, c)
                       /\ pending' = [pending EXCEPT ![nextID + 1] = c]
                       /\ box' = [box EXCEPT ![nextID + 1] = NoMessage]
    BY NewOf DEF Register
  <2>3. \A d \in Caller \ {c} : InFlight(d)' => InFlight(d) /\ id'[d] = id[d]
    BY <1>1, OtherCallers DEF InFlight
  <2>4. \A d \in Caller : InFlight(d)' => OfNext(id'[d], d)
    BY <1>1, <2>1, <2>2, <2>3, InFlightStep DEF OwnerInv
  <2>5. \A i \in ID : pending'[i] # None => OfNext(i, pending'[i])
    BY <1>1, <1>3, <2>1, <2>2, CallerLeaves DEF OwnerInv, TypeOK
  <2>6. \A i \in ID : box'[i] # NoMessage => OfNext(i, box'[i].for)
    BY <1>1, <1>3, <2>1, <2>2, CallerLeaves DEF OwnerInv, TypeOK
  <2>7. \A k \in DOMAIN toServer' : toServer'[k].job \in Request =>
            toServer'[k].from \in Caller /\ OfNext(toServer'[k].id, toServer'[k].from)
    <3>1. CASE toServer' = toServer
      BY <1>1, <2>1, <3>1 DEF OwnerInv
    <3>2. ASSUME NEW part \in {"header", "body"}, Put(part, c, job[c], id[c]), pc[c] = part
          PROVE  \A k \in DOMAIN toServer' : toServer'[k].job \in Request =>
                   toServer'[k].from \in Caller /\ OfNext(toServer'[k].id, toServer'[k].from)
      <4>1. job[c] \in Request => OfNext(id[c], c)
        BY <1>1, <2>1, <3>2 DEF OwnerInv, InFlight
      <4> QED
        BY <1>1, <2>1, <3>2, <4>1, PutParts DEF OwnerInv
    <3> QED
      BY <1>3, <3>1, <3>2, CallerLeaves
  <2>8. /\ \A q \in todo' : OfNext(q.id, q.for)
        /\ \A k \in DOMAIN toClient' : toClient'[k].kind \in {"result", "error"} =>
                OfNext(toClient'[k].id, toClient'[k].for)
        /\ reader' = "deliver" => OfNext(hand'.id, hand'.for)
    BY <1>1, <1>3, <2>1, CallerLeaves DEF OwnerInv
  <2> QED
    BY <2>4, <2>5, <2>6, <2>7, <2>8, OwnerNext
<1> QED
  BY <1>2, <1>3

LEMMA OwnerStepOthers ==
    ASSUME IInv, Others
    PROVE  OwnerInv'
<1>1. TypeOK /\ OwnerInv
  BY DEF IInv
<1>2. \A i, o : Of(i, o) => OfNext(i, o)
  BY OthersLeave DEF Of, OfNext, InFlight
<1>3. \A d \in Caller : InFlight(d)' => OfNext(id'[d], d)
  BY <1>1, <1>2, OthersLeave DEF OwnerInv, InFlight
<1> DEFINE Pending == \A i \in ID : pending'[i] # None => OfNext(i, pending'[i])
           Box     == \A i \in ID : box'[i] # NoMessage => OfNext(i, box'[i].for)
           Parts   == \A k \in DOMAIN toServer' : toServer'[k].job \in Request =>
                        toServer'[k].from \in Caller /\ OfNext(toServer'[k].id, toServer'[k].from)
           Todo    == \A q \in todo' : OfNext(q.id, q.for)
           Answers == \A k \in DOMAIN toClient' : toClient'[k].kind \in {"result", "error"} =>
                        OfNext(toClient'[k].id, toClient'[k].for)
           Hand    == reader' = "deliver" => OfNext(hand'.id, hand'.for)
<1>4. SUFFICES Pending /\ Box /\ Parts /\ Todo /\ Answers /\ Hand
  BY <1>3, OwnerNext
<1>5. /\ UNCHANGED pending => Pending
      /\ UNCHANGED box => Box
      /\ UNCHANGED toServer => Parts
      /\ UNCHANGED todo => Todo
      /\ UNCHANGED toClient => Answers
      /\ UNCHANGED hand /\ (reader' = "deliver" => reader = "deliver") => Hand
  BY <1>1, <1>2 DEF OwnerInv
<1>6. UNCHANGED pipeVars => Parts /\ Todo /\ Answers
  BY <1>5 DEF pipeVars
<1>7. ASSUME NEW part, NEW i, Put(part, Reader, "reply", i) PROVE Parts
  BY <1>1, <1>2, <1>7, PutParts DEF OwnerInv, Request
<1> HIDE DEF Pending, Box, Parts, Todo, Answers, Hand
<1>8. CASE Read
  <2>1. toClient # <<>> /\ toClient' = Tail(toClient)
    BY <1>8 DEF Read
  <2>2. Answers
    BY <1>1, <1>2, <2>1, HeadSound DEF Answers, OwnerInv
  <2>3. Hand
    BY <1>1, <1>2, <1>8, <2>1, HeadSound DEF Hand, Read, ReaderAt
  <2>4. Pending
    BY <1>1, <1>2, <1>8 DEF Pending, Read, OwnerInv, TypeOK
  <2> QED
    BY <1>5, <1>8, <2>2, <2>3, <2>4 DEF Read
<1>9. CASE Deliver
  <2>1. Box
    BY <1>1, <1>2, <1>9 DEF Box, Deliver, OwnerInv, TypeOK
  <2>2. Hand
    BY <1>9 DEF Hand, Deliver, ReaderAt
  <2> QED
    BY <1>5, <1>6, <1>9, <2>1, <2>2 DEF Deliver
<1>10. CASE ReplyLock
  BY <1>5, <1>6, <1>10 DEF ReplyLock, ReaderAt
<1>11. CASE ReplyHeader
  BY <1>5, <1>7, <1>11 DEF ReplyHeader, ReaderAt, clientVars
<1>12. CASE ReplyBody
  BY <1>5, <1>7, <1>12 DEF ReplyBody, ReaderAt
<1>13. CASE ReplyFails
  BY <1>5, <1>6, <1>13 DEF ReplyFails, ReaderAt
<1>14. CASE FailAll
  <2>1. Box
    BY <1>1, <1>2, <1>14 DEF Box, FailAll, OwnerInv
  <2>2. Pending /\ Hand
    BY <1>14 DEF Pending, Hand, FailAll, ReaderAt
  <2> QED
    BY <1>6, <1>14, <2>1, <2>2 DEF FailAll
<1>15. CASE CloseClient
  BY <1>5, <1>6, <1>15 DEF CloseClient, ReaderAt
<1>16. CASE ServerReads
  <2>1. toServer # <<>> /\ toServer' = Tail(toServer)
    BY <1>16 DEF ServerReads
  <2>2. Parts
    BY <1>1, <1>2, <2>1, PartSound DEF Parts, OwnerInv
  <2>3. Todo
    BY <1>1, <1>2, <1>16, <2>1, PartSound DEF Todo, ServerReads, OwnerInv
  <2> QED
    BY <1>5, <1>16, <2>2, <2>3 DEF ServerReads, clientVars, readerVars
<1>17. ASSUME NEW m, ServerSends(m),
              m.kind \in {"result", "error"} => Of(m.id, m.for)
       PROVE  Answers /\ Pending /\ Box /\ Parts /\ Hand
  <2>1. \A k \in DOMAIN toClient' :
            (k \in DOMAIN toClient /\ toClient'[k] = toClient[k]) \/ toClient'[k] = m
    BY <1>1, <1>17 DEF ServerSends, TypeOK
  <2>2. Answers
    BY <1>1, <1>2, <1>17, <2>1 DEF Answers, OwnerInv
  <2> QED
    BY <1>5, <1>17, <2>2 DEF ServerSends, clientVars, readerVars
<1>18. CASE ServerAnswers(Request)
  <2>1. PICK q \in todo, kind \in {"result", "error"} :
            /\ ServerSends([kind |-> kind, id |-> q.id, for |-> q.for])
            /\ todo' = todo \ {q}
    BY <1>18 DEF ServerAnswers
  <2>2. Answers /\ Pending /\ Box /\ Parts /\ Hand
    BY <1>1, <1>17, <2>1 DEF OwnerInv
  <2>3. Todo
    BY <1>1, <1>2, <2>1 DEF Todo, OwnerInv
  <2> QED
    BY <2>2, <2>3
<1>19. CASE ServerAsks
  BY <1>5, <1>17, <1>19 DEF ServerAsks
<1>20. CASE ServerDies
  <2>1. toServer' = <<>> /\ todo' = {}
    BY <1>20 DEF ServerDies
  <2>2. Parts /\ Todo
    BY <2>1 DEF Parts, Todo
  <2> QED
    BY <1>5, <1>20, <2>2 DEF ServerDies, clientVars
<1> QED
  BY <1>8, <1>9, <1>10, <1>11, <1>12, <1>13, <1>14, <1>15, <1>16, <1>18, <1>19, <1>20
     DEF Others, ReaderStep

-----------------------------------------------------------------------------
(* Where a request is.                                                     *)

LEMMA TokenStepCaller ==
    ASSUME IInv, NEW c \in Caller, Call(c) \/ CallerStep(c) \/ Cancel(c)
    PROVE  TokenInv'
<1>1. TypeOK /\ StartInv /\ OwnerInv /\ TokenInv
  BY DEF IInv
<1>2. pending \in [ID -> Caller \cup {None}] /\ box \in [ID -> Message]
  BY <1>1 DEF TypeOK
<1>3. \A d \in Caller \ {c} : InFlight(d)' = InFlight(d) /\ id'[d] = id[d]
  BY <1>1, OtherCallers DEF InFlight
<1>4. CASE Start(c)
  BY <1>4 DEF Start, NewClient, TokenInv
<1>5. CASE Register(c)
  <2>1. /\ pending' = [pending EXCEPT ![nextID + 1] = c]
        /\ box' = [box EXCEPT ![nextID + 1] = NoMessage]
        /\ id'[c] = nextID + 1 /\ UNCHANGED <<reader, hand, closed>>
        /\ InFlight(c)' /\ ~InFlight(c)
    BY <1>1, <1>5
       DEF Register, Goto, TypeOK, StartInv, InFlight, readerVars
  <2>2. nextID \in Nat /\ nextID + 1 \in ID
    BY <1>5, NextIdSound DEF Register
  <2>3. reader = "deliver" => hand.id # nextID + 1
    BY <1>1, <2>2 DEF OwnerInv, Of
  <2>4. \A i \in ID : pending'[i] # None => box'[i] = NoMessage
    BY <1>1, <1>2, <2>1, <2>2 DEF TokenInv
  <2>5. reader' = "deliver" => box'[hand'.id] = NoMessage /\ pending'[hand'.id] = None
    BY <1>1, <1>2, <2>1, <2>3 DEF TokenInv
  <2>6. ASSUME ~closed', NEW i \in ID, pending'[i] # None
        PROVE  (InFlight(pending[i]) /\ id[pending[i]] = i)'
    <3>1. CASE i = nextID + 1
      BY <1>2, <2>1, <2>2, <3>1 DEF InFlight
    <3>2. CASE i # nextID + 1
      <4>1. PICK d \in Caller : pending[i] = d /\ pending'[i] = d
        BY <1>2, <2>1, <2>2, <2>6, <3>2
      <4>2. InFlight(d) /\ id[d] = i /\ d # c
        BY <1>1, <2>1, <2>6, <4>1, ClientAssumption DEF TokenInv
      <4> QED
        BY <1>3, <4>1, <4>2 DEF InFlight
    <3> QED
      BY <3>1, <3>2
  <2> QED
    BY <2>4, <2>5, <2>6 DEF TokenInv, InFlight
\* The other steps of a caller put no request anywhere.
<1>6. ASSUME UNCHANGED <<reader, hand, closed>>,
             \A i \in ID : pending'[i] = pending[i] \/ pending'[i] = None,
             \A i \in ID : box'[i] = box[i] \/ box'[i] = NoMessage,
             \A i \in ID : pending'[i] = c /\ ~closed /\ pending[i] = c
                             /\ InFlight(c) /\ id[c] = i
                             => InFlight(c)' /\ id'[c] = i
      PROVE  TokenInv'
  <2>1. \A i \in ID : pending'[i] # None => box'[i] = NoMessage
    BY <1>1, <1>6 DEF TokenInv
  <2>2. reader = "deliver" => hand.id \in ID
    BY <1>1, ClientAssumption DEF OwnerInv, Of, TypeOK, ID
  <2>3. reader' = "deliver" => box'[hand'.id] = NoMessage /\ pending'[hand'.id] = None
    BY <1>1, <1>6, <2>2 DEF TokenInv
  <2>4. ASSUME ~closed', NEW i \in ID, pending'[i] # None
        PROVE  (InFlight(pending[i]) /\ id[pending[i]] = i)'
    <3>1. PICK d \in Caller : pending[i] = d /\ pending'[i] = d
      BY <1>2, <1>6, <2>4
    <3>2. ~closed /\ InFlight(d) /\ id[d] = i
      BY <1>1, <1>6, <2>4, <3>1, ClientAssumption DEF TokenInv
    <3>3. InFlight(d)' /\ id'[d] = i
      BY <1>3, <1>6, <3>1, <3>2
    <3> QED
      BY <3>1, <3>3 DEF InFlight
  <2> QED
    BY <2>1, <2>3, <2>4 DEF TokenInv, InFlight
<1>7. CASE Ends(c)
  <2>1. ~Start(c) /\ ~Register(c)
    BY <1>1, <1>7, EndsMove DEF Start, Register
  <2>2. /\ UNCHANGED <<reader, hand, closed>>
        /\ \A i \in ID : pending'[i] = pending[i] \/ pending'[i] = None
        /\ \A i \in ID : box'[i] = box[i] \/ box'[i] = NoMessage
    BY <1>7, <2>1, CallerLeaves DEF Ends, CallerStep
  <2>3. ASSUME NEW i \in ID, pending'[i] = c, ~closed, pending[i] = c, InFlight(c), id[c] = i
        PROVE  FALSE
    <3>1. c # None
      BY ClientAssumption
    <3>2. CASE WriteFails(c)
      BY <1>2, <2>3, <3>1, <3>2 DEF WriteFails, InFlight
    <3>3. CASE Answered(c)
      BY <1>1, <2>3, <3>1, <3>3 DEF Answered, TokenInv
    <3>4. CASE GiveUp(c)
      BY <1>2, <2>3, <3>1, <3>4 DEF GiveUp
    <3>5. CASE ClientClosed(c)
      BY <2>3, <3>5 DEF ClientClosed
    <3>6. CASE WriteBody(c) /\ job[c] \notin Request
      BY <2>3, <3>6 DEF InFlight
    <3> QED
      BY <1>7, <3>2, <3>3, <3>4, <3>5, <3>6 DEF Ends
  <2> QED
    BY <1>6, <2>2, <2>3
<1>8. CASE Call(c) \/ Cancel(c) \/ Hit(c) \/ LoadFails(c) \/ Reap(c) \/ LockWrite(c)
           \/ WriteHeader(c) \/ (WriteBody(c) /\ job[c] \in Request)
  <2>1. UNCHANGED <<reader, hand, closed, pending, box>>
    BY <1>8 DEF Call, Cancel, Hit, LoadFails, Reap, LockWrite, WriteHeader, WriteBody,
                clientVars, readerVars
  <2>2. InFlight(c) => InFlight(c)' /\ id'[c] = id[c]
    BY <1>1, <1>8 DEF Call, Cancel, Hit, LoadFails, Reap, LockWrite, WriteHeader,
                      WriteBody, Goto, TypeOK, InFlight, StartInv
  <2> QED
    BY <1>6, <2>1, <2>2
<1> QED
  BY <1>4, <1>5, <1>7, <1>8, CallerCases

LEMMA TokenStepOthers ==
    ASSUME IInv, Others
    PROVE  TokenInv'
<1>1. TypeOK /\ OwnerInv /\ TokenInv
  BY DEF IInv
<1>2. pending \in [ID -> Caller \cup {None}] /\ box \in [ID -> Message]
  BY <1>1 DEF TypeOK
<1>3. UNCHANGED <<pc, job, id>>
  BY OthersLeave
<1>4. CASE Read
  <2>1. toClient # <<>>
    BY <1>4 DEF Read
  <2>2. CASE Head(toClient).kind \in {"result", "error"} /\ pending[Head(toClient).id] # None
    <3>1. PICK i \in ID : i = Head(toClient).id
      BY <1>1, <2>1, <2>2, HeadSound
    <3>2. /\ hand' = Head(toClient) /\ pending' = [pending EXCEPT ![i] = None]
          /\ box' = box /\ closed' = closed
      BY <1>4, <2>2, <3>1 DEF Read
    <3>3. box[i] = NoMessage
      BY <1>1, <2>2, <3>1 DEF TokenInv
    <3> QED
      BY <1>1, <1>2, <1>3, <3>1, <3>2, <3>3 DEF TokenInv, InFlight
  <2>3. CASE ~(Head(toClient).kind \in {"result", "error"} /\ pending[Head(toClient).id] # None)
    <3>1. UNCHANGED <<pending, box, closed>> /\ reader' # "deliver"
      BY <1>4, <2>3 DEF Read, ReaderAt
    <3> QED
      BY <1>1, <1>3, <3>1 DEF TokenInv, InFlight
  <2> QED
    BY <2>2, <2>3
<1>5. CASE Deliver
  BY <1>1, <1>2, <1>3, <1>5 DEF Deliver, ReaderAt, TokenInv, InFlight
<1>6. CASE FailAll
  BY <1>6 DEF FailAll, ReaderAt, TokenInv
<1>7. CASE CloseClient
  BY <1>1, <1>7 DEF CloseClient, ReaderAt, TokenInv
<1>8. CASE ReplyLock \/ ReplyHeader \/ ReplyBody \/ ReplyFails
  <2>1. UNCHANGED <<pending, box, closed>> /\ reader' # "deliver"
    BY <1>8 DEF ReplyLock, ReplyHeader, ReplyBody, ReplyFails, ReaderAt, clientVars
  <2> QED
    BY <1>1, <1>3, <2>1 DEF TokenInv, InFlight
<1>9. CASE ServerReads \/ ServerAnswers(Request) \/ ServerAsks \/ ServerDies
  <2>1. UNCHANGED <<pending, box, closed, reader, hand>>
    BY <1>9 DEF ServerReads, ServerAnswers, ServerAsks, ServerSends, ServerDies,
                clientVars, readerVars
  <2> QED
    BY <1>1, <1>3, <2>1 DEF TokenInv, InFlight
<1> QED
  BY <1>4, <1>5, <1>6, <1>7, <1>8, <1>9 DEF Others, ReaderStep

-----------------------------------------------------------------------------
(* Who writes.                                                             *)

\* What is in the pipe, and what follows it, when nothing is put there.
LEMMA SamePipe ==
    ASSUME FramesWhole, UNCHANGED <<toServer, frame>>
    PROVE  FramesWhole' /\ Last' = Last
BY DEF FramesWhole, Last

LEMMA EmptyPipe ==
    ASSUME toServer' = <<>>, frame' = None
    PROVE  FramesWhole' /\ Last' = None
BY DEF FramesWhole, Last

LEMMA WriteStepCaller ==
    ASSUME IInv, NEW c \in Caller, Call(c) \/ CallerStep(c) \/ Cancel(c)
    PROVE  WriteInv'
<1>1. /\ TypeOK /\ StartInv /\ WriteInv /\ FramesWhole
      /\ Reader \notin Caller /\ None \notin Caller /\ Reader # None
  BY ClientAssumption DEF IInv, WriteInv
<1>2. \A d \in Caller \ {c} : pc'[d] = pc[d]
  BY <1>1, OtherCallers
<1>3. CASE Start(c)
  <2>1. /\ toServer' = <<>> /\ frame' = None /\ writeMu' = None /\ reader' = "read"
    BY <1>3 DEF Start, NewClient
  <2> QED
    BY <1>1, <1>3, <2>1, StartQuiet, EmptyPipe DEF WriteInv
<1>4. CASE LockWrite(c)
  <2>1. /\ writeMu = None /\ writeMu' = c /\ pc'[c] = "header" /\ pc[c] = "write"
        /\ UNCHANGED <<toServer, frame, reader, alive, stdin>>
    BY <1>1, <1>4 DEF LockWrite, Goto, TypeOK, readerVars, pipeVars
  <2> QED
    BY <1>1, <1>2, <2>1, SamePipe DEF WriteInv
<1>5. ASSUME NEW part \in {"header", "body"}, Put(part, c, job[c], id[c]), pc[c] = part, CanWrite,
             frame' = frame
      PROVE  FramesWhole' /\ Last' = IF part = "header" THEN c ELSE None
  <2>1. job[c] # "none"
    BY <1>1, <1>5 DEF StartInv
  <2>2. [part |-> part, from |-> c, job |-> job[c], id |-> id[c]] \in Part
    BY <1>1, <2>1 DEF TypeOK, Part
  <2>3. writeMu = c /\ (\A d \in Caller : pc[d] = "body" => d = c) /\ reader # "body"
    BY <1>1, <1>5 DEF WriteInv
  <2>4. Last = IF part = "body" THEN c ELSE None
    BY <1>1, <1>5, <2>3 DEF WriteInv, CanWrite
  <2> QED
    BY <1>1, <1>5, <2>2, <2>4, PutFits DEF Put, TypeOK
<1>6. CASE WriteHeader(c)
  <2>1. /\ pc[c] = "header" /\ CanWrite /\ Put("header", c, job[c], id[c])
        /\ pc'[c] = "body" /\ UNCHANGED <<frame, reader, alive, stdin, writeMu>>
    BY <1>1, <1>6 DEF WriteHeader, Goto, TypeOK, readerVars, clientVars
  <2>2. FramesWhole' /\ Last' = c
    BY <1>5, <2>1
  <2> QED
    BY <1>1, <1>2, <2>1, <2>2 DEF WriteInv
<1>7. CASE WriteBody(c)
  <2>1. /\ pc[c] = "body" /\ CanWrite /\ Put("body", c, job[c], id[c]) /\ writeMu' = None
        /\ UNCHANGED <<frame, reader, alive>>
    BY <1>7 DEF WriteBody, readerVars
  <2>2. FramesWhole' /\ Last' = None
    BY <1>5, <2>1
  <2>3. pc'[c] \notin {"header", "body"}
    <3>1. CASE job[c] \in Request
      BY <1>1, <1>7, <3>1 DEF WriteBody, Goto, TypeOK
    <3>2. CASE job[c] \notin Request
      BY <1>1, <1>7, <3>2, EndsMove, MovesTypes DEF Ends
    <3> QED
      BY <3>1, <3>2
  <2> QED
    BY <1>1, <1>2, <2>1, <2>2, <2>3 DEF WriteInv
<1>8. CASE WriteFails(c)
  <2>1. /\ pc[c] \in {"header", "body"} /\ Broken /\ writeMu' = None
        /\ UNCHANGED <<toServer, frame, reader, alive>>
    BY <1>8 DEF WriteFails, readerVars
  <2>2. pc'[c] \notin {"header", "body"} /\ (stdin' => stdin)
    BY <1>1, <1>8, EndsMove, MovesTypes DEF Ends
  <2>3. ~(alive' /\ stdin')
    BY <2>1, <2>2, Zenon DEF Broken
  <2> QED
    BY <1>1, <1>2, <2>1, <2>2, <2>3, SamePipe DEF WriteInv
<1>9. ASSUME pc[c] \notin {"header", "body"}, pc'[c] \notin {"header", "body"},
             UNCHANGED <<toServer, frame, reader, alive, writeMu>>, stdin' => stdin
      PROVE  WriteInv'
  BY <1>1, <1>2, <1>9, SamePipe DEF WriteInv
<1>10. CASE Answered(c) \/ GiveUp(c) \/ ClientClosed(c)
  <2>1. pc[c] = "await" /\ UNCHANGED <<toServer, frame, reader, alive, writeMu>>
    BY <1>10 DEF Answered, GiveUp, ClientClosed, readerVars, clientVars
  <2>2. pc'[c] \notin {"header", "body"} /\ (stdin' => stdin)
    BY <1>1, <1>10, EndsMove, MovesTypes DEF Ends
  <2> QED
    BY <1>9, <2>1, <2>2
<1>11. CASE Call(c) \/ Hit(c) \/ LoadFails(c) \/ Reap(c) \/ Register(c)
  <2>1. UNCHANGED <<toServer, frame, reader, alive, writeMu, stdin>>
    BY <1>11 DEF Call, Hit, LoadFails, Reap, Register, readerVars, clientVars, pipeVars
  <2>2. pc[c] \notin {"header", "body"} /\ pc'[c] \notin {"header", "body"}
    BY <1>1, <1>11 DEF Call, Hit, LoadFails, Reap, Register, Goto, TypeOK
  <2>3. stdin' => stdin
    BY <2>1, Zenon
  <2> QED
    BY <1>9, <2>1, <2>2, <2>3
<1>12. CASE Cancel(c)
  BY <1>1, <1>12, SamePipe DEF Cancel, WriteInv, readerVars, clientVars, pipeVars
<1> QED
  BY <1>3, <1>4, <1>6, <1>7, <1>8, <1>10, <1>11, <1>12, CallerCases DEF Ends

LEMMA WriteStepOthers ==
    ASSUME IInv, Others
    PROVE  WriteInv'
<1>1. /\ TypeOK /\ WriteInv /\ FramesWhole
      /\ Reader \notin Caller /\ None \notin Caller /\ Reader # None
  BY ClientAssumption DEF IInv, WriteInv
<1>2. UNCHANGED <<pc, stdin>>
  BY OthersLeave
<1>3. CASE Read \/ Deliver \/ FailAll \/ CloseClient \/ ServerAnswers(Request) \/ ServerAsks
  <2>1. /\ UNCHANGED <<toServer, frame, alive, writeMu>>
        /\ reader' = reader \/ (reader \notin {"header", "body"} /\ reader' \notin {"header", "body"})
    BY <1>3 DEF Read, Deliver, FailAll, CloseClient, ServerAnswers, ServerAsks, ServerSends,
                ReaderAt, readerVars, clientVars, pipeVars
  <2> QED
    BY <1>1, <1>2, <2>1, SamePipe DEF WriteInv
<1>4. CASE ReplyLock
  <2>1. /\ writeMu = None /\ writeMu' = Reader /\ reader = "write" /\ reader' = "header"
        /\ UNCHANGED <<toServer, frame, alive>>
    BY <1>4 DEF ReplyLock, ReaderAt, pipeVars
  <2> QED
    BY <1>1, <1>2, <2>1, SamePipe DEF WriteInv
<1>5. ASSUME NEW part \in {"header", "body"}, Put(part, Reader, "reply", 0), reader = part, CanWrite,
             frame' = frame
      PROVE  FramesWhole' /\ Last' = IF part = "header" THEN Reader ELSE None
  <2>1. [part |-> part, from |-> Reader, job |-> "reply", id |-> 0] \in Part
    BY DEF Part
  <2>2. writeMu = Reader /\ (\A d \in Caller : pc[d] # "body")
    BY <1>1, <1>5 DEF WriteInv
  <2>3. Last = IF part = "body" THEN Reader ELSE None
    BY <1>1, <1>5, <2>2 DEF WriteInv, CanWrite
  <2> QED
    BY <1>1, <1>5, <2>1, <2>3, PutFits DEF Put, TypeOK
<1>6. CASE ReplyHeader
  <2>1. /\ reader = "header" /\ CanWrite /\ Put("header", Reader, "reply", 0)
        /\ reader' = "body" /\ UNCHANGED <<frame, alive, writeMu>>
    BY <1>6 DEF ReplyHeader, ReaderAt, clientVars
  <2>2. FramesWhole' /\ Last' = Reader
    BY <1>5, <2>1
  <2> QED
    BY <1>1, <1>2, <2>1, <2>2 DEF WriteInv
<1>7. CASE ReplyBody
  <2>1. /\ reader = "body" /\ CanWrite /\ Put("body", Reader, "reply", 0)
        /\ reader' = "read" /\ writeMu' = None /\ UNCHANGED <<frame, alive>>
    BY <1>7 DEF ReplyBody, ReaderAt
  <2>2. FramesWhole' /\ Last' = None
    BY <1>5, <2>1
  <2> QED
    BY <1>1, <1>2, <2>1, <2>2 DEF WriteInv
<1>8. CASE ReplyFails
  <2>1. /\ reader \in {"header", "body"} /\ reader' = "read" /\ writeMu' = None
        /\ UNCHANGED <<toServer, frame, alive>> /\ ~(alive' /\ stdin')
    BY <1>1, <1>2, <1>8 DEF ReplyFails, ReaderAt, Broken, pipeVars, TypeOK
  <2> QED
    BY <1>1, <1>2, <2>1, SamePipe DEF WriteInv
<1>9. CASE ServerReads
  <2>1. FramesWhole' /\ Last' = Last /\ UNCHANGED <<alive, writeMu, reader>>
    BY <1>1, <1>9, ReadFits DEF ServerReads, TypeOK, readerVars, clientVars
  <2> QED
    BY <1>1, <1>2, <2>1 DEF WriteInv
<1>10. CASE ServerDies
  <2>1. /\ toServer' = <<>> /\ frame' = None /\ alive' = FALSE /\ UNCHANGED <<writeMu, reader>>
    BY <1>10 DEF ServerDies, clientVars
  <2> QED
    BY <1>1, <1>2, <2>1, EmptyPipe DEF WriteInv
<1> QED
  BY <1>3, <1>4, <1>6, <1>7, <1>8, <1>9, <1>10 DEF Others, ReaderStep

-----------------------------------------------------------------------------
(* The theorems.                                                           *)

LEMMA InitIInv == Init => IInv
<1> SUFFICES ASSUME Init PROVE IInv
  OBVIOUS
<1>1. TypeOK
  <2>1. /\ toServer \in Seq(Part) /\ Len(toServer) <= PipeRoom
        /\ toClient \in Seq(Message) /\ Len(toClient) <= PipeRoom
    BY EmptySeq, ClientAssumption DEF Init
  <2> QED
    BY <2>1, NoMessageType DEF Init, TypeOK
<1>2. StartInv
  BY ClientAssumption DEF Init, StartInv, Starting, Serving
<1>3. CountInv
  <2>1. Due = {}
    BY DEF Init, Due
  <2>2. calls = 0 /\ ~server /\ cacheMu = None
    BY DEF Init
  <2> QED
    BY <2>1, <2>2, FS_EmptySet, ClientAssumption DEF CountInv
<1>4. WriteInv
  BY ClientAssumption DEF Init, WriteInv, FramesWhole, Last
<1>5. OwnerInv
  BY DEF Init, OwnerInv, InFlight
<1>6. TokenInv
  BY DEF Init, TokenInv
<1> QED
  BY <1>1, <1>2, <1>3, <1>4, <1>5, <1>6 DEF IInv

THEOREM Invariance == Spec => []IInv
<1>1. IInv /\ [Next]_vars => IInv'
  <2> SUFFICES ASSUME IInv, [Next]_vars PROVE IInv'
    OBVIOUS
  <2>1. CASE UNCHANGED vars
    <3> USE <2>1 DEF vars, cacheVars, clientVars, readerVars, pipeVars, bounds
    <3>1. TypeOK' /\ StartInv'
      BY DEF IInv, TypeOK, StartInv
    <3>2. CountInv'
      BY DEF IInv, CountInv, Due, Requested
    <3>3. WriteInv'
      BY DEF IInv, WriteInv, FramesWhole, Last
    <3>4. OwnerInv' /\ TokenInv'
      BY DEF IInv, OwnerInv, Of, TokenInv, InFlight
    <3> QED
      BY <3>1, <3>2, <3>3, <3>4 DEF IInv
  <2>2. CASE \E c \in Caller : Call(c) \/ CallerStep(c) \/ Cancel(c)
    BY <2>2, TypeStepCaller, StartStepCaller, CountStepCaller, WriteStepCaller,
       OwnerStepCaller, TokenStepCaller DEF IInv
  <2>3. CASE Others
    BY <2>3, TypeStepOthers, StartStepOthers, CountStepOthers, WriteStepOthers,
       OwnerStepOthers, TokenStepOthers DEF IInv
  <2> QED
    BY <2>1, <2>2, <2>3 DEF Next, Others
<1> QED
  BY <1>1, InitIInv, PTL DEF Spec

\* Every variable keeps its type: in particular no client gives out more ids
\* than two and one for each call.
THEOREM TypeCorrect == Spec => []TypeOK
BY Invariance, PTL DEF IInv

\* Whoever writes, and whenever a write fails, the server reads whole frames.
THEOREM FramesStayWhole == Spec => []FramesWhole
BY Invariance, PTL DEF IInv, WriteInv

\* No caller is given the answer to the request of another, nor to one of its own
\* that it has given up.
THEOREM AnswersFindTheirCallers == Spec => []OwnAnswer
<1>1. IInv => OwnAnswer
  <2> SUFFICES ASSUME IInv, NEW c \in Caller, pc[c] = "await", box[id[c]] # NoMessage
               PROVE  box[id[c]].for = c
    BY DEF OwnAnswer
  <2>1. InFlight(c)
    BY DEF IInv, StartInv, InFlight
  <2>2. id[c] \in 1 .. nextID /\ nextID \in {0} \cup ID
    BY <2>1 DEF IInv, OwnerInv, Of, TypeOK
  <2>3. id[c] \in ID
    BY <2>2, ClientAssumption DEF ID
  <2> QED
    BY <2>1, <2>3 DEF IInv, OwnerInv, Of
<1> QED
  BY <1>1, Invariance, PTL

\* The reader finds the channel of a request empty whenever it has an answer or
\* the end of the server to put there.
THEOREM ReaderIsFree == Spec => []ReaderNeverBlocks
<1>1. IInv => ReaderNeverBlocks
  BY DEF IInv, TokenInv, ReaderNeverBlocks
<1> QED
  BY <1>1, Invariance, PTL

\* However calls end, pending keeps none of their requests.
THEOREM PendingStaysSmall == Spec => []PendingInFlight
<1>1. IInv => PendingInFlight
  BY DEF IInv, TokenInv, PendingInFlight, InFlight
<1> QED
  BY <1>1, Invariance, PTL

\* Whatever the callers race for, there is one server at a time.
THEOREM ServersDoNotPileUp == Spec => OneServer
<1>1. IInv /\ [Next]_vars => [starts' # starts => ~alive /\ ~server]_vars
  <2> SUFFICES ASSUME IInv, Next, starts' # starts PROVE ~alive /\ ~server
    OBVIOUS
  <2>1. PICK c \in Caller : Call(c) \/ CallerStep(c) \/ Cancel(c)
    BY OthersLeave DEF Next, Others
  <2>2. Start(c)
    <3>1. ~Ends(c)
      BY EndsMove DEF IInv, bounds
    <3> QED
      BY <2>1, <3>1, CallerCases
         DEF Call, Cancel, Hit, LoadFails, Reap, Register, LockWrite, WriteHeader,
             WriteBody, bounds
  <2> QED
    BY <2>2 DEF Start, IInv, StartInv
<1> QED
  BY <1>1, Invariance, PTL DEF Spec, OneServer
=============================================================================
