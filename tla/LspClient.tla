------------------------------- MODULE LspClient -------------------------------
(***************************************************************************)
(* The language server of one language in one workspace: its start under   *)
(* the cache of pkg/cog/queries.go, and the JSON-RPC client of             *)
(* pkg/lsp/lsp.go that several requests of captn then share.               *)
(*                                                                         *)
(* A caller asks for the server, starts it if nobody has, announces a      *)
(* document and asks for definitions.  Its job is the message it is        *)
(* sending or waiting for.  A frame goes through the pipe to the server in *)
(* two writes, a header and a body.  The reader is the goroutine of        *)
(* readLoop.  The server is a process captn knows only by its pipes.       *)
(***************************************************************************)
EXTENDS Naturals, Sequences, FiniteSets

CONSTANTS
    Caller,
    Reader,    \* the goroutine that reads what the server writes
    None,
    PipeRoom,  \* how many writes a pipe holds before a writer blocks
    MaxCalls,  \* bound: calls callers make
    MaxAsks,   \* bound: messages of its own a server sends
    MaxStarts  \* bound: servers started

ASSUME ClientAssumption ==
    /\ Reader \notin Caller /\ None \notin Caller \cup {Reader}
    /\ PipeRoom \in Nat \ {0}
    /\ MaxCalls \in Nat /\ MaxAsks \in Nat /\ MaxStarts \in Nat

VARIABLES
    \* the cache
    cacheMu,   \* the caller that holds lspServerCacheMu
    server,    \* lspServerCache: whether it has a client
    located,   \* locatedServers: whether the server's binary has been found
    \* callers
    pc, job,
    id,        \* the id of the request a caller waits for
    gone,      \* whether the context of a caller is cancelled
    \* the client
    nextID,
    pending,   \* the caller waiting for each id
    box,       \* the channel of each request
    writeMu,
    closed,
    reader,    \* where the reader is
    hand,      \* the message it has taken from the pipe
    \* the server and the pipes
    alive, stdin, toServer, toClient,
    frame,     \* the writer of the header the server has read last
    todo,      \* the requests it has not answered
    \* bounds
    calls, asks, starts

cacheVars  == <<cacheMu, server, located>>
readerVars == <<reader, hand>>
clientVars == <<nextID, pending, box, writeMu, closed>>
pipeVars   == <<alive, stdin, toServer, toClient, frame, todo>>
bounds     == <<calls, asks, starts>>
vars == <<cacheVars, pc, job, id, gone, clientVars, readerVars, pipeVars, bounds>>

\* A call asks for up to MaxCalls definitions in all; a start takes two requests.
ID == 1 .. MaxCalls + 2
Request == {"initialize", "definition", "shutdown"}
Notice  == {"initialized", "didOpen", "exit"}

NoMessage == [kind |-> "none", id |-> 0, for |-> None]

Init ==
    /\ cacheMu = None /\ server = FALSE /\ located = FALSE
    /\ pc = [c \in Caller |-> "idle"]
    /\ job = [c \in Caller |-> "none"]
    /\ id = [c \in Caller |-> 0]
    /\ gone = [c \in Caller |-> FALSE]
    /\ nextID = 0
    /\ pending = [i \in ID |-> None]
    /\ box = [i \in ID |-> NoMessage]
    /\ writeMu = None /\ closed = FALSE
    /\ reader = "done" /\ hand = NoMessage
    /\ alive = FALSE /\ stdin = FALSE
    /\ toServer = <<>> /\ toClient = <<>>
    /\ frame = None /\ todo = {}
    /\ calls = 0 /\ asks = 0 /\ starts = 0

-----------------------------------------------------------------------------
(* What follows a step of a caller.                                        *)

Goto(c, label, j) ==
    /\ pc' = [pc EXCEPT ![c] = label]
    /\ job' = [job EXCEPT ![c] = j]

\* A message has been sent, or a request answered.  The client is cached when
\* "initialized" is sent, and Close ends the server's input after "exit".  A call
\* asks for one definition: Definitions and ListDependencies ask for several, one
\* after the other, and a range outside the text fails between two of them.
Succeed(c) ==
    /\ CASE job[c] = "initialize"  -> Goto(c, "write", "initialized")
         [] job[c] = "initialized" -> Goto(c, "write", "didOpen")
         [] job[c] = "didOpen"     -> Goto(c, "register", "definition")
         [] job[c] = "definition"  -> Goto(c, "idle", "none")
         [] job[c] = "shutdown"    -> Goto(c, "write", "exit")
         [] job[c] = "exit"        -> Goto(c, "reap", "none")
    /\ server' = (server \/ job[c] = "initialized")
    /\ cacheMu' = IF job[c] = "initialized" THEN None ELSE cacheMu
    /\ stdin' = (stdin /\ job[c] # "exit")
    /\ UNCHANGED located

\* Mutant: a shutdown that fails is asked for again.
FailRetrying(c) ==
    CASE job[c] \in {"initialize", "initialized", "shutdown"} ->
            Goto(c, "register", "shutdown") /\ UNCHANGED <<cacheVars, stdin>>
      [] job[c] \in {"didOpen", "definition"} ->
            Goto(c, "idle", "none") /\ UNCHANGED <<cacheVars, stdin>>
      [] job[c] = "exit" -> Succeed(c)

\* It has not: a start that fails closes the client, and Close ignores errors.
Fail(c) ==
    CASE job[c] \in {"initialize", "initialized"} ->
            Goto(c, "register", "shutdown") /\ UNCHANGED <<cacheVars, stdin>>
      [] job[c] \in {"didOpen", "definition"} ->
            Goto(c, "idle", "none") /\ UNCHANGED <<cacheVars, stdin>>
      [] job[c] \in {"shutdown", "exit"} -> Succeed(c)

-----------------------------------------------------------------------------
(* loadLSPServerForLanguage and lsp.Start.                                 *)

Call(c) ==
    /\ pc[c] = "idle" /\ calls < MaxCalls
    /\ calls' = calls + 1
    /\ Goto(c, "load", "none")
    /\ gone' = [gone EXCEPT ![c] = FALSE]
    /\ UNCHANGED <<cacheVars, id, clientVars, readerVars, pipeVars, asks, starts>>

Hit(c) ==
    /\ pc[c] = "load" /\ cacheMu = None
    /\ server
    /\ Goto(c, "write", "didOpen")
    /\ UNCHANGED <<cacheVars, id, gone, clientVars, readerVars, pipeVars, bounds>>

\* The binary is not found, or does not start.
LoadFails(c) ==
    /\ pc[c] = "load" /\ cacheMu = None
    /\ ~server
    /\ located' \in {located, TRUE}
    /\ Goto(c, "idle", "none")
    /\ UNCHANGED <<cacheMu, server, id, gone, clientVars, readerVars, pipeVars, bounds>>

\* A new client with pipes to a new server.
NewClient ==
    /\ nextID' = 0
    /\ pending' = [i \in ID |-> None]
    /\ box' = [i \in ID |-> NoMessage]
    /\ writeMu' = None /\ closed' = FALSE
    /\ reader' = "read" /\ hand' = NoMessage
    /\ alive' = TRUE /\ stdin' = TRUE
    /\ toServer' = <<>> /\ toClient' = <<>>
    /\ frame' = None /\ todo' = {}

\* Mutant: the mutex is given up while the server starts.
StartUnlocked(c) ==
    /\ pc[c] = "load" /\ cacheMu = None
    /\ ~server
    /\ starts < MaxStarts /\ starts' = starts + 1
    /\ located' = TRUE
    /\ NewClient
    /\ Goto(c, "register", "initialize")
    /\ UNCHANGED <<cacheMu, server, id, gone, calls, asks>>

\* lspServerCacheMu is kept until the server has started or been closed.
Start(c) ==
    /\ pc[c] = "load" /\ cacheMu = None
    /\ ~server
    /\ starts < MaxStarts /\ starts' = starts + 1
    /\ located' = TRUE /\ cacheMu' = c
    /\ NewClient
    /\ Goto(c, "register", "initialize")
    /\ UNCHANGED <<server, id, gone, calls, asks>>

\* The end of Close: the process has been waited for, and Start returns its error.
Reap(c) ==
    /\ pc[c] = "reap" /\ ~alive
    /\ cacheMu' = None
    /\ Goto(c, "idle", "none")
    /\ UNCHANGED <<server, located, id, gone, clientVars, readerVars, pipeVars, bounds>>

-----------------------------------------------------------------------------
(* Client.request and Client.write.                                        *)

\* Mutant: ids count the requests in flight.
RegisterReusing(c) ==
    /\ pc[c] = "register"
    /\ LET i == Cardinality({n \in ID : pending[n] # None}) + 1 IN
        /\ nextID' = i
        /\ id' = [id EXCEPT ![c] = i]
        /\ pending' = [pending EXCEPT ![i] = c]
        /\ box' = [box EXCEPT ![i] = NoMessage]
    /\ Goto(c, "write", job[c])
    /\ UNCHANGED <<cacheVars, gone, writeMu, closed, readerVars, pipeVars, bounds>>

Register(c) ==
    /\ pc[c] = "register"
    /\ nextID' = nextID + 1
    /\ id' = [id EXCEPT ![c] = nextID']
    /\ pending' = [pending EXCEPT ![nextID'] = c]
    /\ box' = [box EXCEPT ![nextID'] = NoMessage]
    /\ Goto(c, "write", job[c])
    /\ UNCHANGED <<cacheVars, gone, writeMu, closed, readerVars, pipeVars, bounds>>

\* Mutant: write does not lock.
LockWriteAlways(c) ==
    /\ pc[c] = "write"
    /\ writeMu' = c
    /\ Goto(c, "header", job[c])
    /\ UNCHANGED <<cacheVars, id, gone, nextID, pending, box, closed, readerVars, pipeVars, bounds>>

LockWrite(c) ==
    /\ pc[c] = "write" /\ writeMu = None
    /\ writeMu' = c
    /\ Goto(c, "header", job[c])
    /\ UNCHANGED <<cacheVars, id, gone, nextID, pending, box, closed, readerVars, pipeVars, bounds>>

\* A write blocks while the pipe is full and somebody may still read it.
CanWrite == alive /\ stdin /\ Len(toServer) < PipeRoom
Broken   == ~alive \/ ~stdin

Put(part, from, j, i) ==
    toServer' = Append(toServer, [part |-> part, from |-> from, job |-> j, id |-> i])

WriteHeader(c) ==
    /\ pc[c] = "header" /\ CanWrite
    /\ Put("header", c, job[c], id[c])
    /\ Goto(c, "body", job[c])
    /\ UNCHANGED <<cacheVars, id, gone, clientVars, readerVars, alive, stdin, toClient, frame, todo, bounds>>

WriteBody(c) ==
    /\ pc[c] = "body" /\ CanWrite
    /\ Put("body", c, job[c], id[c])
    /\ writeMu' = None
    /\ IF job[c] \in Request
       THEN Goto(c, "await", job[c]) /\ UNCHANGED <<cacheVars, stdin>>
       ELSE Succeed(c)
    /\ UNCHANGED <<id, gone, nextID, pending, box, closed, readerVars, alive, toClient, frame, todo, bounds>>

\* The error of a write takes its request back.
WriteFails(c) ==
    /\ pc[c] \in {"header", "body"} /\ Broken
    /\ writeMu' = None
    /\ pending' = IF job[c] \in Request THEN [pending EXCEPT ![id[c]] = None] ELSE pending
    /\ Fail(c)
    /\ UNCHANGED <<id, gone, nextID, box, closed, readerVars, alive, toServer, toClient, frame, todo, bounds>>

\* The select of request, which takes any branch that is ready.
Answered(c) ==
    /\ pc[c] = "await"
    /\ box[id[c]] # NoMessage
    /\ box' = [box EXCEPT ![id[c]] = NoMessage]
    /\ IF box[id[c]].kind = "result" THEN Succeed(c) ELSE Fail(c)
    /\ UNCHANGED <<id, gone, nextID, pending, writeMu, closed, readerVars, alive, toServer, toClient, frame, todo, bounds>>

\* Mutant: a request given up stays pending.
GiveUpPending(c) ==
    /\ pc[c] = "await" /\ job[c] = "definition" /\ gone[c]
    /\ Fail(c)
    /\ UNCHANGED <<id, gone, clientVars, readerVars, alive, toServer, toClient, frame, todo, bounds>>

\* The server is started and closed on a background context.
GiveUp(c) ==
    /\ pc[c] = "await" /\ job[c] = "definition" /\ gone[c]
    /\ pending' = [pending EXCEPT ![id[c]] = None]
    /\ Fail(c)
    /\ UNCHANGED <<id, gone, nextID, box, writeMu, closed, readerVars, alive, toServer, toClient, frame, todo, bounds>>

\* The pending entry stays.
ClientClosed(c) ==
    /\ pc[c] = "await" /\ closed
    /\ Fail(c)
    /\ UNCHANGED <<id, gone, clientVars, readerVars, alive, toServer, toClient, frame, todo, bounds>>

-----------------------------------------------------------------------------
(* Client.readLoop.                                                        *)

ReaderAt(label) == reader' = label

\* Mutant: an answered request stays pending.
ReadPending ==
    /\ reader = "read" /\ toClient # <<>> /\ Head(toClient).kind # "junk"
    /\ LET m == Head(toClient)
           wanted == m.kind \in {"result", "error"} /\ pending[m.id] # None
       IN  /\ hand' = IF wanted THEN m ELSE NoMessage
           /\ ReaderAt(IF wanted THEN "deliver" ELSE IF m.kind = "ask" THEN "write" ELSE "read")
    /\ toClient' = Tail(toClient)
    /\ UNCHANGED <<cacheVars, pc, job, id, gone, clientVars, alive, stdin, toServer, frame, todo, bounds>>

\* A message is read: one of the server's own is ignored or wants a reply, an
\* answer nobody waits for is dropped, another leaves pending.
Read ==
    /\ reader = "read" /\ toClient # <<>> /\ Head(toClient).kind # "junk"
    /\ LET m == Head(toClient)
           wanted == m.kind \in {"result", "error"} /\ pending[m.id] # None
       IN  /\ hand' = IF wanted THEN m ELSE NoMessage
           /\ pending' = IF wanted THEN [pending EXCEPT ![m.id] = None] ELSE pending
           /\ ReaderAt(IF wanted THEN "deliver" ELSE IF m.kind = "ask" THEN "write" ELSE "read")
    /\ toClient' = Tail(toClient)
    /\ UNCHANGED <<cacheVars, pc, job, id, gone, nextID, box, writeMu, closed, alive, stdin, toServer, frame, todo, bounds>>

\* The channel of a request has room for one answer.
Deliver ==
    /\ reader = "deliver"
    /\ box[hand.id] = NoMessage
    /\ box' = [box EXCEPT ![hand.id] = hand]
    /\ hand' = NoMessage
    /\ ReaderAt("read")
    /\ UNCHANGED <<cacheVars, pc, job, id, gone, nextID, pending, writeMu, closed, pipeVars, bounds>>

\* respondToServerRequest.
ReplyLock ==
    /\ reader = "write" /\ writeMu = None
    /\ writeMu' = Reader
    /\ ReaderAt("header")
    /\ UNCHANGED <<cacheVars, pc, job, id, gone, nextID, pending, box, closed, hand, pipeVars, bounds>>

ReplyHeader ==
    /\ reader = "header" /\ CanWrite
    /\ Put("header", Reader, "reply", 0)
    /\ ReaderAt("body")
    /\ UNCHANGED <<cacheVars, pc, job, id, gone, clientVars, hand, alive, stdin, toClient, frame, todo, bounds>>

ReplyBody ==
    /\ reader = "body" /\ CanWrite
    /\ Put("body", Reader, "reply", 0)
    /\ writeMu' = None
    /\ ReaderAt("read")
    /\ UNCHANGED <<cacheVars, pc, job, id, gone, nextID, pending, box, closed, hand, alive, stdin, toClient, frame, todo, bounds>>

ReplyFails ==
    /\ reader \in {"header", "body"} /\ Broken
    /\ writeMu' = None
    /\ ReaderAt("read")
    /\ UNCHANGED <<cacheVars, pc, job, id, gone, nextID, pending, box, closed, hand, pipeVars, bounds>>

\* The server has closed its end, or has written what is no frame: every request
\* in flight fails ...
FailAll ==
    /\ reader = "read"
    /\ IF toClient = <<>> THEN ~alive ELSE Head(toClient).kind = "junk"
    /\ \A i \in ID : pending[i] # None => box[i] = NoMessage
    /\ box' = [i \in ID |-> IF pending[i] # None
                            THEN [kind |-> "lost", id |-> i, for |-> pending[i]] ELSE box[i]]
    /\ pending' = [i \in ID |-> None]
    /\ ReaderAt("close")
    /\ UNCHANGED <<cacheVars, pc, job, id, gone, nextID, writeMu, closed, hand, pipeVars, bounds>>

\* Mutant: the deferred close is missing.
ReaderStops ==
    /\ reader = "close"
    /\ ReaderAt("done")
    /\ UNCHANGED <<cacheVars, pc, job, id, gone, clientVars, hand, pipeVars, bounds>>

\* ... and so does every request that comes later.
CloseClient ==
    /\ reader = "close"
    /\ closed' = TRUE
    /\ ReaderAt("done")
    /\ UNCHANGED <<cacheVars, pc, job, id, gone, nextID, pending, box, writeMu, hand, pipeVars, bounds>>

-----------------------------------------------------------------------------
(* The server.  It answers in any order, and writes things of its own.     *)

ServerReads ==
    /\ alive /\ toServer # <<>>
    /\ LET p == Head(toServer) IN
        /\ frame' = IF p.part = "header" THEN p.from ELSE None
        /\ todo' = IF p.part = "body" /\ p.job \in Request
                   THEN todo \cup {[job |-> p.job, id |-> p.id, for |-> p.from]} ELSE todo
    /\ toServer' = Tail(toServer)
    /\ UNCHANGED <<cacheVars, pc, job, id, gone, clientVars, readerVars, alive, stdin, toClient, bounds>>

ServerSends(m) ==
    /\ alive /\ Len(toClient) < PipeRoom
    /\ toClient' = Append(toClient, m)
    /\ UNCHANGED <<cacheVars, pc, job, id, gone, clientVars, readerVars, alive, stdin, toServer, frame>>

ServerAnswers(J) ==
    \E q \in todo, kind \in {"result", "error"} :
        /\ q.job \in J
        /\ ServerSends([kind |-> kind, id |-> q.id, for |-> q.for])
        /\ todo' = todo \ {q}
        /\ UNCHANGED bounds

ServerAsks ==
    \E kind \in {"ask", "notice", "junk"} :
        /\ asks < MaxAsks /\ asks' = asks + 1
        /\ ServerSends([kind |-> kind, id |-> 0, for |-> None])
        /\ UNCHANGED <<todo, calls, starts>>

\* The server dies, or exits when its input has ended.  What it has written can
\* still be read; what it has not read is gone.
ServerDies ==
    /\ alive
    /\ alive' = FALSE
    /\ toServer' = <<>> /\ todo' = {} /\ frame' = None
    /\ UNCHANGED <<cacheVars, pc, job, id, gone, clientVars, reader, hand, stdin, toClient, bounds>>

Cancel(c) ==
    /\ pc[c] # "idle" /\ ~gone[c]
    /\ gone' = [gone EXCEPT ![c] = TRUE]
    /\ UNCHANGED <<cacheVars, pc, job, id, clientVars, readerVars, pipeVars, bounds>>

Load(c) == Hit(c) \/ LoadFails(c) \/ Start(c)

CallerStep(c) ==
    \/ Load(c) \/ Reap(c) \/ Register(c) \/ LockWrite(c) \/ WriteHeader(c)
    \/ WriteBody(c) \/ WriteFails(c) \/ Answered(c) \/ GiveUp(c) \/ ClientClosed(c)

ReaderStep ==
    \/ Read \/ Deliver \/ ReplyLock \/ ReplyHeader \/ ReplyBody \/ ReplyFails
    \/ FailAll \/ CloseClient

Next ==
    \/ \E c \in Caller : Call(c) \/ CallerStep(c) \/ Cancel(c)
    \/ ReaderStep
    \/ ServerReads \/ ServerAnswers(Request) \/ ServerAsks \/ ServerDies

Spec == Init /\ [][Next]_vars

\* Goroutines run, and get a mutex that becomes free again and again; a server
\* reads its input whatever it is writing, answers initialize and shutdown, and
\* exits when its input has ended.  It need not answer anything else.
FairSpec ==
    /\ Spec
    /\ \A c \in Caller : SF_vars(CallerStep(c))
    /\ SF_vars(ReaderStep)
    /\ WF_vars(ServerReads)
    /\ SF_vars(ServerAnswers({"initialize", "shutdown"}))
    /\ WF_vars(~stdin /\ ServerDies)

-----------------------------------------------------------------------------
Message == [kind : {"none", "result", "error", "lost", "ask", "notice", "junk"},
            id : {0} \cup ID, for : Caller \cup {None}]
Part == [part : {"header", "body"}, from : Caller \cup {Reader},
         job : Request \cup Notice \cup {"reply"}, id : {0} \cup ID]

\* Every variable has its type; a pipe never holds more than fits.
TypeOK ==
    /\ cacheMu \in Caller \cup {None} /\ server \in BOOLEAN /\ located \in BOOLEAN
    /\ pc \in [Caller -> {"idle", "load", "reap", "register", "write", "header", "body", "await"}]
    /\ job \in [Caller -> Request \cup Notice \cup {"none"}]
    /\ id \in [Caller -> {0} \cup ID] /\ gone \in [Caller -> BOOLEAN]
    /\ nextID \in {0} \cup ID
    /\ pending \in [ID -> Caller \cup {None}] /\ box \in [ID -> Message]
    /\ writeMu \in Caller \cup {Reader, None} /\ closed \in BOOLEAN
    /\ reader \in {"read", "deliver", "write", "header", "body", "close", "done"}
    /\ hand \in Message
    /\ alive \in BOOLEAN /\ stdin \in BOOLEAN
    /\ toServer \in Seq(Part) /\ Len(toServer) <= PipeRoom
    /\ toClient \in Seq(Message) /\ Len(toClient) <= PipeRoom
    /\ frame \in Caller \cup {Reader, None}
    /\ todo \subseteq [job : Request, id : ID, for : Caller]
    /\ calls \in Nat /\ asks \in Nat /\ starts \in Nat

\* Frames of callers and of the reader do not mix in the pipe: a body follows
\* its own header, so the server never loses its place in the stream.
FramesWhole ==
    LET before(k) == IF k = 1 THEN frame
                     ELSE IF toServer[k - 1].part = "header" THEN toServer[k - 1].from ELSE None
    IN  \A k \in DOMAIN toServer :
            before(k) = IF toServer[k].part = "body" THEN toServer[k].from ELSE None

\* What a caller is given is the answer to its own request, however late the
\* answers to requests that were given up arrive.
OwnAnswer ==
    \A c \in Caller : pc[c] = "await" /\ box[id[c]] # NoMessage => box[id[c]].for = c

\* The reader never blocks on the channel of a request, neither with an answer
\* nor with the end of the server: one answer is all a request ever gets.
ReaderNeverBlocks ==
    /\ reader = "deliver" => box[hand.id] = NoMessage
    /\ \A i \in ID : pending[i] # None => box[i] = NoMessage

\* While the client is open, pending holds the requests in flight and no more:
\* the map of a client that lives as long as captn does not grow.
PendingInFlight ==
    ~closed => \A i \in ID : pending[i] # None =>
        pc[pending[i]] \in {"write", "header", "body", "await"} /\ id[pending[i]] = i

\* "Concurrent callers for the same language share a single server instead of
\* racing on the map or spawning duplicates", loadLSPServerForLanguage: a server
\* is started when none is cached and the last one is dead.
OneServer == [][starts' # starts => ~alive /\ ~server]_vars

\* A call returns when its context is cancelled, and when the cached client is of
\* no more use because its server is dead or its reader has stopped, wherever the
\* call is: waiting for a mutex, a full pipe or an answer.  This holds of a server
\* that keeps reading its input and answers initialize and shutdown (FairSpec):
\* the code starts and closes it on a background context, without a timeout and
\* with lspServerCacheMu held, so one that does not holds up every caller.
CallsReturn ==
    \A c \in Caller :
        pc[c] # "idle" /\ (gone[c] \/ (server /\ (~alive \/ closed))) ~> pc[c] = "idle"
=============================================================================
