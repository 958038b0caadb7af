# Verification of captn

captn is an MCP server and a terminal wrapper around a coding agent. A tool call
searches the source tree for snippets, resolves what they depend on through
language servers, asks a model to explain the result, and keeps the answers
("observations") in a file, `captn.cog`, that is committed with the code and
shared through git. Several captn processes may work in one directory, each
serves many tool calls at once, and most of what a call does is waiting for
somebody else: a lock, another goroutine's parse, a language server, the model.

What it works on is the syntax of eleven languages: a transformer for each turns
the tree of a grammar into nodes of one kind, and everything a tool call does
with a language server depends on those nodes being where the server's ranges
point.

This directory holds TLA+ models of the parts where that concurrency lives and
of the way from a syntax tree to an indexed file, the TLC configurations that
check them on small instances, and TLAPS proofs, for instances of any size, of the
safety of everything but the parsers.

Contents: [components](#components), [plan](#plan), [the models](#the-models-and-the-code),
[runs](#the-runs), [fairness](#fairness), [proofs](#what-is-proved),
[disagreements found](#disagreements-between-code-and-comments),
[limits](#what-is-not-modelled).

## Components

| component | code | state it keeps | status |
|---|---|---|---|
| observation store | `pkg/cog/workspace.go` 119-573 | `wspaceCache` per process; per workspace `ObservationCache`, `ObservationWriteOrder`, `Mux`; the file and the advisory lock on it | modelled, proved |
| file loader | `pkg/cog/workspace.go` 576-634, `pkg/common/utils.go`, `pkg/cog/parse_file.go` | `loadedFiles`, `loadingFiles` under `Mux`; a `done` channel per call; error channel and context per request | modelled, proved |
| language server cache | `pkg/cog/queries.go`, `pkg/cog/lsp_server.go` | `lspServerCache`, `locatedServers`, one mutex | modelled (LspClient), proved |
| language server client | `pkg/lsp/lsp.go` | `nextID`, `pending`, `writeMu`, `closed`, the pipes, the read loop | modelled and proved, contents of messages left out |
| provider query and retry | `pkg/providers/claude_code.go`, `pkg/cog/observation_provider.go`, `pkg/cog/observation_graph.go` | the graph's attributes, the id maps of an attempt, what the explanation has seen | modelled, proved |
| terminal overlay, task status | `pkg/tui`, `pkg/initialize/init_with_tui.go` | task stack, timer, `visible`, the bar program's copy of it, ticks on their way; `childBottom`, the scroll region, the bytes cut from a sequence | modelled and proved (StatusOverlay, OverlayScreen) |
| AST and node index | `pkg/ast`, `pkg/cog/node_indexer_visitor.go`, `pkg/cog/parse_file.go`, `pkg/cog/queries.go` | parents, hashes (`lookupTable`), interval index | modelled (SyntaxTree, TransformWalk), without the error stack and the YAML and JSON forms |
| language parsers | `pkg/languages`, `pkg/parsers` | the cursor, `trx.Parent`, the nodes made so far | modelled: the walker and one module per transformer; finding and starting servers left out |
| dependency exploration | `pkg/cog/workspace.go` 636-915 | graph, `visited` map, error list | not: see [limits](#what-is-not-modelled) |
| search tool | `pkg/mcp/search_and_query_tool.go` | `done` channel, semaphore, `pairs`, `missing` | not |
| compute graph | `pkg/cgraph` | vertex attributes beside the graph library | not |
| text positions and hashes, grep | `pkg/common`, `pkg/grep` | none (pure) | not, but for what TransformWalk uses |
| server, client, command line | `cmd`, `pkg/server`, `pkg/initialize` | none of their own | not: wiring and I/O |

How they interact. A tool call opens a workspace (store), runs `SearchSnippet`
for each match in its own goroutine (loader, language server, exploration), hands
the graphs to `MultiGraphQueryWithDepth` (provider, which reads and writes the
observation cache of the workspace under `Mux`), and ends with `Persist` (store).
Requests of one process share the workspace, its two file maps, its observation
cache and one client per language; processes share only `captn.cog`. When captn
wraps a terminal program, each request is also a task on one status line, below
the rows that are left to the program. A file that is loaded is parsed by
tree-sitter, walked once by the transformer of its language, and indexed twice:
by the hash of a node and by its interval. `SearchSnippet` goes from a line to the
function around it, from there to the calls and types in it, from each to its
definition through the language server, and from the definition's range back to
a node of the other file, where it accepts one node and no other number.

What is hard, and what correctness means, component by component:

* **Store.** Nothing that reached the file may be lost, whichever processes
  persist, in whatever order; nobody reads half a file; write indices stay dense,
  or records are lost or doubled when marshalled; whoever waits for a lock gets
  it. Crashes, failing writes, and git replacing the file under the lock are part
  of its world.
* **Loader.** One `COGFile` per path for all requests (node identity depends on
  it), one parse at a time, no waiter left behind by a failed, cancelled or
  abandoned request, and an error that names the cause and not its consequence.
* **Language server client.** Frames that do not mix, answers that reach their own
  request however late, a read loop that never blocks, no call stuck on a dead
  server, one server per language.
* **Provider.** What the cache, another run, or a failed attempt knows reaches the
  explanation; retries are bounded and ask only for what is missing.
* **Overlay.** Tasks that overlap do not hide each other; what the program draws
  agrees with what the overlay says; the shimmer neither doubles nor freezes; no
  request hangs on its status line. The wrapped program never gets hold of the
  rows below its own, whatever it writes and however the terminal is resized, and
  what is hidden stays hidden.
* **Parsers and index.** No file makes the indexer panic; every name a file
  declares is where the language server says it is; what a definition is asked for
  leads back to the call it was asked for; no call is lost or made twice; a
  function can be found from its own text. All of this for files with syntax
  errors too: error recovery inserts tokens without a width, and a node without a
  width has an interval with nothing in it.

PROJECT.json lists the hazards behind these properties, each at its line, with
those no property covers yet and why.

## Plan

Done, in order of importance: store and its refinement, faults, loader, language
server, provider, status line, transformers and index, terminal; and of all but the
transformers the proofs of every safety property. What is left, in the order it is
meant to be done:

1. `SearchSnippet` over two indexed files: the graph it builds from the nodes
   `TransformWalk` finds, with the linkage of line 827.
2. The four goroutines of the search tool around their unbuffered `done` channel.

## The models and the code

Every definition that stands for code is listed in PROJECT.json under `map` with
its lines. Modules keep the names of the source where they can. Definitions
introduced by "Mutant:" are plausible bugs and are used by no specification; each
one shows that some property notices it.

### WorkspaceStore

Threads are goroutines of several processes. `OpenMiss`, `OpenLock`, `OpenRead`,
`OpenMerge` (one record at a time), `OpenTorn`, `OpenPublish` and `Unlock` are
`OpenWorkspace`; `SetObservation` is the call of that name; `PersistCall` to
`PersistDone` are `Persist`, with `os.WriteFile` split into the truncation and
the write. The steps lie where another process, another goroutine or a crash can
come between. The file is a sequence of records and `Torn` places, where
`unmarshalLocked` fails. The advisory lock is on an inode and not on the path
(`flock(2)`), which is what makes git dangerous; `inode`, `used`, `fd` and `out`
follow that. `Flat` stands for `ReplaceNewlines` and is idempotent.
`reached` and `lossy` are history variables: the keys that have been in a
complete file, and whether a fault happened that may lose them. A read that
fails here is that of a missing file only; the others are in `WorkspaceFaults`.
`marshalLocked` also gives indices to observations that were put into the cache
past `SetObservation` (workspace.go 406-425). Only tests do that, and the model
leaves it out.

A workspace is named after the thread that made it. This loses nothing: a thread
makes another workspace only when its process has none cached.

### ObservationLog and WorkspaceRefinement

The abstract specification: each workspace has a memory, and one log is replaced,
in one step, by the memory of a workspace that knows all of it. No locks, no
partial files. `WorkspaceRefinement` maps the store to it: the step that opens
the file for writing publishes, and until the writer is done the log is what it
will write.

### WorkspaceFaults

Adds to the store: `Crash` of a process at any step (the kernel releases its
locks; a file being written keeps some prefix of it); calls that return an error;
and git giving the path another inode: `GitPull` (`merge=union`, so keys may come
twice), `GitConflict` (a badly resolved merge), `GitRemove`. The errors are

* `WriteFails`: `os.WriteFile` stops half-way;
* `ReadFails`: `os.ReadFile` in `Persist` fails for a file that is there. The code
  treats it as a missing file: no merge, and the file is overwritten;
* `PersistFails`: nothing can be marshalled or the path not be opened for writing,
  and the file is as it was;
* `OpenFails`: `OpenWorkspace` cannot open or read the file and returns an error.

`lossy` is set where records may be lost, and by nothing else: a crash or an error
in the middle of a write, a failing read, a torn file that `Persist` stops merging
and overwrites (`PersistTorn`), and git moving the path while a thread is in
`Persist`.

### FileLoader and FileStaleness

A worker is one goroutine of `ParallelCollect` making one call of `LoadFile`.
`Hit`, `Join` and `Lead` are its three ways past `Mux`; `ReadFile` to
`ClearInflight` are the leader's; `WaitDone` and `WaitCancelled` the select of the
others. The deferred function closes `done` before it takes `Mux` to remove the
call, so these are two steps. `SendResult`, `SendError`, `CancelSiblings` and the
`Collect...` actions are `ParallelCollect`. Files have versions, some of which do
not parse. `FileStaleness` adds what was on disk when a request began.

### LspClient

`Hit`, `LoadFails`, `Start` and `Reap` are `loadLSPServerForLanguage` and
`lsp.Start`; `Register`, `LockWrite`, `WriteHeader`, `WriteBody`, `WriteFails`,
`Answered`, `GiveUp` and `ClientClosed` are `Client.request` and `Client.write`;
`Read` to `CloseClient` are `readLoop`, which answers the server's own requests
under the same write lock. Pipes hold a bounded number of writes and block. A
call is the sequence of messages `initialize`, `initialized`, `didOpen`,
`definition`, or `shutdown` and `exit` when a start fails; what they contain is
left out. There is one definition request for each `didOpen`; further ones for the
same file, and the error for a position outside of it (lsp.go 293-296), which
sends nothing, are left out. The server is outside captn: it answers in any order or never, sends
requests, notifications and lines that are no frames, and dies at any time.

### ProviderQuery

A run is one call of `MultiGraphQueryWithDepth`. `Lookup` is the walk of the
graph and the first part of `Query` under `Mux`, `Answered` the part after the
model has answered, `AskFails` and `AnswerMalformed` the ways it does not;
`Retry` is the loop of `QueryProviderWrapper`, `Collect` the maps `vseen` and
`eseen`. An item is an edge or a vertex reached from the root; the key of an edge
in the cache depends on the direction in which the undirected graph lists it, as
`ClaudeCodeProvider.Query` computes it, so a graph has several `Listings`.
`omitted` is a history variable: what the model was asked for and left out. What
an answer says is left out. The single-graph `ObservationGraph.QueryWithDepth`,
which nothing calls, is not modelled.

### StatusOverlay

`PushTask`, `Show`, `Report`, `PopTask`, `ReportLast` and `Hide` are the steps of
`StatusProvider.PushTask` and `popTask` between two critical sections;
`ReportStatus` is the progress a tool reports in between. The greeter is the
goroutine of `InitWithTUI`. `SetVisible` is `Overlay.Show` and `Hide` up to the
unlock; the message for the program is sent afterwards, on a channel without
room, so the sender waits until `Update` takes it or, once the program has ended,
`SendLost`. `StartProgram` and `PublishProgram` are the two critical sections of
`startProgram`, `Stop` and `Quit` those of `stop`. What a status says is left out,
and so is the terminal: a frame reaches it only while `visible` and the program's
own `barVisible` both hold. Two history variables say what the code does not
promise. `exposed` holds the tasks pushed while a hide was pending: the greeter's,
or that of a `popTask` that has unlocked and not yet hidden. These may run hidden.
`crossed` says that `visible` last changed while a message about it was on its
way or the program was between its copy and its publication. Then bar and overlay
may disagree until the next change.

### OverlayScreen

The same overlay as the terminal sees it. `resizer` is the goroutine of `Run` that
waits for SIGWINCH, `run` is `Run` itself, which sets the region once in `start`.
`GetSize`, `ReadVisible` and `setScrollRegion` are the steps of `setScrollRegion`:
the size, what is read under the mutex, and what is written under it again.
`GetSize` and `resizePty` are those of `resizePty`. `SetVisible`, `drawDivider`
and `clearBottomRows` are `Show` and `Hide`; `WriteFrame` is the `Write` of
`regionWriter`, where a frame that comes too late is dropped. `CopyChild` is the
`Write` of `childWriter`: the child writes a sequence at a time and a read of its pty
may end at any byte. `ClampScrollRegions`, `clampRegionSeq` and `RegionPrefix`
translate `region.go` over bytes, of which a digit, a semicolon, a bracket, an
escape and an `r` are told apart. Of a number it matters only which row it is, or
that it is beyond any; the digit zero is left out, and a missing number stands for
zero. The loop of `ClampScrollRegions` is a function of the number of its turns,
`Round`: each takes a byte at least, so there are no more than bytes.

What the child writes is any set of sequences over `Byte` of which the clamp may
assume what the code assumes (`ChildAssumption`): each escape sequence is ended
(`Ended`), and one that sets a region is no longer than `maxRegionSeqLen`
(`region.go` 9, "cannot be a DECSTBM"). `Uninterrupted` says more, that the child
begins none within another; the run's sequences are so, and a theorem asks for it.

The terminal is external: it reads bytes one by one, keeps the start of a
sequence until its end or the next escape, ignores a region of less than two rows,
and gives its region up when it is resized. What stays in the reserved rows after
a resize is left to it. The width that `setScrollRegion` sends the program at its
end is left out. `stale` and `crossed` are history variables, for what the
code does not promise: that `Run`, which reads the size without the mutex, has not
put back a size that is gone; and that nobody was about to draw when the overlay
was last shown or hidden.

### SyntaxTree and the transformers

`SyntaxTree` has what `ParserNode` offers over a concrete tree, the nodes of
`pkg/ast`, and what a transformer may do with a node, as a `Rule`: the nodes it
hands to `Emit`, the arguments it adds to the function it is in, and whether it
walks the children of the node, and into which parent. A node of the AST is its
kind, the syntax node whose range it has, and its children in the order
`Children()` lists them. Its text is left out, with two exceptions: a
token whose words decide something has them (`require`, `constructor`,
`static_cast`), and a pointer that may be nil is a sequence of at most one element.

`GolangTransformer`, `PythonTransformer`, `TypescriptTransformer`, `CTransformer`,
`RustTransformer`, `SwiftTransformer`, `JavaTransformer`, `PHPTransformer`,
`RubyTransformer`, `CSSTransformer` and `HTMLTransformer` each model one
`*_parser.go`: `GolangRule` is its `TransformNode`, a disjunct per case, and the
other operators are its functions. Those of Python, TypeScript and Swift also have
`NormalizeDefinitionRange` from the file of the language server.

### TransformWalk and SyntaxCases

`Transform`, `GotoNextSibling` and `GotoParent` are the loop of
`WalkTransformTree` around the cursor, with `parents` for the parents `walk` puts
back; `IndexNodes` is the indexer, for which the AST is the sequence of its nodes
in the order they are visited. A hash adds up the hashes of a node and of its
ancestors, so two nodes collide exactly when the ranges and kinds on their paths
occur equally often (`GetHash`); hashes of different words are taken to be
different. `intervals` holds, for each range, the node inserted last, and no empty
one. `FindNodesWithinRange` and `FindTightestEnclosingNodes` are the two lookups.

The grammars are external. `SyntaxCases` has sources as the trees their grammars
return, each with the source in a comment; a token is one byte wide, and zero when
error recovery has inserted it (`Parsed`). The tree says, for the properties, which
tokens are declared names, which name a call, and which nodes are functions: that
is what a language server would know of the source. It says so also where the code
makes no node: three properties name what the code leaves out, and hold of it too.

* `Nodeless` (in `DefinitionsLand`): the places where a declared name gets no node.
  In these the lookup finds none, everywhere else exactly one. `Orphaned` has the
  names that are dropped with a declaration whose own name is missing.
* `fillsFile` (in `FunctionsVisible`): for a function as wide as its file the module
  is found, for any other that narrows its block the function.
* `Unwalked` (in `CallsKept`): the declarations a transformer emits and does not walk.
  A call in one of these has no node, every other call has one.

## The runs

Instances are small, and chosen so that each case the properties are about does
happen; the passing runs between them take every action, and every property has a
mutant of the code that violates it under the run's own configuration.

| run | instance | shows |
|---|---|---|
| `store` | two threads in one process, one in another; two keys, one of them possibly in the file, by another author; no faults | `ReadsWholeFile`, `ReachedKept`, `OrderSound`, and that the store implements `ObservationLog` (`LogSpec`) |
| `faults` | two threads of one process that share a workspace, one key, a second inode for git; crashes, failing calls and changes by git at any step | `ReachedKept` unless `lossy`; `PersistRepairs`: a `Persist` that writes alone leaves a readable file with all of its memory; `PersistReturns`, for the advisory lock and, when git has moved the file and each thread holds the lock of another inode, for `Mux` |
| `pull` | two keys, git pulls only | **violated**: `PulledKept` |
| `broken` | a file that is torn at the start, requests that keep coming | **violated**: `UnreadableOverwritten` |
| `loader` | a request with two workers and one with one, two files, one of which parses only after an edit | `OneFile`, `OneParse`, `PrefetchLoads`, `RootCause`, `RequestsSettle` |
| `stale` | the same with a file that parses before and after the edit | **violated**: `RangesReflectDisk` |
| `lsp` | two callers, two calls, two starts, one message of the server's own, pipes of one write | `FramesWhole`, `OwnAnswer`, `ReaderNeverBlocks`, `PendingInFlight`, `OneServer`, `CallsReturn` |
| `query` | two searches over the same vertex and edge, one of them with a second graph, two attempts | `Explained`, `RetryAsksLess`, `RunsReturn` |
| `retry` | the same with three attempts, as in the code | **violated**: `RetryAsksFailed` |
| `status` | two tasks that come again and again, the greeter, a program that starts and may stop | `StackCountsTasks`, `TaskStaysShown`, `OneShimmer`, `BarAgrees`, `EveryoneReturns`, `HiddenRests` |
| `screen` | a terminal of three or six rows, two of them reserved, one goroutine that shows and hides, five sequences of the child cut anywhere | `RegionConfined`, `RegionAgrees`, `HiddenIsBlank` |
| `transform` | 36 files of eleven languages and a plain one, each complete and with any one of its names missing | `FileIndexes`; `DefinitionsLand` with no node in the places of `Nodeless`; `ReferencesLand`; `FunctionsVisible` but for a function that is all of its file; `CallsKept` outside of `Unwalked` |

Why these bounds are enough to be of use:

* Two writers in different processes and a second goroutine in one of them are all
  the relations there are between two threads of the store; one workspace can be
  shared, two can be made for one path, and the file can be merged between them.
  Two keys tell "this key" from "another key", which is what the numbering and
  the partial merges are about. A second inode is what the lock can be lost to;
  a third would be the same again. `faults` has two threads of one process, since
  only they contend for `Mux`, and only with two inodes in use; the advisory lock
  does not distinguish them from threads of two processes. A third thread makes
  too many states with faults; that faults of several processes lose nothing is
  proved, for any number of them.
* In the loader, two waiters on one leader, siblings in one request, a request
  that goes away while another waits for its parse, and a second parse after a
  failed one all fit in three workers and one edit.
* In the language server, one call can be given up and its answer arrive during
  the next; both callers and the reader contend for the write lock; pipes that
  hold one write block every writer. The second start is that of a server that
  failed or died before.
* In the provider, the second run stands for whatever the cache gains meanwhile,
  as do `Merge` and the initial cache; the second graph is what `vseen` needs.
  Two attempts have a retry and a last one.

* On the status line, two tasks can end in the order they started or in the other,
  and one can start while the other is about to hide; the greeter is a third who
  hides. The safety properties are proved for any number.
* On the terminal, six rows leave the child a region, three do not; two sizes are
  enough for one that is gone. The sequences are a reset of the region, one that
  reaches too far, one upside down behind text, one longer than `MaxHeld`, which
  is flushed unread, and one that is no region from its third byte on. `MaxHeld` is
  6 where the code has 16: longer than any region of one-digit rows, as 16 is for
  the rows of a terminal.
* The files of `transform` are written so that every case of every transformer
  meets the constructs around it: chained calls, calls in defaults, decorators and
  arguments, generics, functions in functions, types that are not names. One
  missing token tells what a node without a width does to the nodes around it; two
  at a time are not tried. A kind of node that shares its case with others occurs
  for some of them only. Nothing here speaks of all files of a language.

The files of `SyntaxCases` are test inputs. What `transform` adds to a test is that
each name of them is lost once, and that the properties are about the whole index
and not about a value somebody expected.

`CHECK_DEADLOCK FALSE` is set where the system stops by itself: all workers have
finished, the calls are used up, all runs are done, the status program has ended.
The store and the terminal never stop and are checked for deadlock, and so is
`transform`, where what has ended repeats itself.

Symmetry is used only in runs without liveness: threads of one process and keys
in `store`.

Bounds, by name: `MaxInode` (inodes the path receives), `MaxFile` (records in a
file after git changed it), `MaxVersion` (edits of a file), `PipeRoom`
(writes a pipe holds: not a bound of the model but of the system, taken small),
`MaxCalls`, `MaxAsks`, `MaxStarts` (calls of the callers, messages of the server,
starts), `MaxMissing` (tokens error recovery inserted), `Rows` (the heights of the
terminal, of one digit). Constants of the code are `MaxAttempts`
(`maxProviderQueryAttempts`) and `MaxHeld` (`maxRegionSeqLen`).

## Fairness

* `WorkspaceStore!Fairness`: goroutines run, and a thread waiting for the advisory
  lock or `Mux` gets it if it is free again and again (strong fairness). Go's
  mutex hands itself to a waiter that has starved for a millisecond, and the
  kernel queues the waiters of `flock`. Calls are not fair: no thread has to call
  anything. `Requests`, in the run `broken` only, assumes that they keep coming.
* `FileLoader!FairSpec`: workers and collectors run. A parse ends. Nobody has to
  edit, begin or abandon.
* `LspClient!FairSpec`: callers and the reader run and get mutexes that become
  free again and again. Of the server it assumes that it reads its input whatever
  it is writing, answers `initialize` and `shutdown` (both are sent on a
  background context with no timeout, so captn does depend on it), and exits when
  its input has ended. It need not answer anything else. Without the first
  assumption a server that stops reading while its output is full blocks a
  writer, and behind the write lock the read loop.
* `ProviderQuery!FairSpec`: a run goes on, and the command that runs the model
  ends, with whatever outcome.
* `StatusOverlay!FairSpec`: goroutines and the program's loop run; the loop takes
  every sender, since a Go channel serves those that wait in order. No task has
  to start, report or end, and the wrapped program need not exit.

## What is proved

TLAPS proves the following for any number of processes, threads, keys, files,
requests, workers, callers and searches, from the named assumptions on constants
(`StoreAssumption`, `LoaderAssumption`, `ClientAssumption`, `QueryAssumption`,
`OverlayAssumption`, and those of `OverlayScreen`: functions have their types,
"nobody" is no thread, flattening twice is flattening once, a terminal has one to
nine rows, the child ends the escape sequences it begins). None of the properties
is inductive alone. Each module states the invariant that is, as a conjunction of
named parts; TLC has checked it on the instance of the run before it was proved.
One lemma per part has one step per action, and the last steps are temporal logic.

**WorkspaceStoreProofs**: `TypeCorrect`, `NoTornReads` (`ReadsWholeFile`),
`NothingLost` (`ReachedKept`) and `NumberingSound` (`OrderSound`) of `Spec`. The
invariant is `IInv == TypeOK /\ LockInv /\ MuxInv /\ DataInv`:

* `LockInv`: without git there is one inode, and a thread past its acquisition
  holds the lock of it. Hence `ReadsWholeFile`, for two threads cannot both hold it.
* `MuxInv`: a thread that persists holds the mutex of the workspace it persists,
  and nobody refers to a workspace that is still being opened. Without it a
  workspace could change, or be replaced by an empty one, under a merge.
* `DataInv`: while a thread merges, what the file held is split between its
  workspace and what it has still to read. At the end of the merge it is all in
  the workspace, which is what the truncation needs. The numbering of each
  workspace is the other part.

The lemmas are about `SetObservationLocked`, `MergeRecord` and `marshalLocked`: they
keep a workspace numbered, and the records written have exactly the keys held.

**WorkspaceRefinementProofs**: `Implements`, that `Spec` implements `LogSpec`, for
any initial file, also one that is torn or has a key twice; and `NoKeyLeaves`, what
the abstract log promises, of the store. The invariant adds `MergeInv` to `IInv`: of
every key a workspace lacks, what it has still to read shows the same first record
as the file. So when nothing is left to read the workspace shows, of each key, its
own observation or the file's first, which is the abstract step at the truncation.
The first record of a key exists because a set of naturals has a least element,
which is cited from the library's theorem on well-founded relations; the log of a
workspace is read back through `marshalLocked` record by record, by its numbering.

**WorkspaceFaultsProofs**: of `FaultySpec`, with any number of crashes, failing
reads, opens and writes, and changes by git, `FaultyInvariance`, `LossesAreRecorded` (`ReachedKept`)
and `PersistRepairsFile` (`PersistRepairs`). `LockInv` is false here: threads may
have different inodes open, and two of them hold the locks of two inodes and write
the same path. What is left of it, in `StepInv`, is

* `GuardInv`: each lock has one holder, and *unless records may have been lost*
  each thread in `Persist` has open the inode at the path, so that one thread at
  most merges or writes;
* `RoomInv`: a path without a file can still receive one (the bound `MaxInode` is
  never what stops a thread).

The steps of `WorkspaceStore` keep `StepInv`, and are proved once, for both
specifications. A crash keeps it because a thread that lives works with a workspace
of its own process, and so of one that lives.

**FileLoaderProofs**: `TypeCorrect`, `OneFilePerPath` (`OneFile`),
`OneParseAtATime` (`OneParse`), `PrefetchHits` (`PrefetchLoads`) and `RealCause`
(`RootCause`) of `Spec`. The invariant is `IInv == TypeOK /\ PhaseInv /\ CallInv
/\ BatchInv`:

* `PhaseInv`: a call has an outcome exactly when its parse has ended, and `done`
  is closed only after that; a waiter that is woken never finds neither a file
  nor an error.
* `CallInv`: `loadingFiles` names the worker that leads and `loadedFiles` the one
  whose parse ended well; a worker that reads or parses finds no file kept. This
  is why the order "store, close, remove" matters.
* `BatchInv`: a cancelled request has a reason. A worker that reports a context
  error therefore either comes after the error that caused it, in a channel that
  keeps only the first, or its caller is gone, or the request was over, in which
  case all its workers had succeeded.

**LspClientProofs**: `TypeCorrect`, `FramesStayWhole` (`FramesWhole`),
`AnswersFindTheirCallers` (`OwnAnswer`), `ReaderIsFree` (`ReaderNeverBlocks`),
`PendingStaysSmall` (`PendingInFlight`) and `ServersDoNotPileUp` (`OneServer`) of
`Spec`, for any room in the pipes. The invariant has five parts beside the types:

* `StartInv`: whoever starts a server holds the mutex of the cache from then until
  the server is cached or reaped, and no server lives beside.
* `CountInv`: a server gets one request to start it and at most one for each call,
  so ids stay within their bound; the callers that may still ask are counted.
* `WriteInv`: who writes holds `writeMu`, and the body it is about to write is that
  of the last header in the pipe, or of the one the server has read.
* `OwnerInv`: an id, wherever it is (in a message, in `pending`, in a channel, in
  the reader's hand), comes with the caller it was given to; ids are not given
  twice.
* `TokenInv`: a request is pending, or in the hands of the reader, or answered in
  its channel, but not in two of these. This is why one place in the channel is
  enough.

**ProviderQueryProofs**: `TypeCorrect`, `EverythingExplained` (`Explained`) and
`VerticesAskedOnce` (`RetryAsksLess`) of `Spec`, for any graphs, any `Listings` of
them and any cache to start with. `PlaceInv` says where a run may be, `CoverInv` that
every item of the graphs it has come past is shown or was left out by the model,
and that every item of the graph it is at is answered or asked for; `CacheInv` that
an answered vertex is in the cache under its only key. For an edge, which has two
keys, the last is false, and so is the property (run `retry`).

**StatusOverlayProofs**: `TypeCorrect`, `TasksCounted` (`StackCountsTasks`),
`TasksShown` (`TaskStaysShown`), `ShimmerRunsOnce` (`OneShimmer`) and `BarFollows`
(`BarAgrees`) of `Spec`, for any set of tasks, finite or not. The invariant is
`IInv == TypeOK /\ CountInv /\ ShownInv /\ OneShimmer /\ BarInv`:

* `CountInv`: the tasks between push and pop are finitely many, and the stack
  counts them. A `popTask` that finds the stack empty is therefore the last.
* `ShownInv`: whenever anybody is about to hide the overlay, all tasks that run
  are exposed. This needs `CountInv`: a task that runs keeps others from hiding.
* `BarInv`: unless changes have crossed, every message about visibility on its way
  carries the current value, and there is one if the bar lacks it.

**OverlayScreenProofs**: `ChildIsConfined` (`RegionConfined`), `RoomIsConfined`,
`HiddenStaysBlank` (`HiddenIsBlank`) and `LayoutAgrees` (`RegionAgrees`) of `Spec`,
for any number of goroutines that show and hide, any length the clamp may hold back
and any set of sequences of the child that `ChildAssumption` allows, cut anywhere.

The clamp is the hard part: it reads what the child writes with one automaton, the
terminal reads what the clamp writes with another, and neither starts where the
other does, for a read may end within a sequence and captn may draw in between. The
argument is about what is still to come, not about what has been read:

* A sequence is *harmless* at a place of the child's output if the bytes from there
  on end it without setting a region. `OutputInv`: of what the clamp holds back and
  the pty still has, every sequence ends, and is short if it sets a region; and the
  one the terminal has read the start of is harmless there. The last holds because
  the clamp passes on no start of a sequence before it has seen the end, unless that
  is longer than any region.
* A turn of the loop (`RoundTurn`) either passes bytes on, and whatever the terminal
  makes of them leaves its region alone (`FedHarmless`), or it rewrites a region that
  is whole, and the terminal reads exactly that (`FedRegion`, `RegionTurn`): two rows,
  in order, the last not past `childBottom`.
* `ClampConfines` is the induction over the turns, `CopyConfines` the step of
  `CopyChild`. `ClampScrollRegions` and `Fed` are recursive functions; that they exist
  is proved first (`ClampSteps`, `FedSteps`), by induction on the number of steps in
  the form of a set of naturals that holds zero and with each its successor
  (`NatInduct`, from the library's theorem that `<` on the naturals is well-founded).

While the child has fewer than two rows the clamp drops regions instead of rewriting
them. A child that begins a sequence within another, `ESC [ 2 ESC [ r r`, then gets
the second dropped and the first completed: it has set a region. So `RegionConfined`
is a theorem for children that are `Uninterrupted`, and for all others
`RoomIsConfined` says it of steps with `childBottom > 1`, where the rewritten region
itself ends the first.

`HiddenInv`: after a hide that nobody's drawing has crossed, all who have still
something to do erase, or lay out without a divider. `LayoutInv`: while no signal is
on its way, the height the resize goroutine has read is that of the terminal, and
what it has already set is for that height; a resize in between sends a signal, and
the layout is done again. That the child cannot undo the layout is `RoomIsConfined`.

Only model-checked:

* Liveness (`PersistReturns`, `RequestsSettle`, `CallsReturn`, `RunsReturn`,
  `EveryoneReturns`, `HiddenRests`), which TLAPS cannot prove under fairness.
* The properties of `TransformWalk`: the transformers recurse over trees, with
  `RECURSIVE` operators, and what they are checked for is a matter of each
  construct of each language, which a proof for all trees would have to take from
  the grammars.

## Disagreements between code and comments

* `pull`: records a git pull brings while `Persist` is between its read and its
  write are overwritten, against `workspace.go` 559-560. The advisory lock does
  not bind git, and the window is a merge and a marshal long.
* `broken`: `OpenWorkspace` fails on a file it cannot decode, so a process started
  after a broken merge never reaches the `Persist` that, by the comment at
  561-562, would overwrite it.
* `stale`: a file is parsed once per process. A request that begins after an edit
  gets ranges of the text before it, against `search_and_query_tool.go` 252-254.
* `retry`: the key under which the answer about an edge is cached depends on the
  direction in which an undirected graph lists the edge, and that may change
  between two calls of `Edges`: a retry, or the next search, asks again for an
  edge that has been answered, against `observation_provider.go` 21-22. For
  vertices the comment is right (`RetryAsksLess`).

Smaller ones have no run of their own. They are in the models as the code has them,
and where a property meets one, it says so:

* Names without a node, so that a definition that lands on one fails the whole
  snippet (`Nodeless`): in Go what `:=` declares (`golang_parser.go` 397 waits for a
  kind of node that the grammar does not have, though the comment at 400 means to
  make one), constants, the variables of a `range` and the parameters of a function
  type; in Python what a `case` captures; what a `catch` of TypeScript or C++ binds;
  in C and C++ the parameters of a macro, a template that is a template parameter,
  and the parameters of the template of a variable; in Rust the named fields of a
  variant and the pattern parameters of a closure; in Java variable arguments, the
  constants of an interface and the name a test of a type binds; in PHP the variable
  of a `foreach` and the cases of an enum; in Ruby the parameters of a block. There
  are more that no file of `SyntaxCases` has, such as the default binding of a
  TypeScript import from an empty string.
* Names that are dropped with what they are declared in (`Orphaned`): in Swift the
  parameters of a requirement whose name is an operator, which has no node itself
  against `swift_parser.go` 573-574, and of one whose name is missing.
* Calls without a node, against `ast/AST.md` 7 (`Unwalked`): in the types of Go
  declarations, in aliases of Python and C++, in the discriminants of a Rust enum,
  and beside the names of `attr_accessor` in Ruby.
* A file that is exactly one function has that function's range, and the module
  is found in its place (`FindTightestEnclosingNodes`, `FunctionsVisible`).
* `Persist` skips the merge on any failure of `os.ReadFile`, not only when there is
  no file, and then overwrites what it could not read (`ReadFails`), against
  `workspace.go` 559-560.
* `workspace.go` 827 looks linkage up under a node of interest, where 790 has put it
  under the node a definition resolved to: only when they are the same is an edge
  drawn from where the call is, and otherwise from the root.
* A region with more than `maxRegionSeqLen` bytes, cut by a read before its `r`, is
  flushed and reaches the terminal as it is, against `region.go` 9-10 ("cannot be a
  DECSTBM"): numbers may have leading zeros, and parameters may follow the second.
  On a terminal too small for a region the sequence `ESC [ 2 ESC [ r r` passes as
  `ESC [ 2 r`. `ChildAssumption` and `Uninterrupted` keep these out of the theorems.
* `FindSnippetRange` explains the first occurrence of a line that is repeated.
* `Run` reads the size of the terminal without the mutex and may put back a region
  that is gone (`stale`); a resize between the reset of the region at the end of a
  run and its return confines the terminal once more; a divider may be drawn after
  a hide that crosses it (`crossed`); and what captn writes may fall in the middle
  of an escape sequence of the child that is no region.

## What is not modelled

* The grammars. They are external; their trees are inputs, written down from what
  the transformers and their tests say of them.
* Languages beyond their transformers: how a server is found, started and
  initialized, which of its imports are local (`ClassifyImportType`), the definition
  ranges of clangd (`c_clangd.go` 58-75) and of the Ruby server.
* Dependency exploration. `queryWithDepth` and `QueryWithDepth` have no caller. Its
  `visited` map is read and written by several goroutines without a lock, and an
  import that comes twice, or from both sides, would make `AddEdge` fail.
* The graph `SearchSnippet` builds, and the goroutines of the search tool. They are
  in the plan. The tool's `done` channel has one send and, on the ordinary path, two
  receives: each call leaves a goroutine behind that only reports progress.
* The error stack, the YAML and JSON forms of nodes, the DOT output, the log file.
* `Overlay.SetHeight`, which nothing calls, the text of a status and its shimmer.
* Of the child's output, all sequences but regions: it may erase the screen.
* Wiring: `cmd`, `pkg/server`, `pkg/initialize` read flags, register tools, start
  the agent and copy bytes. Of a request's handler, only the task it pushes and
  pops is in a model.
* The greeting hides the overlay after six seconds whatever runs then
  (`init_with_tui.go` 53). `StatusOverlay` has the step, and `TaskStaysShown`
  excepts the tasks it meets, because nothing in the code says otherwise.
* Time. A timeout is a cancellation that may come at any moment.
* Text: answers, prompts, messages of the protocol, log lines.
* Data races as such. Where state is read outside its lock the models have a step of
  its own for it; the one map that is written without a lock is in code that nothing
  calls.
