----------------------------- MODULE ProviderQuery -----------------------------
(***************************************************************************)
(* Asking the model for observations: ClaudeCodeProvider.Query             *)
(* (pkg/providers/claude_code.go) under the retries of                     *)
(* QueryProviderWrapper (pkg/cog/observation_provider.go), run over the    *)
(* graphs of a search by MultiGraphQueryWithDepth                          *)
(* (pkg/cog/observation_graph.go).                                         *)
(*                                                                         *)
(* Runs share the ObservationCache of one workspace.  An item is an edge   *)
(* of a graph or a vertex that BFS reaches from its root; the prompt is    *)
(* the same for all.  What an answer says is left out: only whether there  *)
(* is one matters here.  The key of an edge in the cache names its ends in *)
(* order, and the graphs are undirected: Edges, of the graph library, may  *)
(* return an edge in either direction each time it is called.              *)
(***************************************************************************)
EXTENDS Naturals, Sequences, FiniteSets

CONSTANTS
    Run,
    Item,
    Edge,       \* the items that are edges
    GraphsOf,   \* the items of each graph a run queries, in order
    MaxAttempts \* maxProviderQueryAttempts

ASSUME QueryAssumption ==
    /\ Edge \subseteq Item
    /\ GraphsOf \in [Run -> Seq(SUBSET Item)]
    /\ MaxAttempts \in Nat \ {0}

\* A key of the cache: a vertex, or an edge from or to the end that comes first.
Key == (Item \X {"from"}) \cup (Edge \X {"to"})

\* The keys of the items of a graph, for one way the edges may be returned.
Listings(graph) ==
    {L \in SUBSET Key : \A i \in Item :
        Cardinality({k \in L : k[1] = i}) = IF i \in graph THEN 1 ELSE 0}

ItemsOf(keys) == {k[1] : k \in keys}

VARIABLES
    cache,    \* ObservationCache: the keys that have an observation
    pc,       \* where a run is
    at,       \* the graph it is at
    attempt,  \* the attempt it makes at this graph
    asked,    \* verteximap and edgeimap: the keys it asks for
    answered, \* the items of this graph that have an "observation-answer"
    shown,    \* vseen and eseen: the items the explanation has an answer for
    result,   \* what the search returned
    gone,     \* whether the context of a run is cancelled
    omitted   \* history: items the model was asked for in their first graph, in vain

vars == <<cache, pc, at, attempt, asked, answered, shown, result, gone, omitted>>

Init ==
    /\ cache \in SUBSET Key
    /\ pc = [r \in Run |-> "begin"]
    /\ at = [r \in Run |-> 1]
    /\ attempt = [r \in Run |-> 1]
    /\ asked = [r \in Run |-> {}]
    /\ answered = [r \in Run |-> {}]
    /\ shown = [r \in Run |-> {}]
    /\ result = [r \in Run |-> "none"]
    /\ gone = [r \in Run |-> FALSE]
    /\ omitted = [r \in Run |-> {}]

Graph(r)   == GraphsOf[r][at[r]]
Earlier(r) == UNION {GraphsOf[r][n] : n \in 1 .. at[r] - 1}

Goto(r, label) == pc' = [pc EXCEPT ![r] = label]

Finish(r, how) ==
    /\ Goto(r, "done")
    /\ result' = [result EXCEPT ![r] = how]

-----------------------------------------------------------------------------
\* MultiGraphQueryWithDepth goes to the next graph, or is done.
NextGraph(r) ==
    /\ pc[r] = "begin"
    /\ IF at[r] > Len(GraphsOf[r])
       THEN Finish(r, "ok")
       ELSE Goto(r, "check") /\ UNCHANGED result
    /\ UNCHANGED <<cache, at, attempt, asked, answered, shown, gone, omitted>>

\* The wrapper looks at the context before every attempt, and so does the
\* provider while it walks the graph.
Abandoned(r) ==
    /\ pc[r] = "check" /\ gone[r]
    /\ Finish(r, "failed")
    /\ UNCHANGED <<cache, at, attempt, asked, answered, shown, gone, omitted>>

\* Mutant: what is in the cache is not written onto the graph.
LookupSkipping(r) ==
    /\ pc[r] = "check"
    /\ \E L \in Listings(Graph(r)) :
        /\ asked' = [asked EXCEPT ![r] = L \ cache]
        /\ Goto(r, IF L \subseteq cache THEN "collect" ELSE "ask")
    /\ UNCHANGED <<cache, at, attempt, answered, shown, result, gone, omitted>>

\* The graph is walked; then, under Mux, what is in the cache goes onto it, and
\* the rest is to be asked for.  The context may be cancelled after it was looked at.
Lookup(r) ==
    /\ pc[r] = "check"
    /\ \E L \in Listings(Graph(r)) :
        /\ asked' = [asked EXCEPT ![r] = L \ cache]
        /\ answered' = [answered EXCEPT ![r] = @ \cup ItemsOf(L \cap cache)]
        /\ Goto(r, IF L \subseteq cache THEN "collect" ELSE "ask")
    /\ UNCHANGED <<cache, at, attempt, shown, result, gone, omitted>>

\* Mutant: the last attempt does not end the query.
RetryAlways(r) ==
    /\ attempt' = [attempt EXCEPT ![r] = IF @ = MaxAttempts THEN @ ELSE @ + 1]
    /\ Goto(r, "check")
    /\ UNCHANGED result

\* Mutant: one attempt too many.
RetryOnceMore(r) ==
    IF attempt[r] > MaxAttempts
    THEN Finish(r, "failed") /\ UNCHANGED attempt
    ELSE /\ attempt' = [attempt EXCEPT ![r] = @ + 1]
         /\ Goto(r, "check")
         /\ UNCHANGED result

\* A recoverable error.
Retry(r) ==
    IF attempt[r] = MaxAttempts
    THEN Finish(r, "failed") /\ UNCHANGED attempt
    ELSE /\ attempt' = [attempt EXCEPT ![r] = @ + 1]
         /\ Goto(r, "check")
         /\ UNCHANGED result

\* The command fails, or is killed because the context is cancelled: not recoverable.
AskFails(r) ==
    /\ pc[r] = "ask"
    /\ Finish(r, "failed")
    /\ UNCHANGED <<cache, at, attempt, asked, answered, shown, gone, omitted>>

\* The output of the model is not JSON of the schema.
AnswerMalformed(r) ==
    /\ pc[r] = "ask"
    /\ Retry(r)
    /\ UNCHANGED <<cache, at, asked, answered, shown, gone, omitted>>

\* An answer with some of the items, and maybe with one nobody asked for, which is
\* a recoverable error.
TakeAnswer(r, got, unknown) ==
    /\ answered' = [answered EXCEPT ![r] = @ \cup ItemsOf(got)]
    /\ omitted' = [omitted EXCEPT ![r] =
                    (@ \cup (ItemsOf(asked[r]) \ Earlier(r))) \ (ItemsOf(got) \ Earlier(r))]
    /\ IF unknown
       THEN Retry(r)
       ELSE Goto(r, "collect") /\ UNCHANGED <<attempt, result>>

\* Mutant: answers reach the graph and not the cache.
AnsweredUncached(r) ==
    /\ pc[r] = "ask"
    /\ \E got \in SUBSET asked[r], unknown \in BOOLEAN : TakeAnswer(r, got, unknown)
    /\ UNCHANGED <<cache, at, asked, shown, gone>>

\* Under Mux, what the model has answered goes into the cache and onto the graph,
\* whether or not the answer is in error.
Answered(r) ==
    /\ pc[r] = "ask"
    /\ \E got \in SUBSET asked[r], unknown \in BOOLEAN :
        /\ cache' = cache \cup got
        /\ TakeAnswer(r, got, unknown)
    /\ UNCHANGED <<at, asked, shown, gone>>

\* The explanation takes the items it has not seen in an earlier graph; an item
\* seen there without an answer stays without.
Collect(r) ==
    /\ pc[r] = "collect"
    /\ shown' = [shown EXCEPT ![r] = @ \cup (answered[r] \ Earlier(r))]
    /\ at' = [at EXCEPT ![r] = @ + 1]
    /\ attempt' = [attempt EXCEPT ![r] = 1]
    /\ asked' = [asked EXCEPT ![r] = {}]
    /\ answered' = [answered EXCEPT ![r] = {}]
    /\ Goto(r, "begin")
    /\ UNCHANGED <<cache, result, gone, omitted>>

Cancel(r) ==
    /\ pc[r] # "done" /\ ~gone[r]
    /\ gone' = [gone EXCEPT ![r] = TRUE]
    /\ UNCHANGED <<cache, pc, at, attempt, asked, answered, shown, result, omitted>>

\* The Persist of another run merges what has reached captn.cog.
Merge(k) ==
    /\ cache' = cache \cup {k}
    /\ UNCHANGED <<pc, at, attempt, asked, answered, shown, result, gone, omitted>>

Step(r) ==
    \/ NextGraph(r) \/ Abandoned(r) \/ Lookup(r) \/ AskFails(r)
    \/ AnswerMalformed(r) \/ Answered(r) \/ Collect(r)

Next ==
    \/ \E r \in Run : Step(r) \/ Cancel(r)
    \/ \E k \in Key : Merge(k)

Spec == Init /\ [][Next]_vars

\* A run goes on, and the command that runs the model ends.
FairSpec == Spec /\ \A r \in Run : WF_vars(Step(r))

-----------------------------------------------------------------------------
\* Every variable has its type; a graph gets at most MaxAttempts attempts.
TypeOK ==
    /\ cache \subseteq Key
    /\ pc \in [Run -> {"begin", "check", "ask", "collect", "done"}]
    /\ at \in [Run -> Nat \ {0}]
    /\ attempt \in [Run -> 1 .. MaxAttempts]
    /\ asked \in [Run -> SUBSET Key]
    /\ answered \in [Run -> SUBSET Item]
    /\ shown \in [Run -> SUBSET Item]
    /\ result \in [Run -> {"none", "ok", "failed"}]
    /\ gone \in [Run -> BOOLEAN]
    /\ omitted \in [Run -> SUBSET Item]

Items(r) == UNION {GraphsOf[r][n] : n \in DOMAIN GraphsOf[r]}

\* A search that succeeds explains every item, unless the model was asked for it
\* in the first graph that has it and left it out: a cache hit, an answer of a
\* failed attempt, and what another run or captn.cog has brought meanwhile all
\* reach the graph ("A cache hit still has to be written onto this run's graph",
\* Query).
Explained ==
    \A r \in Run : result[r] = "ok" => Items(r) \subseteq shown[r] \cup omitted[r]

AsksAgain(r, i) ==
    pc[r] = "check" /\ pc'[r] = "ask" /\ i \in ItemsOf(asked'[r]) /\ i \in answered[r]

\* "Successful observations are cached by the provider, so a retry only re-queries
\* what failed", QueryProviderWrapper: this holds of vertices ...
RetryAsksLess == [][\A r \in Run, i \in Item \ Edge : ~ AsksAgain(r, i)]_vars

\* ... and is violated for edges, whose key may be another one at the next attempt.
RetryAsksFailed == [][\A r \in Run, i \in Item : ~ AsksAgain(r, i)]_vars

\* Every search returns: malformed answers and unknown ids do not keep it asking.
RunsReturn == \A r \in Run : <>(pc[r] = "done")
=============================================================================
