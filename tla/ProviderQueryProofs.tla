--------------------------- MODULE ProviderQueryProofs ---------------------------
(***************************************************************************)
(* The safety properties of ProviderQuery, for any number of runs, any     *)
(* graphs, any bound on the attempts and any cache to start with.          *)
(***************************************************************************)
EXTENDS ProviderQuery, FiniteSetTheorems, TLAPS

\* A run that is at a graph has that graph, and ends well after the last one.
PlaceInv ==
    \A r \in Run :
        /\ pc[r] \in {"check", "ask", "collect"} => at[r] \in DOMAIN GraphsOf[r]
        /\ result[r] = "ok" => at[r] > Len(GraphsOf[r])

\* Every item of the graphs a run is past is accounted for; so is every item of
\* the graph it is at, as far as the run has come with it.
CoverInv ==
    \A r \in Run :
        /\ Earlier(r) \subseteq shown[r] \cup omitted[r]
        /\ pc[r] = "ask" => Graph(r) \subseteq answered[r] \cup ItemsOf(asked[r])
        /\ pc[r] = "collect" => Graph(r) \subseteq answered[r] \cup omitted[r] \cup Earlier(r)

\* A vertex that has its answer on the graph has it in the cache as well.
CacheInv ==
    \A r \in Run : \A i \in answered[r] \ Edge : <<i, "from">> \in cache

IInv == TypeOK /\ PlaceInv /\ CoverInv /\ CacheInv

-----------------------------------------------------------------------------
(* Lemmas about keys and listings.                                         *)

\* Only an edge has a second key.
LEMMA VertexKey ==
    ASSUME NEW k \in Key
    PROVE  /\ k[1] \in Item
           /\ k[1] \notin Edge => k = <<k[1], "from">>
BY QueryAssumption DEF Key

LEMMA ItemsOfKeys ==
    ASSUME NEW K \in SUBSET Key
    PROVE  ItemsOf(K) \subseteq Item
BY VertexKey DEF ItemsOf

\* A listing of a graph has keys of all its items, and of no other.
LEMMA ListingSound ==
    ASSUME NEW g \in SUBSET Item, NEW L \in Listings(g)
    PROVE  L \in SUBSET Key /\ ItemsOf(L) = g
<1> DEFINE KeysOf(i) == {k \in L : k[1] = i}
<1>1. L \in SUBSET Key
      /\ \A i \in Item : Cardinality(KeysOf(i)) = IF i \in g THEN 1 ELSE 0
  BY DEF Listings
<1>2. ASSUME NEW i \in Item PROVE IsFiniteSet(KeysOf(i))
  <2>1. KeysOf(i) \subseteq {<<i, "from">>} \cup {<<i, "to">>}
    BY <1>1 DEF Key
  <2>2. IsFiniteSet({<<i, "from">>} \cup {<<i, "to">>})
    BY FS_Singleton, FS_Union
  <2> QED
    BY <2>1, <2>2, FS_Subset
<1>3. ASSUME NEW i \in Item PROVE i \in g <=> KeysOf(i) # {}
  <2> HIDE DEF KeysOf
  <2> QED
    BY <1>1, <1>2, FS_EmptySet
<1>4. ItemsOf(L) \subseteq Item
  BY <1>1, ItemsOfKeys
<1>5. ASSUME NEW i \in Item PROVE KeysOf(i) # {} <=> i \in ItemsOf(L)
  BY DEF ItemsOf
<1> QED
  BY <1>1, <1>3, <1>4, <1>5

\* The graph of a run that is at one.
LEMMA GraphSound ==
    ASSUME TypeOK, PlaceInv, NEW r \in Run, pc[r] \in {"check", "ask", "collect"}
    PROVE  Graph(r) \in SUBSET Item
BY QueryAssumption DEF PlaceInv, Graph

-----------------------------------------------------------------------------
(* The invariant holds initially and every step keeps it.                  *)

LEMMA InitIInv == Init => IInv
<1> SUFFICES ASSUME Init PROVE IInv
  OBVIOUS
<1>1. TypeOK
  BY QueryAssumption DEF Init, TypeOK
<1>2. PlaceInv
  BY DEF Init, PlaceInv
<1>3. \A r \in Run : Earlier(r) = {}
  BY DEF Init, Earlier
<1>4. CoverInv
  BY <1>3 DEF Init, CoverInv
<1>5. CacheInv
  BY DEF Init, CacheInv
<1> QED
  BY <1>1, <1>2, <1>4, <1>5 DEF IInv

\* How the end of an attempt that is to be made again leaves the run.
LEMMA RetrySound ==
    ASSUME TypeOK, NEW r \in Run, Retry(r)
    PROVE  /\ pc' \in [Run -> {"begin", "check", "ask", "collect", "done"}]
           /\ attempt' \in [Run -> 1 .. MaxAttempts]
           /\ result' \in [Run -> {"none", "ok", "failed"}]
           /\ pc'[r] \in {"check", "done"}
           /\ result'[r] = "ok" => result[r] = "ok"
           /\ \A s \in Run \ {r} : pc'[s] = pc[s] /\ result'[s] = result[s]
<1>1. CASE attempt[r] = MaxAttempts
  BY <1>1 DEF Retry, Finish, Goto, TypeOK
<1>2. CASE attempt[r] # MaxAttempts
  <2>1. attempt[r] + 1 \in 1 .. MaxAttempts
    BY <1>2, QueryAssumption DEF TypeOK
  <2> QED
    BY <1>2, <2>1 DEF Retry, Goto, TypeOK
<1> QED
  BY <1>1, <1>2

\* What a step of one run leaves alone in the others.
LEMMA OtherRuns ==
    ASSUME TypeOK, NEW r \in Run, Step(r) \/ Cancel(r), NEW s \in Run, s # r
    PROVE  /\ pc'[s] = pc[s] /\ at'[s] = at[s] /\ result'[s] = result[s]
           /\ asked'[s] = asked[s] /\ answered'[s] = answered[s]
           /\ shown'[s] = shown[s] /\ omitted'[s] = omitted[s]
<1>1. CASE AnswerMalformed(r)
  BY <1>1, RetrySound DEF AnswerMalformed, TypeOK
<1>2. CASE Answered(r)
  BY <1>2, RetrySound DEF Answered, TakeAnswer, Goto, TypeOK
<1>3. CASE NextGraph(r) \/ Abandoned(r) \/ Lookup(r) \/ AskFails(r) \/ Collect(r) \/ Cancel(r)
  BY <1>3 DEF NextGraph, Abandoned, Lookup, AskFails, Collect, Cancel, Finish, Goto, TypeOK
<1> QED
  BY <1>1, <1>2, <1>3 DEF Step

\* The cache only grows.
LEMMA CacheGrows == [Next]_vars => cache \subseteq cache'
BY DEF Next, Step, Cancel, Merge, NextGraph, Abandoned, Lookup, AskFails,
       AnswerMalformed, Answered, Collect, vars

LEMMA TypeStep ==
    ASSUME IInv, NEW r \in Run, Step(r) \/ Cancel(r)
    PROVE  TypeOK'
<1>1. TypeOK /\ PlaceInv /\ MaxAttempts \in Nat \ {0}
  BY QueryAssumption DEF IInv
<1>2. \A K \in SUBSET Key : ItemsOf(K) \in SUBSET Item
  BY ItemsOfKeys
<1>3. CASE NextGraph(r)
  BY <1>1, <1>3 DEF NextGraph, Finish, Goto, TypeOK
<1>4. CASE Abandoned(r)
  BY <1>1, <1>4 DEF Abandoned, Finish, Goto, TypeOK
<1>5. CASE Lookup(r)
  <2>1. PICK L \in Listings(Graph(r)) :
            /\ asked' = [asked EXCEPT ![r] = L \ cache]
            /\ answered' = [answered EXCEPT ![r] = @ \cup ItemsOf(L \cap cache)]
            /\ Goto(r, IF L \subseteq cache THEN "collect" ELSE "ask")
    BY <1>5 DEF Lookup
  <2>2. L \in SUBSET Key
    BY <1>1, <1>5, <2>1, GraphSound, ListingSound DEF Lookup
  <2>3. L \ cache \in SUBSET Key /\ answered[r] \cup ItemsOf(L \cap cache) \in SUBSET Item
    BY <1>1, <1>2, <2>2 DEF TypeOK
  <2> QED
    BY <1>1, <1>5, <2>1, <2>3 DEF Lookup, Goto, TypeOK
<1>6. CASE AskFails(r)
  BY <1>1, <1>6 DEF AskFails, Finish, Goto, TypeOK
<1>7. CASE AnswerMalformed(r)
  BY <1>1, <1>7, RetrySound DEF AnswerMalformed, TypeOK
<1>8. CASE Answered(r)
  <2>1. PICK got \in SUBSET asked[r], unknown \in BOOLEAN :
            cache' = cache \cup got /\ TakeAnswer(r, got, unknown)
    BY <1>8 DEF Answered
  <2>2. asked[r] \in SUBSET Key /\ got \in SUBSET Key
    BY <1>1, <2>1 DEF TypeOK
  <2>3. /\ answered' \in [Run -> SUBSET Item]
        /\ omitted' \in [Run -> SUBSET Item]
    BY <1>1, <1>2, <2>1, <2>2 DEF TakeAnswer, TypeOK
  <2>4. /\ pc' \in [Run -> {"begin", "check", "ask", "collect", "done"}]
        /\ attempt' \in [Run -> 1 .. MaxAttempts]
        /\ result' \in [Run -> {"none", "ok", "failed"}]
    BY <1>1, <2>1, RetrySound DEF TakeAnswer, Goto, TypeOK
  <2> QED
    BY <1>1, <1>8, <2>1, <2>2, <2>3, <2>4 DEF Answered, TypeOK
<1>9. CASE Collect(r)
  <2>1. at[r] + 1 \in Nat \ {0} /\ 1 \in 1 .. MaxAttempts
    BY <1>1 DEF TypeOK
  <2> QED
    BY <1>1, <1>9, <2>1 DEF Collect, Goto, TypeOK
<1>10. CASE Cancel(r)
  BY <1>1, <1>10 DEF Cancel, TypeOK
<1> QED
  BY <1>3, <1>4, <1>5, <1>6, <1>7, <1>8, <1>9, <1>10 DEF Step

\* A run is at a graph it has, and is done only past the last one.
LEMMA PlaceStep ==
    ASSUME IInv, NEW r \in Run, Step(r) \/ Cancel(r)
    PROVE  PlaceInv'
<1>1. TypeOK /\ PlaceInv /\ GraphsOf \in [Run -> Seq(SUBSET Item)]
  BY QueryAssumption DEF IInv
<1>2. SUFFICES /\ pc'[r] \in {"check", "ask", "collect"} => at'[r] \in DOMAIN GraphsOf[r]
               /\ result'[r] = "ok" => at'[r] > Len(GraphsOf[r])
  BY <1>1, OtherRuns DEF PlaceInv
<1>3. DOMAIN GraphsOf[r] = 1 .. Len(GraphsOf[r]) /\ Len(GraphsOf[r]) \in Nat /\ at[r] \in Nat \ {0}
  BY <1>1 DEF TypeOK
<1>4. CASE NextGraph(r)
  BY <1>1, <1>3, <1>4 DEF NextGraph, Finish, Goto, TypeOK, PlaceInv
<1>5. CASE Abandoned(r) \/ AskFails(r) \/ Cancel(r)
  BY <1>1, <1>5 DEF Abandoned, AskFails, Cancel, Finish, Goto, TypeOK, PlaceInv
<1>6. CASE Lookup(r)
  BY <1>1, <1>6 DEF Lookup, Goto, TypeOK, PlaceInv
<1>7. CASE AnswerMalformed(r)
  BY <1>1, <1>7, RetrySound DEF AnswerMalformed, PlaceInv
<1>8. CASE Answered(r)
  BY <1>1, <1>8, RetrySound DEF Answered, TakeAnswer, Goto, TypeOK, PlaceInv
<1>9. CASE Collect(r)
  BY <1>1, <1>3, <1>9 DEF Collect, Goto, TypeOK, PlaceInv
<1> QED
  BY <1>4, <1>5, <1>6, <1>7, <1>8, <1>9 DEF Step

\* No item is lost between the graph, the explanation and the record of what the
\* model has left out.
LEMMA CoverStep ==
    ASSUME IInv, NEW r \in Run, Step(r) \/ Cancel(r)
    PROVE  CoverInv'
<1>1. TypeOK /\ PlaceInv /\ CoverInv /\ GraphsOf \in [Run -> Seq(SUBSET Item)]
  BY QueryAssumption DEF IInv
<1>2. \A s \in Run \ {r} : Earlier(s)' = Earlier(s) /\ Graph(s)' = Graph(s)
  BY OtherRuns, <1>1 DEF Earlier, Graph
<1>3. SUFFICES
        /\ Earlier(r)' \subseteq shown'[r] \cup omitted'[r]
        /\ pc'[r] = "ask" => Graph(r)' \subseteq answered'[r] \cup ItemsOf(asked'[r])
        /\ pc'[r] = "collect" => Graph(r)' \subseteq answered'[r] \cup omitted'[r] \cup Earlier(r)'
  BY <1>1, <1>2, OtherRuns DEF CoverInv, ItemsOf
<1>4. at' = at => Earlier(r)' = Earlier(r) /\ Graph(r)' = Graph(r)
  BY DEF Earlier, Graph
<1>5. Earlier(r) \subseteq shown[r] \cup omitted[r]
  BY <1>1 DEF CoverInv
<1>6. CASE NextGraph(r) \/ Abandoned(r) \/ AskFails(r) \/ Cancel(r)
  BY <1>1, <1>4, <1>6
     DEF NextGraph, Abandoned, AskFails, Cancel, Finish, Goto, TypeOK, CoverInv, ItemsOf
<1>7. CASE Lookup(r)
  <2>1. PICK L \in Listings(Graph(r)) :
            /\ asked' = [asked EXCEPT ![r] = L \ cache]
            /\ answered' = [answered EXCEPT ![r] = @ \cup ItemsOf(L \cap cache)]
            /\ Goto(r, IF L \subseteq cache THEN "collect" ELSE "ask")
    BY <1>7 DEF Lookup
  <2>2. ItemsOf(L) = Graph(r)
    BY <1>1, <1>7, <2>1, GraphSound, ListingSound DEF Lookup
  <2>3. ItemsOf(L) = ItemsOf(L \cap cache) \cup ItemsOf(L \ cache)
    BY DEF ItemsOf
  <2>4. L \subseteq cache => ItemsOf(L) = ItemsOf(L \cap cache)
    BY DEF ItemsOf
  <2>5. /\ asked'[r] = L \ cache
        /\ answered'[r] = answered[r] \cup ItemsOf(L \cap cache)
        /\ pc'[r] = IF L \subseteq cache THEN "collect" ELSE "ask"
        /\ shown' = shown /\ omitted' = omitted /\ at' = at
    BY <1>1, <1>7, <2>1 DEF Lookup, Goto, TypeOK
  <2> QED
    BY <1>4, <1>5, <2>2, <2>3, <2>4, <2>5
<1>8. CASE AnswerMalformed(r)
  <2>1. pc'[r] \notin {"ask", "collect"} /\ at' = at /\ shown' = shown /\ omitted' = omitted
    BY <1>1, <1>8, RetrySound DEF AnswerMalformed
  <2> QED
    BY <1>4, <1>5, <2>1
<1>9. CASE Answered(r)
  <2>1. PICK got \in SUBSET asked[r], unknown \in BOOLEAN : TakeAnswer(r, got, unknown)
    BY <1>9 DEF Answered
  <2>2. /\ answered'[r] = answered[r] \cup ItemsOf(got)
        /\ omitted'[r] = (omitted[r] \cup (ItemsOf(asked[r]) \ Earlier(r)))
                              \ (ItemsOf(got) \ Earlier(r))
        /\ shown' = shown /\ at' = at
    BY <1>1, <1>9, <2>1 DEF Answered, TakeAnswer, TypeOK
  <2>3. Graph(r) \subseteq answered[r] \cup ItemsOf(asked[r])
    BY <1>1, <1>9 DEF Answered, CoverInv
  <2>4. pc'[r] # "ask"
    BY <1>1, <2>1, RetrySound DEF TakeAnswer, Goto, TypeOK
  <2> QED
    BY <1>4, <1>5, <2>2, <2>3, <2>4
<1>10. CASE Collect(r)
  <2>1. /\ shown'[r] = shown[r] \cup (answered[r] \ Earlier(r))
        /\ at'[r] = at[r] + 1 /\ omitted' = omitted /\ pc'[r] = "begin"
        /\ at[r] \in Nat \ {0}
    BY <1>1, <1>10 DEF Collect, Goto, TypeOK
  <2>2. 1 .. at'[r] - 1 = (1 .. at[r] - 1) \cup {at[r]}
    BY <2>1
  <2>3. Earlier(r)' = Earlier(r) \cup Graph(r)
    BY <2>2 DEF Earlier, Graph
  <2>4. Graph(r) \subseteq answered[r] \cup omitted[r] \cup Earlier(r)
    BY <1>1, <1>10 DEF Collect, CoverInv
  <2> QED
    BY <1>5, <2>1, <2>3, <2>4
<1> QED
  BY <1>6, <1>7, <1>8, <1>9, <1>10 DEF Step

\* A vertex is on the graph only with what is in the cache, before and after it is
\* asked for.
LEMMA CacheStep ==
    ASSUME IInv, NEW r \in Run, Step(r) \/ Cancel(r)
    PROVE  CacheInv'
<1>1. TypeOK /\ PlaceInv /\ CacheInv
  BY DEF IInv
<1>2. cache \subseteq cache'
  BY CacheGrows DEF Next
<1>3. SUFFICES \A i \in answered'[r] \ Edge : i \in answered[r] \/ <<i, "from">> \in cache'
  BY <1>1, <1>2, OtherRuns DEF CacheInv
<1>4. \A K \in SUBSET Key : \A i \in ItemsOf(K) \ Edge : <<i, "from">> \in K
  BY VertexKey DEF ItemsOf
<1>5. CASE Lookup(r)
  <2>1. PICK L \in Listings(Graph(r)) :
            answered' = [answered EXCEPT ![r] = @ \cup ItemsOf(L \cap cache)]
    BY <1>5 DEF Lookup
  <2>2. L \in SUBSET Key
    BY <1>1, <1>5, <2>1, GraphSound, ListingSound DEF Lookup
  <2> QED
    BY <1>1, <1>2, <1>4, <2>1, <2>2 DEF TypeOK
<1>6. CASE Answered(r)
  <2>1. PICK got \in SUBSET asked[r], unknown \in BOOLEAN :
            cache' = cache \cup got /\ TakeAnswer(r, got, unknown)
    BY <1>6 DEF Answered
  <2>2. got \in SUBSET Key
    BY <1>1, <2>1 DEF TypeOK
  <2> QED
    BY <1>1, <1>4, <2>1, <2>2 DEF TakeAnswer, TypeOK
<1>7. CASE NextGraph(r) \/ Abandoned(r) \/ AskFails(r) \/ AnswerMalformed(r)
           \/ Collect(r) \/ Cancel(r)
  BY <1>1, <1>7
     DEF NextGraph, Abandoned, AskFails, AnswerMalformed, Collect, Cancel, TypeOK
<1> QED
  BY <1>5, <1>6, <1>7 DEF Step

\* What another search brings into the cache disturbs none of this.
LEMMA MergeStep ==
    ASSUME IInv, NEW k \in Key, Merge(k)
    PROVE  IInv'
<1>1. UNCHANGED <<pc, at, attempt, asked, answered, shown, result, gone, omitted>>
      /\ cache' = cache \cup {k}
  BY DEF Merge
<1>2. TypeOK'
  BY <1>1 DEF IInv, TypeOK
<1>3. PlaceInv'
  BY <1>1 DEF IInv, PlaceInv
<1>4. CoverInv'
  BY <1>1 DEF IInv, CoverInv, Earlier, Graph, ItemsOf
<1>5. CacheInv'
  BY <1>1 DEF IInv, CacheInv
<1> QED
  BY <1>2, <1>3, <1>4, <1>5 DEF IInv

THEOREM Invariance == Spec => []IInv
<1>1. IInv /\ [Next]_vars => IInv'
  <2> SUFFICES ASSUME IInv, [Next]_vars PROVE IInv'
    OBVIOUS
  <2>1. CASE UNCHANGED vars
    BY <2>1 DEF vars, IInv, TypeOK, PlaceInv, CoverInv, CacheInv, Earlier, Graph, ItemsOf
  <2>2. CASE \E r \in Run : Step(r) \/ Cancel(r)
    BY <2>2, TypeStep, PlaceStep, CoverStep, CacheStep DEF IInv
  <2>3. CASE \E k \in Key : Merge(k)
    BY <2>3, MergeStep
  <2> QED
    BY <2>1, <2>2, <2>3 DEF Next
<1> QED
  BY <1>1, InitIInv, PTL DEF Spec

\* Every variable keeps its type; no graph gets more than MaxAttempts attempts.
THEOREM TypeCorrect == Spec => []TypeOK
BY Invariance, PTL DEF IInv

\* A search that succeeds, however often it has asked again and whatever other
\* runs have cached meanwhile, explains every item of its graphs but those the
\* model was asked for in the first graph that has them and left out.
THEOREM EverythingExplained == Spec => []Explained
<1>1. IInv => Explained
  <2> SUFFICES ASSUME IInv, NEW r \in Run, result[r] = "ok"
               PROVE  Items(r) \subseteq shown[r] \cup omitted[r]
    BY DEF Explained
  <2>1. /\ GraphsOf[r] \in Seq(SUBSET Item) /\ at[r] \in Nat
        /\ at[r] > Len(GraphsOf[r])
    BY QueryAssumption DEF IInv, TypeOK, PlaceInv
  <2>2. DOMAIN GraphsOf[r] \subseteq 1 .. at[r] - 1
    BY <2>1
  <2>3. Items(r) \subseteq Earlier(r)
    BY <2>2 DEF Items, Earlier
  <2> QED
    BY <2>3 DEF IInv, CoverInv
<1> QED
  BY <1>1, Invariance, PTL

\* An attempt that follows a failed one does not ask for a vertex that has its
\* answer.
THEOREM VerticesAskedOnce == Spec => RetryAsksLess
<1>1. IInv /\ [Next]_vars => [\A r \in Run, i \in Item \ Edge : ~ AsksAgain(r, i)]_vars
  <2> SUFFICES ASSUME IInv, Next, NEW r \in Run, NEW i \in Item \ Edge, AsksAgain(r, i)
               PROVE  FALSE
    OBVIOUS
  <2>1. pc[r] = "check" /\ pc'[r] = "ask" /\ i \in ItemsOf(asked'[r]) /\ i \in answered[r]
    BY DEF AsksAgain
  <2>2. TypeOK /\ PlaceInv /\ CacheInv
    BY DEF IInv
  <2>3. Lookup(r)
    <3>1. PICK s \in Run : Step(s) \/ Cancel(s)
      BY <2>1 DEF Next, Merge
    <3>2. s = r
      BY <2>1, <2>2, <3>1, OtherRuns
    <3> QED
      BY <2>1, <2>2, <3>1, <3>2
         DEF Step, NextGraph, Abandoned, AskFails, AnswerMalformed, Answered, Collect,
             Cancel, Finish, Goto, TypeOK
  <2>4. PICK L \in Listings(Graph(r)) : asked' = [asked EXCEPT ![r] = L \ cache]
    BY <2>3 DEF Lookup
  <2>5. L \in SUBSET Key
    BY <2>2, <2>3, <2>4, GraphSound, ListingSound DEF Lookup
  <2>6. PICK k \in L \ cache : k[1] = i
    BY <2>1, <2>2, <2>4 DEF ItemsOf, TypeOK
  <2>7. k = <<i, "from">>
    BY <2>5, <2>6, VertexKey
  <2> QED
    BY <2>1, <2>2, <2>6, <2>7 DEF CacheInv
<1> QED
  BY <1>1, Invariance, PTL DEF Spec, RetryAsksLess
=============================================================================
