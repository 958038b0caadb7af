---------------------------- MODULE TransformWalk ----------------------------
(***************************************************************************)
(* From a syntax tree to an indexed file: WalkTransformTree                *)
(* (pkg/parsers/walker.go) drives one transformer over the tree with a     *)
(* cursor, and IndexNodes (pkg/cog/node_indexer_visitor.go) gives every    *)
(* node of the AST an identity and an interval.  What SearchSnippet looks  *)
(* up afterwards (pkg/cog/queries.go) is stated over the indexed file.     *)
(*                                                                         *)
(* The AST is the sequence of its nodes in the order they are made, which  *)
(* for nodes of the same interval is the order they are indexed in.  Each  *)
(* node is the path to it: the kind and the range of every node from the   *)
(* module down to it.                                                      *)
(***************************************************************************)
EXTENDS GolangTransformer, PythonTransformer, TypescriptTransformer, CTransformer, RustTransformer, SwiftTransformer, JavaTransformer, PHPTransformer, RubyTransformer, CSSTransformer, HTMLTransformer

CONSTANTS
    Cases,      \* the files: a language, and the syntax tree of a source in it
    MaxMissing  \* how many tokens of a file error recovery may have inserted

ASSUME CasesAssumption == \A case \in Cases : case.language \in STRING
ASSUME MaxMissingAssumption == MaxMissing \in Nat

VARIABLES
    language,
    ast,      \* the nodes made so far, as paths
    parents,  \* trx.Parent, over the parents that walk will put back
    cursor,
    intervals,  \* the nodes the search tree of the indexed file holds
    pc

vars == <<tree, language, ast, parents, cursor, intervals, pc>>

-----------------------------------------------------------------------------
(* Trees and paths *)

\* The nodes of a syntax tree written as nested nodes, the first at index first.
RECURSIVE Listed(_, _, _)
Listed(t, parent, first) ==
    LET upTo[i \in 0 .. Len(t.kids)] ==
          IF i = 0 THEN <<>>
          ELSE LET before == upTo[i - 1]
               IN  before \o Listed(t.kids[i], first, first + 1 + Len(before))
        below == upTo[Len(t.kids)]
    IN  << [kind |-> t.kind, field |-> t.field, named |-> t.named, text |-> t.text,
            role |-> t.role, parent |-> parent, last |-> first + Len(below),
            kids |-> SelectSeq([i \in DOMAIN below |-> first + i],
                               LAMBDA m : below[m - first].parent = first)] >>
          \o below

Leaves(nodes) == {n \in DOMAIN nodes : nodes[n].kids = <<>>}

\* The tree of a source some of whose tokens error recovery had to insert.
Parsed(nodes, missing) ==
    LET wide == Leaves(nodes) \ missing
        before(n) == Cardinality({m \in wide : m < n})
    IN  [n \in DOMAIN nodes |->
           [span |-> <<before(n), before(nodes[n].last + 1)>>] @@ nodes[n]]

Place(x) == [kind |-> x.kind, at |-> x.at]

\* A node and everything below it, under the path that leads to its parent.
RECURSIVE Paths(_, _)
Paths(path, x) ==
    <<Append(path, Place(x))>>
        \o Each(x.kids, LAMBDA kid : Paths(Append(path, Place(x)), kid))

\* AppendChild puts a child of a module or of a function into its block.
AppendsTo(parent) == parent.path \o parent.block

Parent(path, x) ==
    [path  |-> Append(path, Place(x)),
     block |-> IF x.kind \in {"Module", "FuncExpression"}
               THEN Each(x.kids, LAMBDA k : Opt(k.kind = "Block", Place(k)))
               ELSE <<>>]

-----------------------------------------------------------------------------
(* The walk *)

RuleOf(n) ==
    LET under == Last(Last(parents).path).kind IN
    CASE language = "go" -> GolangRule(under, n)
      [] language = "python" -> PythonRule(under, n)
      [] language = "typescript" -> TypescriptRule(under, n)
      [] language = "c" -> CRule(under, n)
      [] language = "rust" -> RustRule(under, n)
      [] language = "swift" -> SwiftRule(under, n)
      [] language = "java" -> JavaRule(under, n)
      [] language = "php" -> PHPRule(under, n)
      [] language = "ruby" -> RubyRule(under, n)
      [] language = "css" -> CSSRule(under, n)
      [] language = "html" -> HTMLRule(under, n)

Module == Ast("Module", 1, <<Ast("Block", 1, <<>>)>>)

Init ==
    /\ \E case \in Cases :
         LET nodes == Listed(case.tree, 0, 1)
             names == {n \in Leaves(nodes) :
                         /\ nodes[n].named /\ nodes[n].text = ""
                         /\ nodes[n].role # "content"}
         IN  /\ language = case.language
             /\ \E missing \in [1 .. MaxMissing -> names \cup {0}] :
                  tree = Parsed(nodes, Range(missing))
    /\ ast = Paths(<<>>, Module)
    /\ parents = << Parent(<<>>, Module) >>
    /\ cursor = IF IsLeaf(1) THEN 1 ELSE tree[1].kids[1]
    /\ intervals = {}
    /\ pc = IF IsLeaf(1) THEN "index" ELSE "visit"

\* What the transformer made of the node under the cursor.
Emitted(rule) ==
    LET trxParent == Last(parents)
    IN  Each(rule.arguments, LAMBDA x : Paths(trxParent.path, x))
          \o Each(rule.emit, LAMBDA x : Paths(AppendsTo(trxParent), x))

\* The transformer is given the node under the cursor: it makes its nodes and,
\* when it walks on, the walk goes to the children, into the parent or the node
\* just made.
Transform ==
    /\ pc = "visit"
    /\ \E rule \in {RuleOf(cursor)} :
         LET trxParent == Last(parents)
             walks == rule.into # "nothing" /\ ~IsLeaf(cursor)
             into == IF rule.into = "parent" THEN trxParent
                     ELSE Parent(AppendsTo(trxParent), Last(rule.emit))
         IN  /\ ast' = ast \o Emitted(rule)
             /\ parents' = IF walks THEN Append(parents, into) ELSE parents
             /\ cursor' = IF walks THEN tree[cursor].kids[1] ELSE cursor
             /\ pc' = IF walks THEN "visit" ELSE "next"
    /\ UNCHANGED <<tree, language, intervals>>

GotoNextSibling ==
    /\ pc = "next"
    /\ Siblings(cursor) # {}
    /\ cursor' = Min(Siblings(cursor))
    /\ pc' = "visit"
    /\ UNCHANGED <<tree, language, ast, parents, intervals>>

GotoParent ==
    /\ pc = "next"
    /\ Siblings(cursor) = {}
    /\ cursor' = tree[cursor].parent
    /\ parents' = IF cursor' = 1 THEN parents ELSE Front(parents)
    /\ pc' = IF cursor' = 1 THEN "index" ELSE "next"
    /\ UNCHANGED <<tree, language, ast, intervals>>

-----------------------------------------------------------------------------
(* The index *)

\* GetHash adds the hashes of a node's source, range and kind to those of its
\* ancestors, word by word: what the sum keeps is how often each occurs.
Occurrences(s) == [x \in ToSet(s) |-> Cardinality({i \in DOMAIN s : s[i] = x})]

\* Mutant: the kinds of the nodes are not hashed.
GetRangesHash(path) ==
    [ranges |-> Occurrences([i \in DOMAIN path |-> Span(path[i].at)]),
     kinds  |-> {}]

GetHash(path) ==
    [ranges |-> Occurrences([i \in DOMAIN path |-> Span(path[i].at)]),
     kinds  |-> Occurrences([i \in DOMAIN path |-> path[i].kind])]

SpanOf(i) == Span(Last(ast[i]).at)

HashCollision == Cardinality({GetHash(ast[i]) : i \in DOMAIN ast}) < Len(ast)

\* The search tree holds one node for an interval, the one inserted last, and
\* the indexer inserts no empty one.
IndexNodes ==
    /\ pc = "index"
    /\ pc' = IF HashCollision THEN "panicked" ELSE "indexed"
    /\ intervals' =
         {i \in DOMAIN ast :
            /\ SpanOf(i)[1] < SpanOf(i)[2]
            /\ \A j \in i + 1 .. Len(ast) : SpanOf(j) # SpanOf(i)}
    /\ UNCHANGED <<tree, language, ast, parents, cursor>>

Done ==
    /\ pc \in {"indexed", "panicked"}
    /\ UNCHANGED vars

Next == Transform \/ GotoNextSibling \/ GotoParent \/ IndexNodes \/ Done

Spec == Init /\ [][Next]_vars

FindNodesWithinRange(range) ==
    {i \in intervals : ContainedBy(SpanOf(i), range)}

IsNodeOfInterest(x) == x.kind \in {"FuncExpression", "Module"}

\* How many of the path's nodes there are down to its nearest node of interest.
NearestOrSelf(path) ==
    SubSeq(path, 1, Max({k \in DOMAIN path : IsNodeOfInterest(path[k])}))

\* Mutant: a node as wide as the range does not enclose it.
FindTightestWiderNodes(range) ==
    LET enclosing == {i \in intervals \cup {1} :
                        /\ ContainedBy(range, SpanOf(i)) /\ range # SpanOf(i)
                        /\ IsNodeOfInterest(Last(ast[i]))}
        width(i) == SpanOf(i)[2] - SpanOf(i)[1]
    IN  {i \in enclosing : \A j \in enclosing : width(i) <= width(j)}

\* The module is considered before the index, and only a tighter node replaces it.
FindTightestEnclosingNodes(range) ==
    LET enclosing == {i \in intervals \cup {1} :
                        /\ ContainedBy(range, SpanOf(i))
                        /\ IsNodeOfInterest(Last(ast[i]))}
        width(i) == SpanOf(i)[2] - SpanOf(i)[1]
        tightest == {i \in enclosing : \A j \in enclosing : width(i) <= width(j)}
    IN  IF 1 \in tightest THEN {1} ELSE tightest

-----------------------------------------------------------------------------
(* Properties *)

\* A file can be indexed whatever tokens are missing from it: no two nodes of
\* its AST have the same hash, which IndexNodes answers with a panic that
\* nothing recovers (node_indexer_visitor.go 22-26).
FileIndexes == pc # "panicked"

\* The parent of a node is of the first kind, the parent of that of the second,
\* and so on.
RECURSIVE Under(_, _)
Under(n, kinds) ==
    \/ kinds = <<>>
    \/ /\ ParentKind(n) = Head(kinds)
       /\ Under(tree[n].parent, Tail(kinds))

Ancestors(n) == {m \in 1 .. n - 1 : tree[m].last >= n}

\* Where a source declares a name that its transformer makes no node for, from
\* the name outwards.
NodelessPlaces == {
    <<"const_spec">>, <<"expression_list", "short_var_declaration">>,  \* Go
    <<"expression_list", "range_clause">>,
    <<"parameter_declaration", "parameter_list", "function_type">>,
    <<"dotted_name", "case_pattern">>,  \* Python
    <<"catch_clause">>,  \* TypeScript
    <<"preproc_params">>,  \* C and C++
    <<"type_parameter_declaration", "template_template_parameter_declaration">>,
    <<"reference_declarator", "parameter_declaration", "parameter_list", "catch_clause">>,
    <<"field_declaration", "field_declaration_list", "enum_variant">>,  \* Rust
    <<"tuple_pattern", "closure_parameters">>,
    <<"variable_declarator", "spread_parameter">>,  \* Java
    <<"variable_declarator", "constant_declaration">>, <<"instanceof_expression">>,
    <<"foreach_statement">>, <<"enum_case">>,  \* PHP
    <<"block_parameters">>}  \* Ruby

\* The parameters of a C++ template of a variable.
OfVariableTemplate(n) ==
    /\ Under(n, <<"type_parameter_declaration", "template_parameter_list",
                  "template_declaration">>)
    /\ \E m \in Siblings(tree[tree[n].parent].parent) :
         /\ Kind(m) = "field_declaration"
         /\ Each(ChildByFieldName(m, "declarator"), CFunctionDeclarator) = <<>>

\* What Swift declares in a requirement of a protocol that is named by an
\* operator, or in one or an alias whose own name is missing; and the alias Rust
\* gives to an import that is missing.
Orphaned(n) ==
    \E m \in Ancestors(n) :
        \/ /\ Kind(m) \in {"protocol_function_declaration", "typealias_declaration"}
           /\ Wide(OfKind(ChildByFieldName(m, "name"),
                          {"simple_identifier", "type_identifier"})) = <<>>
        \/ Kind(m) = "use_as_clause" /\ Wide(ChildByFieldName(m, "path")) = <<>>

Nodeless(n) ==
    (\E place \in NodelessPlaces : Under(n, place)) \/ OfVariableTemplate(n) \/ Orphaned(n)

\* The answer of a language server to a definition.
Answer(n) == IF language = "swift" THEN <<Span(n)[1], Span(n)[1]>> ELSE Span(n)

NormalizeDefinitionRange(range) ==
    CASE language = "python" -> PyNormalizeDefinitionRange(range)
      [] language = "typescript" -> TsNormalizeDefinitionRange(range)
      [] language = "swift" -> SwNormalizeDefinitionRange(range)
      [] OTHER -> range

\* A language server answers a definition with a name that is declared, or with
\* more or less than the name, and SearchSnippet fails as a whole unless exactly
\* one node lies within that range once it is normalized (workspace.go 776-781).
\* A name has one such node, which no node inside it doubles, except in the
\* places of Nodeless: there it has none, and a definition that lands on it fails.
DefinitionsLand ==
    pc = "indexed" =>
        \A n \in DOMAIN tree :
            /\ tree[n].role \in {"declared", "answered"}
            /\ \A m \in n .. tree[n].last : hasSourceWidth(m)
            => Cardinality(FindNodesWithinRange(NormalizeDefinitionRange(Answer(n))))
                 = IF Nodeless(n) THEN 0 ELSE 1

\* The range SearchSnippet asks a definition for, of a callee or of a type,
\* leads back to one node (workspace.go 747-751), and that node is in the same
\* function as the call or the type it was taken from, so the edge it becomes
\* starts where the call is.
ReferencesLand ==
    pc = "indexed" =>
        \A i \in DOMAIN ast :
            LET path == ast[i]
                asked == \/ Last(path).kind = "TypeExpression"
                         \/ /\ Last(path).kind = "Symbol"
                            /\ Last(Front(path)).kind = "CallExpression"
                found == FindNodesWithinRange(SpanOf(i))
            IN  asked /\ hasSourceWidth(Last(path).at) =>
                  /\ Cardinality(found) = 1
                  /\ \A j \in found : NearestOrSelf(ast[j]) = NearestOrSelf(path)

\* A function whose block is narrower than itself is the tightest node of
\* interest around its own text: neither its block nor anything else of the
\* same range hides it in the index, or a snippet of the function would be
\* explained at the node around it.  The exception is a function as wide as its
\* file, where the module is found instead.
FunctionsVisible ==
    pc = "indexed" =>
        \A i \in DOMAIN ast :
            LET path == ast[i]
                narrowed == \E j \in DOMAIN ast :
                              /\ Last(ast[j]).kind = "Block"
                              /\ Front(ast[j]) = path
                              /\ SpanOf(j) # SpanOf(i)
                fillsFile == SpanOf(i) = SpanOf(1)
            IN  Last(path).kind = "FuncExpression" /\ narrowed =>
                  \A j \in FindTightestEnclosingNodes(SpanOf(i)) :
                      /\ Last(ast[j]).kind = IF fillsFile THEN "Module"
                                             ELSE "FuncExpression"
                      /\ SpanOf(j) = SpanOf(i)

\* The function a piece of source is in.
Scope(n) ==
    Max({1} \cup {m \in 1 .. n : tree[m].role = "function" /\ tree[m].last >= n})

\* The declarations a transformer makes nodes for without walking them, in which
\* an expression may call: a type of Go, an alias of Python and of C++, an enum of
\* Rust, and the names of attributes in Ruby.
Unwalked(n) ==
    \E m \in Ancestors(n) :
        \/ Kind(m) \in {"type_spec", "type_alias_statement", "alias_declaration",
                        "enum_item"}
        \/ /\ Kind(m) = "call"
           /\ \E method \in ToSet(ChildByFieldName(m, "method")) :
                Text(method) \in {"attr_accessor", "attr_reader", "attr_writer"}
           /\ \E list \in ToSet(ChildByFieldName(m, "arguments")) :
                RbAttrNames(list) # <<>>

\* No call is made twice, and none is lost outside of Unwalked: a call that names
\* what it calls has one node, in the function it is written in.  Within Unwalked
\* every call is lost, against "guaranteed information retention" (ast/AST.md 7).
CallsKept ==
    pc \in {"indexed", "panicked"} =>
        \A n \in DOMAIN tree :
            tree[n].role = "callee" /\ hasSourceWidth(n) =>
                LET calls == {i \in DOMAIN ast :
                                /\ Last(ast[i]) = [kind |-> "Symbol", at |-> n]
                                /\ Last(Front(ast[i])).kind = "CallExpression"}
                IN  /\ Cardinality(calls) = IF Unwalked(n) THEN 0 ELSE 1
                    /\ \A i \in calls : Last(NearestOrSelf(ast[i])).at = Scope(n)

=============================================================================
