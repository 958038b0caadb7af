----------------------------- MODULE SyntaxTree -----------------------------
(***************************************************************************)
(* The concrete syntax tree of a source file, as the transformers of       *)
(* pkg/languages see it through ParserNode (pkg/parsers/walker.go), and    *)
(* the nodes of pkg/ast they build from it.                                *)
(*                                                                         *)
(* A tree is a sequence of nodes in the order of the source: the node at   *)
(* index n has a kind, the field its parent holds it under, its parent,    *)
(* its children, the index of its last descendant, and its range.  A leaf  *)
(* is a token, one byte wide, except when error recovery has inserted it:  *)
(* then it has no width at all.  What a Go function returns as a pointer   *)
(* that may be nil is here a sequence of at most one element.              *)
(***************************************************************************)
EXTENDS Naturals, SequencesExt

VARIABLE tree  \* the syntax tree of the file, fixed when it is parsed

Kind(n) == tree[n].kind
Text(n) == tree[n].text  \* of a token whose words matter, otherwise empty
IsLeaf(n) == tree[n].kids = <<>>
Span(n) == tree[n].span  \* the byte a node starts at and the one after it

Opt(cond, x) == IF cond THEN <<x>> ELSE <<>>
First(s) == Opt(s # <<>>, s[1])

\* What Op makes of every element of s, one after the other.
Each(s, Op(_)) ==
    LET upTo[i \in 0 .. Len(s)] == IF i = 0 THEN <<>> ELSE upTo[i - 1] \o Op(s[i])
    IN  upTo[Len(s)]

-----------------------------------------------------------------------------
(* ParserNode *)

NamedChildren(n) == SelectSeq(tree[n].kids, LAMBDA m : tree[m].named)

OfKind(nodes, kinds) == SelectSeq(nodes, LAMBDA m : Kind(m) \in kinds)

ChildrenOfKind(n, kinds) == OfKind(NamedChildren(n), kinds)

NthChildByKind(n, kind, i) ==
    LET found == ChildrenOfKind(n, {kind}) IN Opt(Len(found) > i, found[i + 1])

ChildrenByFieldName(n, field) ==
    SelectSeq(NamedChildren(n), LAMBDA m : tree[m].field = field)

ChildByFieldName(n, field) ==
    LET found == SelectSeq(tree[n].kids, LAMBDA m : tree[m].field = field)
    IN  Opt(found # <<>>, found[1])

\* The first of the fields the node has.
ChildByEitherName(n, field, other) ==
    LET found == ChildByFieldName(n, field)
    IN  IF found = <<>> THEN ChildByFieldName(n, other) ELSE found

Siblings(n) == {m \in ToSet(tree[tree[n].parent].kids) : m > n}

NextNamedSibling(n) ==
    LET found == {m \in Siblings(n) : tree[m].named} IN Opt(found # {}, Min(found))

ParentKind(n) == IF n = 1 THEN "" ELSE Kind(tree[n].parent)

\* The transformers each carry this test of their own, word for word.
hasSourceWidth(n) == Span(n)[1] < Span(n)[2]
Wide(nodes) == SelectSeq(nodes, hasSourceWidth)

ContainedBy(inner, outer) == outer[1] <= inner[1] /\ inner[2] <= outer[2]

\* The tokens of a range that are spelled with letters.
Punctuation == {"(", ")", "[", "]", "{", "}", "<", ">", ",", ":", ";", "=", "=>",
                "?", "*", "**", "...", "."}
WordsWithin(range) ==
    {n \in DOMAIN tree : /\ IsLeaf(n) /\ hasSourceWidth(n)
                        /\ ContainedBy(Span(n), range)
                        /\ Kind(n) \notin Punctuation}

-----------------------------------------------------------------------------
(* pkg/ast.  A node of the AST: its kind, the syntax node whose range it    *)
(* has, and its children in the order Children() lists them.               *)

Ast(kind, at, kids) == [kind |-> kind, at |-> at, kids |-> kids]

ASTSymbol(n) == Ast("Symbol", n, <<>>)
Symbols(nodes) == [i \in DOMAIN nodes |-> ASTSymbol(nodes[i])]

ASTTypeExpression(n, namespace, arguments) ==
    Ast("TypeExpression", n, namespace \o arguments)

ASTFuncArgument(n, identifier, type) ==
    Ast("FuncArgument", n, identifier \o type)

ASTImportStatement(n, namespace, reference) ==
    Ast("Import", n, namespace \o reference)

ASTDeclaration(n, names, type, virtual) ==
    Ast("Declaration", n, names \o type \o virtual)

ASTCallExpression(n, namespace, symbol, arguments) ==
    Ast("CallExpression", n, namespace \o symbol \o arguments)

ASTReturnStatement(n, virtual) == Ast("Return", n, virtual)

\* A function has the block it was given, or one as wide as itself: block is
\* <<>> when the transformer leaves the default in place.
ASTFuncExpression(n, name, arguments, returnType, block, inner) ==
    Ast("FuncExpression", n,
        name \o arguments \o returnType
            \o <<Ast("Block", IF block = <<>> THEN n ELSE block[1], inner)>>)

\* The first type of a list becomes the head, the rest its arguments.
WithArguments(type, more) == [type EXCEPT !.kids = @ \o more]
FoldTypes(types) ==
    Opt(types # <<>>, WithArguments(types[1], Tail(types)))

-----------------------------------------------------------------------------
(* What the transformers of more than one language have in common *)

RECURSIVE Identifiers(_, _)
Identifiers(kinds, n) ==
    IF Kind(n) \in kinds THEN Symbols(Wide(<<n>>))
    ELSE Each(NamedChildren(n), LAMBDA m : Identifiers(kinds, m))

\* A parameter that binds several names: each past the first gets an argument
\* on its own identifier, so that a definition still finds a node there.
ParameterOf(decl, names, type) ==
    IF names = <<>> THEN <<ASTFuncArgument(decl, <<>>, type)>>
    ELSE [i \in DOMAIN names |->
            IF i = 1 THEN ASTFuncArgument(decl, Symbols(<<names[1]>>), type)
            ELSE ASTFuncArgument(names[i], Symbols(<<names[i]>>), <<>>)]

\* The arguments of a call: one for each identifier in it that Named finds, or
\* one without a name.
CallArguments(list, Named(_)) ==
    Each(NamedChildren(list), LAMBDA m :
        IF Named(m) = <<>> THEN <<ASTFuncArgument(m, <<>>, <<>>)>>
        ELSE Each(Named(m), LAMBDA s : <<ASTFuncArgument(s.at, <<s>>, <<>>)>>))

-----------------------------------------------------------------------------
(* What a transformer does with the node it is given: the nodes it hands   *)
(* to Emit, what it adds to the arguments of the function it is under, and *)
(* whether it walks the children of the node, and into which parent.       *)

Rule(emit, arguments, into) ==
    [emit |-> emit, arguments |-> arguments, into |-> into]

Drop == Rule(<<>>, <<>>, "nothing")
WalkChildren == Rule(<<>>, <<>>, "parent")
Emit(nodes) == Rule(nodes, <<>>, "nothing")
EmitAndWalk(nodes) == Rule(nodes, <<>>, "parent")
\* Mutant: the children of a node that was made are not walked.
EmitAndStop(node) == Rule(<<node>>, <<>>, "nothing")

EmitAndWalkInto(node) == Rule(<<node>>, <<>>, "emitted")

=============================================================================
