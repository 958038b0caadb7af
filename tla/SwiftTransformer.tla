-------------------------- MODULE SwiftTransformer --------------------------
(* What pkg/languages/swift/swift_parser.go makes of a Swift syntax tree. *)
EXTENDS SyntaxTree

SwPatternIdentifiers(n) == Identifiers({"simple_identifier"}, n)

SwFieldNames(n, field) == Each(ChildrenByFieldName(n, field), SwPatternIdentifiers)

SwDeclaringKeywords == {"struct", "class", "enum", "protocol", "actor",
                        "typealias", "associatedtype", "func"}

\* Recovery promises no kind for a name it swallowed: the words of it are all
\* there is to go by.
SwSpelledLikeIdentifier(n) == Text(n) # ""

SwDeclaredAfterKeyword(n, previous) ==
    Symbols(SelectSeq(Wide(<<n>>), LAMBDA m :
              previous \in SwDeclaringKeywords /\ SwSpelledLikeIdentifier(m)))

\* The names an ERROR node still declares.  One that spans a swallowed `init`
\* stands in for the name itself.
SwRecoveredNames(n) ==
    LET kids == tree[n].kids
        filed(i) == IF tree[kids[i]].field = "name"
                    THEN SwPatternIdentifiers(kids[i]) ELSE <<>>
        previous(i) == IF i = 1 THEN "" ELSE Kind(kids[i - 1])
        names(i) == IF filed(i) # <<>> THEN filed(i)
                    ELSE SwDeclaredAfterKeyword(kids[i], previous(i))
    IN  Each([i \in DOMAIN kids |-> i], names)
          \o Opt(Text(n) = "init", ASTSymbol(n))

SwBindings(targets) ==
    EmitAndWalk(Each(targets, LAMBDA target :
        LET names == SwPatternIdentifiers(target)
        IN  Opt(names # <<>>, ASTDeclaration(target, names, <<>>, <<>>))))

\* The last segment of a dotted type is its head, unless that only says that
\* the type itself is meant.  An attribute is spelled like a type and is none.
RECURSIVE SwTypes(_)
SwTypes(n) ==
    LET segments == Wide(ChildrenOfKind(n, {"type_identifier"}))
        meta == Len(segments) > 1 /\ Text(Last(segments)) \in {"Type", "Protocol"}
        path == IF meta THEN Front(segments) ELSE segments
        qualifier == Opt(Len(path) > 1, path[Len(path) - 1])
        given == Each(ChildrenOfKind(n, {"type_arguments"}), LAMBDA list :
                   Each(NamedChildren(list), LAMBDA m : FoldTypes(SwTypes(m))))
    IN  CASE Kind(n) = "type_identifier" ->
               Opt(hasSourceWidth(n), ASTTypeExpression(n, <<>>, <<>>))
          [] Kind(n) = "user_type" ->
               Opt(path # <<>>,
                   ASTTypeExpression(Last(path), Symbols(qualifier), given))
          [] Kind(n) \in {"type_modifiers", "attribute"} -> <<>>
          [] OTHER -> Each(NamedChildren(n), SwTypes)

SwType(n) == FoldTypes(SwTypes(n))

\* The type of an attributed declaration is the node after its attribute.
SwAnnotatedType(n, field) ==
    Each(ChildByFieldName(n, field), LAMBDA m :
        IF Kind(m) = "type_modifiers" THEN Each(NextNamedSibling(m), SwType)
        ELSE SwType(m))

SwBindingType(n) ==
    Each(NthChildByKind(n, "type_annotation", 0),
         LAMBDA annotation : SwAnnotatedType(annotation, "type"))

SwArgument(param) ==
    <<ASTFuncArgument(param,
        Symbols(Wide(OfKind(ChildByFieldName(param, "name"), {"simple_identifier"}))),
        SwAnnotatedType(param, "type"))>>

SwParameters(n) == Each(ChildrenOfKind(n, {"parameter"}), SwArgument)

SwGenerics(n) ==
    Each(NthChildByKind(n, "type_parameters", 0),
         LAMBDA list : ChildrenOfKind(list, {"type_parameter"}))

SwGenericName(param) == Wide(NthChildByKind(param, "type_identifier", 0))

SwTypeParameters(n) ==
    Each(SwGenerics(n), LAMBDA param : Each(SwGenericName(param), LAMBDA name :
        <<ASTFuncArgument(param, Symbols(<<name>>), SwAnnotatedType(param, "name"))>>))

SwTypeParameterNames(n) == Symbols(Each(SwGenerics(n), SwGenericName))

SwLambdaParameters(type) ==
    Each(NthChildByKind(type, "lambda_function_type_parameters", 0), LAMBDA list :
        Each(ChildrenOfKind(list, {"lambda_parameter"}), SwArgument))

\* A node that declares nothing is walked where it is.
SwDeclaration(n, names, type) ==
    IF names = <<>> THEN WalkChildren
    ELSE EmitAndWalkInto(ASTDeclaration(n, names, type, <<>>))

SwImport(n) ==
    Emit(Each(NthChildByKind(n, "identifier", 0), LAMBDA path :
         <<ASTImportStatement(path, <<>>, Symbols(<<path>>))>>))

SwName(n) == Symbols(Wide(ChildByFieldName(n, "name")))
SwBody(n) == Wide(ChildByFieldName(n, "body"))

SwFunction(n) ==
    EmitAndWalkInto(ASTFuncExpression(n, SwName(n),
        SwTypeParameters(n) \o SwParameters(n),
        SwAnnotatedType(n, "return_type"), SwBody(n), <<>>))

\* Types are functions here.
SwTypeDeclaration(n) ==
    EmitAndWalkInto(ASTFuncExpression(n, SwName(n), SwTypeParameters(n), <<>>,
                                      SwBody(n), <<>>))

SwLambda(n) ==
    EmitAndWalkInto(ASTFuncExpression(n, <<>>,
        Each(ChildByFieldName(n, "type"), SwLambdaParameters), <<>>,
        Wide(NthChildByKind(n, "statements", 0)), <<>>))

SwNamedType(n) ==
    LET name == Wide(OfKind(ChildByFieldName(n, "name"), {"type_identifier"}))
        types == Each(<<"value", "must_inherit", "default_value">>,
                      LAMBDA field : SwAnnotatedType(n, field))
    IN  IF name = <<>> THEN WalkChildren
        ELSE SwDeclaration(n, Symbols(name) \o SwTypeParameterNames(n),
                           FoldTypes(types))

\* A requirement of a protocol has no body, and its block is as wide as itself.
\* An operator is not named by an identifier, but declares a name all the same.
SwProtocolFunction(n) ==
    IF Wide(OfKind(ChildByFieldName(n, "name"), {"simple_identifier"})) = <<>>
    THEN SwDeclaration(n, SwFieldNames(n, "name"), <<>>)
    ELSE EmitAndWalkInto(ASTFuncExpression(n, SwName(n),
           SwTypeParameters(n) \o SwParameters(n),
           SwAnnotatedType(n, "return_type"), <<>>, <<>>))

SwCall(n) ==
    LET callee == Opt(NamedChildren(n) # <<>>, NamedChildren(n)[1])
        member == OfKind(callee, {"navigation_expression"})
        target == Each(member, LAMBDA m : ChildByFieldName(m, "target"))
        suffix == Each(Each(member, LAMBDA m : ChildByFieldName(m, "suffix")),
                       LAMBDA m : ChildByFieldName(m, "suffix"))
        name == OfKind(callee \o suffix, {"simple_identifier"})
    IN  IF name = <<>> THEN WalkChildren
        ELSE EmitAndWalkInto(ASTCallExpression(n,
               Symbols(OfKind(target, {"simple_identifier"})), Symbols(name), <<>>))

SwiftRule(under, n) ==
    CASE Kind(n) = "import_declaration" -> SwImport(n)
      [] Kind(n) \in {"function_declaration", "init_declaration",
                      "deinit_declaration"} -> SwFunction(n)
      [] Kind(n) \in {"class_declaration", "protocol_declaration"} ->
           SwTypeDeclaration(n)
      [] Kind(n) = "lambda_literal" -> SwLambda(n)
      [] Kind(n) \in {"property_declaration", "protocol_property_declaration"} ->
           SwDeclaration(n, SwFieldNames(n, "name"), SwBindingType(n))
      [] Kind(n) \in {"typealias_declaration", "associatedtype_declaration"} ->
           SwNamedType(n)
      [] Kind(n) = "enum_entry" -> SwDeclaration(n, SwFieldNames(n, "name"), <<>>)
      [] Kind(n) = "protocol_function_declaration" -> SwProtocolFunction(n)
      [] Kind(n) = "for_statement" -> SwBindings(ChildByFieldName(n, "item"))
      [] Kind(n) \in {"if_statement", "guard_statement", "while_statement"} ->
           SwBindings(ChildrenByFieldName(n, "bound_identifier"))
      [] Kind(n) = "catch_block" -> SwBindings(ChildByFieldName(n, "error"))
      [] Kind(n) = "call_expression" -> SwCall(n)
      [] Kind(n) = "ERROR" -> SwDeclaration(n, SwRecoveredNames(n), <<>>)
      [] OTHER -> WalkChildren

\* sourcekit-lsp answers where a name starts: the definition is all of the name.
SwNormalizeDefinitionRange(range) ==
    LET name == {n \in WordsWithin(Span(1)) : Span(n)[1] = range[1]}
    IN  IF range[1] # range[2] \/ name = {} THEN range ELSE Span(Min(name))

=============================================================================
