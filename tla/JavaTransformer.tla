-------------------------- MODULE JavaTransformer ---------------------------
(* What pkg/languages/java/java_parser.go makes of a Java syntax tree. *)
EXTENDS SyntaxTree

JvScopedKinds == {"type_identifier", "scoped_type_identifier"}
JvTypeKinds == JvScopedKinds \cup {"generic_type", "array_type"}

JvSegments(n) ==
    CASE Kind(n) = "type_identifier" -> Wide(<<n>>)
      [] Kind(n) = "scoped_type_identifier" ->
           Wide(ChildrenOfKind(n, {"type_identifier"}))
      [] OTHER -> <<>>

\* The identifiers a type is named by, its arguments left out.
JvPath(n) ==
    LET heads == ChildrenOfKind(n, JvScopedKinds)
    IN  IF Kind(n) # "generic_type" THEN JvSegments(n)
        ELSE IF heads = <<>> THEN <<>> ELSE JvSegments(Last(heads))

JvQualifier(path) == Opt(Len(path) > 1, path[Len(path) - 1])

\* A type is the last identifier of its path.  One without a name of its own
\* folds flat, and a primitive one has no definition.
RECURSIVE JvTypes(_)
JvType(n) ==
    LET path == JvPath(n)
        lists == ChildrenOfKind(n, {"type_arguments"})
        given == IF Kind(n) = "generic_type" /\ lists # <<>>
                 THEN JvTypes(Last(lists)) ELSE <<>>
        named(m) == Opt(JvPath(m) # <<>>,
                        ASTTypeExpression(Last(JvPath(m)),
                                          Symbols(JvQualifier(JvPath(m))), given))
    IN  IF Kind(n) \in JvTypeKinds \ {"array_type"} THEN named(n)
        ELSE FoldTypes(JvTypes(n))

JvTypes(n) ==
    LET below == IF Kind(n) = "array_type" THEN ChildByFieldName(n, "element")
                 ELSE NamedChildren(n)
    IN  Each(below, LAMBDA m :
            IF Kind(m) \in JvTypeKinds THEN JvType(m) ELSE JvTypes(m))

JvTypeOf(n, field) == Each(ChildByFieldName(n, field), JvType)
JvName(n) == Symbols(Wide(ChildByFieldName(n, "name")))

JvParameters(list) ==
    Each(NamedChildren(list), LAMBDA param :
        CASE Kind(param) \in {"formal_parameter", "spread_parameter"} ->
               Each(JvName(param), LAMBDA name :
                    <<ASTFuncArgument(param, <<name>>, JvTypeOf(param, "type"))>>)
          [] Kind(param) = "identifier" ->
               Each(Symbols(Wide(<<param>>)), LAMBDA name :
                    <<ASTFuncArgument(param, <<name>>, <<>>)>>)
          [] OTHER -> <<>>)

JvTypeParameters(n) ==
    Each(ChildByFieldName(n, "type_parameters"), LAMBDA list :
        Each(ChildrenOfKind(list, {"type_parameter"}), LAMBDA param :
            Each(Wide(NthChildByKind(param, "type_identifier", 0)), LAMBDA name :
                <<ASTFuncArgument(param, Symbols(<<name>>),
                    Each(NthChildByKind(param, "type_bound", 0), JvType))>>)))

\* Lists without parentheses are a name each; the others reach the function
\* when they are walked.
JvListed(under, n) ==
    Rule(<<>>,
         IF /\ under = "FuncExpression"
            /\ ParentKind(n) \in {"method_declaration", "constructor_declaration",
                                  "record_declaration", "lambda_expression"}
         THEN JvParameters(n) ELSE <<>>,
         "nothing")

\* Types are functions here.
JvFunction(n) ==
    EmitAndWalkInto(ASTFuncExpression(n, JvName(n), JvTypeParameters(n),
        JvTypeOf(n, "type"), Wide(ChildByFieldName(n, "body")), <<>>))

JvLambda(n) ==
    LET bare == Wide(OfKind(ChildByFieldName(n, "parameters"), {"identifier"}))
    IN  EmitAndWalkInto(ASTFuncExpression(n, <<>>,
            Each(bare, LAMBDA name :
                <<ASTFuncArgument(name, Symbols(<<name>>), <<>>)>>),
            <<>>, Wide(ChildByFieldName(n, "body")), <<>>))

JvDeclaration(n) ==
    LET names == Each(ChildrenByFieldName(n, "declarator"), JvName)
        type == JvTypeOf(n, "type")
    IN  IF names = <<>> /\ type = <<>> THEN WalkChildren
        ELSE EmitAndWalkInto(ASTDeclaration(n, names, type, <<>>))

\* One bound name: its own node holds no other.
JvBinding(at, name, type) ==
    Each(Wide(name), LAMBDA m :
        <<ASTDeclaration(at, Symbols(<<m>>), Each(type, JvType), <<>>)>>)

JvForEach(n) ==
    LET name == ChildByFieldName(n, "name")
    IN  EmitAndWalk(Each(name, LAMBDA m :
            JvBinding(m, name, ChildByFieldName(n, "type"))))

JvCatch(n) ==
    LET name == NthChildByKind(n, "identifier", 0)
    IN  IF name = <<>> THEN WalkChildren
        ELSE Emit(JvBinding(n, name, NthChildByKind(n, "catch_type", 0)))

\* A resource that only names a variable declares nothing.
JvResource(n) ==
    LET name == ChildByFieldName(n, "name")
    IN  IF name = <<>> THEN WalkChildren
        ELSE EmitAndWalkInto(
               ASTDeclaration(n, Symbols(name), JvTypeOf(n, "type"), <<>>))

JvEnumConstant(n) ==
    IF JvName(n) = <<>> THEN WalkChildren
    ELSE EmitAndWalkInto(ASTDeclaration(n, JvName(n), <<>>, <<>>))

\* The import is as wide as the last segment, where its definition is.
JvImport(n) ==
    LET path == Wide(First(NthChildByKind(n, "scoped_identifier", 0)
                             \o NthChildByKind(n, "identifier", 0)))
        anchor(m) == First(Wide(ChildByFieldName(m, "name")) \o <<m>>)[1]
    IN  Emit(Each(path, LAMBDA m :
            <<ASTImportStatement(anchor(m), <<>>, Symbols(<<m>>))>>))

JvCall(n, namespace, symbol) ==
    IF symbol = <<>> THEN WalkChildren
    ELSE EmitAndWalkInto(ASTCallExpression(n, Symbols(namespace), symbol, <<>>))

JvInvocation(n) ==
    JvCall(n, Wide(OfKind(ChildByFieldName(n, "object"), {"identifier"})), JvName(n))

JvCreation(n) ==
    LET path == Each(ChildByFieldName(n, "type"), JvPath)
    IN  JvCall(n, JvQualifier(path), IF path = <<>> THEN <<>> ELSE Symbols(<<Last(path)>>))

JavaRule(under, n) ==
    CASE Kind(n) = "package_declaration" -> Drop
      [] Kind(n) = "import_declaration" -> JvImport(n)
      [] Kind(n) \in {"class_declaration", "interface_declaration",
                      "enum_declaration", "record_declaration",
                      "annotation_type_declaration", "method_declaration",
                      "constructor_declaration", "compact_constructor_declaration",
                      "annotation_type_element_declaration"} -> JvFunction(n)
      [] Kind(n) = "lambda_expression" -> JvLambda(n)
      [] Kind(n) \in {"formal_parameters", "inferred_parameters"} ->
           JvListed(under, n)
      [] Kind(n) \in {"field_declaration", "local_variable_declaration"} ->
           JvDeclaration(n)
      [] Kind(n) = "enhanced_for_statement" -> JvForEach(n)
      [] Kind(n) = "catch_formal_parameter" -> JvCatch(n)
      [] Kind(n) = "resource" -> JvResource(n)
      [] Kind(n) = "enum_constant" -> JvEnumConstant(n)
      [] Kind(n) = "method_invocation" -> JvInvocation(n)
      [] Kind(n) = "object_creation_expression" -> JvCreation(n)
      [] OTHER -> WalkChildren

=============================================================================
