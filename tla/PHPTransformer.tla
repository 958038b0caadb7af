--------------------------- MODULE PHPTransformer ---------------------------
(* What pkg/languages/php/php_parser.go makes of a PHP syntax tree. *)
EXTENDS SyntaxTree

PhTypeKinds == {"name", "primitive_type", "qualified_name", "relative_name",
                "named_type", "optional_type"}

PhPrefix(n) ==
    Symbols(OfKind(ChildByFieldName(n, "prefix"), {"namespace_name"}))

\* A wrapper has the first type in it, a union or an intersection folds flat.
RECURSIVE PhTypes(_), PhType(_)
PhType(n) ==
    CASE Kind(n) \in {"name", "primitive_type"} ->
           Opt(hasSourceWidth(n), ASTTypeExpression(n, <<>>, <<>>))
      [] Kind(n) = "qualified_name" ->
           Each(Wide(NthChildByKind(n, "name", 0)),
                LAMBDA name : <<ASTTypeExpression(name, PhPrefix(n), <<>>)>>)
      [] Kind(n) \in {"relative_name", "named_type", "optional_type"} ->
           First(Each(NamedChildren(n), PhType))
      [] OTHER -> FoldTypes(PhTypes(n))

\* The types named below a node, from left to right.
PhTypes(n) ==
    Each(NamedChildren(n), LAMBDA m :
        IF Kind(m) \in PhTypeKinds THEN PhType(m) ELSE PhTypes(m))

PhTypeOf(n, field) == Each(ChildByFieldName(n, field), PhType)

PhName(n) == Symbols(Wide(ChildByFieldName(n, "name")))
PhBody(n) == Wide(ChildByFieldName(n, "body"))

PhParameters(n) ==
    LET listed == Each(ChildByFieldName(n, "parameters"), LAMBDA list :
                    ChildrenOfKind(list, {"simple_parameter", "variadic_parameter",
                                          "property_promotion_parameter"}))
    IN  Each(listed, LAMBDA param :
            Each(Wide(OfKind(ChildByFieldName(param, "name"), {"variable_name"})),
                 LAMBDA name : <<ASTFuncArgument(param, Symbols(<<name>>),
                                                 PhTypeOf(param, "type"))>>))

PhFunction(n, name) ==
    EmitAndWalkInto(ASTFuncExpression(n, name, PhParameters(n),
                                      PhTypeOf(n, "return_type"), PhBody(n), <<>>))

\* Types are functions here, and what they extend is in their block.
PhClass(n) ==
    EmitAndWalkInto(ASTFuncExpression(n, PhName(n), <<>>, <<>>, PhBody(n),
        Each(ChildrenOfKind(n, {"base_clause", "class_interface_clause"}), PhTypes)))

PhUse(n) ==
    LET name == Wide(First(ChildrenOfKind(n, {"name", "qualified_name"})))
    IN  Emit(Each(name, LAMBDA m :
            <<ASTImportStatement(m, Symbols(Wide(ChildByFieldName(n, "alias"))),
                                 Symbols(<<m>>))>>))

\* A path that is computed is no import.
PhInclude(n) ==
    LET path == Wide(Each(NthChildByKind(n, "string", 0),
                          LAMBDA m : NthChildByKind(m, "string_content", 0)))
    IN  IF path = <<>> THEN WalkChildren
        ELSE Emit(<<ASTImportStatement(path[1], <<>>, Symbols(path))>>)

PhDeclaration(n, names, type) ==
    IF names = <<>> THEN WalkChildren
    ELSE EmitAndWalkInto(ASTDeclaration(n, names, type, <<>>))

PhAssignment(n) ==
    PhDeclaration(n,
        Symbols(Wide(OfKind(ChildByFieldName(n, "left"), {"variable_name"}))), <<>>)

PhElementName(m) ==
    CASE Kind(m) = "const_element" -> Symbols(Wide(NthChildByKind(m, "name", 0)))
      [] Kind(m) = "property_element" -> PhName(m)
      [] OTHER -> <<>>

PhMembers(n) ==
    PhDeclaration(n, Each(NamedChildren(n), PhElementName), PhTypeOf(n, "type"))

PhCall(n, namespace, symbol) ==
    IF symbol = <<>> THEN WalkChildren
    ELSE EmitAndWalkInto(ASTCallExpression(n, namespace, symbol, <<>>))

\* A call or a creation, by the name it resolves on.
PhCallOf(n, callee) ==
    LET qualified == OfKind(callee, {"qualified_name"})
        name == OfKind(callee, {"name"})
                  \o Each(qualified, LAMBDA m : NthChildByKind(m, "name", 0))
    IN  PhCall(n, Each(qualified, PhPrefix), Symbols(Wide(name)))

PhMemberCall(n) ==
    LET field == IF Kind(n) = "scoped_call_expression" THEN "scope" ELSE "object"
        receiver == OfKind(ChildByFieldName(n, field), {"variable_name", "name"})
    IN  PhCall(n, Symbols(receiver),
               Symbols(Wide(OfKind(ChildByFieldName(n, "name"), {"name"}))))

PHPRule(under, n) ==
    CASE Kind(n) = "namespace_use_clause" -> PhUse(n)
      [] Kind(n) \in {"require_expression", "require_once_expression",
                      "include_expression", "include_once_expression"} ->
           PhInclude(n)
      [] Kind(n) \in {"function_definition", "method_declaration"} ->
           PhFunction(n, PhName(n))
      [] Kind(n) \in {"class_declaration", "interface_declaration",
                      "trait_declaration", "enum_declaration"} -> PhClass(n)
      [] Kind(n) \in {"anonymous_function", "arrow_function"} ->
           PhFunction(n, <<>>)
      [] Kind(n) = "assignment_expression" -> PhAssignment(n)
      [] Kind(n) \in {"const_declaration", "property_declaration"} -> PhMembers(n)
      [] Kind(n) = "function_call_expression" ->
           PhCallOf(n, ChildByFieldName(n, "function"))
      [] Kind(n) \in {"member_call_expression", "nullsafe_member_call_expression",
                      "scoped_call_expression"} -> PhMemberCall(n)
      [] Kind(n) = "object_creation_expression" ->
           PhCallOf(n, First(ChildrenOfKind(n, {"name", "qualified_name"})))
      [] OTHER -> WalkChildren

=============================================================================
