-------------------------- MODULE GolangTransformer --------------------------
(***************************************************************************)
(* What pkg/languages/golang/golang_parser.go makes of a Go syntax tree.   *)
(* The name of the module, which package_clause sets, is part of no node's *)
(* identity and is left out.                                               *)
(***************************************************************************)
EXTENDS SyntaxTree

GoIdentifiers(n) == Identifiers({"identifier"}, n)

RECURSIVE GoType(_), GoTypes(_)
GoType(n) ==
    CASE Kind(n) = "type_identifier" ->
           Opt(hasSourceWidth(n), ASTTypeExpression(n, <<>>, <<>>))
      [] Kind(n) = "qualified_type" ->
           LET pkg == Symbols(Wide(ChildByFieldName(n, "package")))
           IN  Each(Wide(ChildByFieldName(n, "name")),
                    LAMBDA m : <<ASTTypeExpression(m, pkg, <<>>)>>)
      [] Kind(n) = "generic_type" ->
           LET given == Each(ChildByFieldName(n, "type_arguments"), GoTypes)
           IN  Each(Each(ChildByFieldName(n, "type"), GoType),
                    LAMBDA head : <<WithArguments(head, given)>>)
      [] OTHER -> FoldTypes(GoTypes(n))
GoTypes(n) ==
    Each(NamedChildren(n), LAMBDA m :
        IF Kind(m) \in {"type_identifier", "qualified_type", "generic_type"}
          THEN GoType(m) ELSE GoTypes(m))

GoParameter(decl) ==
    ParameterOf(decl, Wide(ChildrenByFieldName(decl, "name")),
                Each(ChildByFieldName(decl, "type"), GoType))

GoParameters(list) ==
    Each(ChildrenOfKind(list, {"parameter_declaration",
                               "variadic_parameter_declaration"}), GoParameter)

GoTypeParameters(decl) ==
    Each(ChildByFieldName(decl, "type_parameters"), LAMBDA list :
        Each(ChildrenOfKind(list, {"type_parameter_declaration"}), GoParameter))

GoResult(decl) ==
    Each(ChildByFieldName(decl, "result"), LAMBDA r :
        IF Kind(r) = "parameter_list" THEN <<>> ELSE GoType(r))

GoName(decl) == Symbols(Wide(ChildByFieldName(decl, "name")))

GoVariable(n) ==
    ASTDeclaration(n, Symbols(Wide(ChildrenByFieldName(n, "name"))),
                   Each(ChildByFieldName(n, "type"), GoType), <<>>)

GoStructFields(struct) ==
    Each(NthChildByKind(struct, "field_declaration_list", 0), LAMBDA list :
        Each(ChildrenOfKind(list, {"field_declaration"}), LAMBDA field :
            LET decl == GoVariable(field) IN Opt(decl.kids # <<>>, decl)))

GoInterfaceMembers(iface) ==
    Each(NamedChildren(iface), LAMBDA m :
        CASE Kind(m) = "method_elem" ->
               LET results == OfKind(ChildByFieldName(m, "result"), {"parameter_list"})
               IN  <<ASTFuncExpression(m, GoName(m),
                       Each(ChildByFieldName(m, "parameters") \o results,
                            GoParameters),
                       GoResult(m), <<>>, <<>>)>>
          [] Kind(m) = "type_elem" -> GoType(m)
          [] OTHER -> <<>>)

GoNamedType(container, spec) ==
    LET type == ChildByFieldName(spec, "type")
        members(t) == CASE Kind(t) = "struct_type" -> GoStructFields(t)
                        [] Kind(t) = "interface_type" -> GoInterfaceMembers(t)
                        [] OTHER -> GoType(t)
    IN  ASTFuncExpression(container, GoName(spec), GoTypeParameters(spec),
                          <<>>, type, Each(type, members))

GoImport(n) ==
    LET paths == SelectSeq(ChildByFieldName(n, "path"), LAMBDA m :
                   ChildrenOfKind(m, {"interpreted_string_literal_content"}) # <<>>)
    IN  Emit(Each(paths, LAMBDA m :
          <<ASTImportStatement(n, Symbols(ChildByFieldName(n, "name")),
                               Symbols(<<m>>))>>))

GoFunction(n) ==
    EmitAndWalkInto(ASTFuncExpression(n, GoName(n), GoTypeParameters(n),
        GoResult(n), NthChildByKind(n, "block", 0), <<>>))

GoLiteral(n) ==
    EmitAndWalkInto(ASTFuncExpression(n, <<>>, <<>>,
        GoResult(n), NthChildByKind(n, "block", 0), <<>>))

\* Mutant: a call is named by all that is in front of its arguments.
GoCallWhole(n) ==
    EmitAndWalkInto(ASTCallExpression(n, <<>>,
        Symbols(ChildByFieldName(n, "function")),
        Each(NthChildByKind(n, "argument_list", 0),
             LAMBDA list : CallArguments(list, GoIdentifiers))))

\* The callee: the operand of a selector when it is a name, and the name called.
GoCall(n) ==
    LET callee == ChildByFieldName(n, "function")
        chosen == OfKind(callee, {"selector_expression"})
        plain  == OfKind(callee, {"identifier"})
        operand == Each(chosen, LAMBDA m : ChildByFieldName(m, "operand"))
        name == Wide(plain \o Each(chosen, LAMBDA m : ChildByFieldName(m, "field")))
    IN  IF name = <<>> THEN WalkChildren
        ELSE EmitAndWalkInto(ASTCallExpression(n,
               Symbols(OfKind(operand, {"identifier"})),
               Symbols(name),
               Each(NthChildByKind(n, "argument_list", 0),
                    LAMBDA list : CallArguments(list, GoIdentifiers))))

GolangRule(under, n) ==
    LET specs == ChildrenOfKind(n, {"type_spec", "type_alias"}) IN
    CASE Kind(n) \in {"package_clause", "comment"} -> Drop
      [] Kind(n) = "import_spec" -> GoImport(n)
      [] Kind(n) \in {"function_declaration", "method_declaration"} -> GoFunction(n)
      [] Kind(n) = "func_literal" -> GoLiteral(n)
      [] Kind(n) = "type_declaration" ->
           IF Len(specs) = 1 THEN Emit(<<GoNamedType(n, specs[1])>>)
           ELSE WalkChildren
      [] Kind(n) \in {"type_spec", "type_alias"} -> Emit(<<GoNamedType(n, n)>>)
      [] Kind(n) = "parameter_list" ->
           IF under = "FuncExpression"
              /\ ParentKind(n) \in {"function_declaration",
                                    "method_declaration", "func_literal"}
           THEN Rule(<<>>, GoParameters(n), "nothing") ELSE Drop
      [] Kind(n) = "short_var_decl" ->
           EmitAndWalkInto(ASTDeclaration(n,
             Symbols(OfKind(ChildrenByFieldName(n, "left"), {"identifier"})), <<>>, <<>>))
      [] Kind(n) = "var_spec" -> EmitAndWalkInto(GoVariable(n))
      [] Kind(n) = "call_expression" -> GoCall(n)
      [] Kind(n) = "return_statement" ->
           EmitAndWalkInto(ASTReturnStatement(n,
             Symbols(ChildrenOfKind(n, {"identifier"}))))
      [] OTHER -> WalkChildren

=============================================================================
