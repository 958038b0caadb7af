-------------------------- MODULE PythonTransformer --------------------------
(* What pkg/languages/python/python_parser.go makes of a Python syntax tree. *)
EXTENDS SyntaxTree

\* An import is ranged on the path of the module, never on the keyword.
PyImportedName(n) ==
    LET field(f) == IF Kind(n) = "aliased_import"
                    THEN ChildByFieldName(n, f) ELSE <<>>
        name == IF field("name") = <<>> THEN <<n>> ELSE field("name")
    IN  <<ASTImportStatement(n, Symbols(field("alias")), Symbols(name))>>

\* A wildcard import names nothing: the module is all there is to resolve.
PyImportFrom(n) ==
    LET names == ChildrenByFieldName(n, "name")
        module == ChildByFieldName(n, "module_name")
        path(m) == CASE Kind(m) = "dotted_name" -> <<m>>
                     [] Kind(m) = "relative_import" ->
                          NthChildByKind(m, "dotted_name", 0)
                     [] OTHER -> <<>>
    IN  Emit(Each(IF names = <<>> THEN Each(module, path) ELSE names,
                  PyImportedName))

RECURSIVE PyParameterIdentifier(_)
PyParameterIdentifier(n) ==
    CASE Kind(n) = "identifier" -> <<n>>
      [] Kind(n) \in {"default_parameter", "typed_default_parameter"} ->
           OfKind(ChildByFieldName(n, "name"), {"identifier"})
      [] Kind(n) \in {"typed_parameter", "list_splat_pattern",
                      "dictionary_splat_pattern"} ->
           LET bound == Each(SelectSeq(NamedChildren(n),
                                       LAMBDA m : Kind(m) # "type"),
                             PyParameterIdentifier)
           IN  Opt(bound # <<>>, bound[1])
      [] OTHER -> <<>>

\* Every identifier a target binds; an attribute binds its last name, a
\* subscript none.
RECURSIVE PyBindingTargets(_)
PyBindingTargets(n) ==
    CASE Kind(n) = "identifier" -> Symbols(Wide(<<n>>))
      [] Kind(n) = "attribute" -> Symbols(Wide(ChildByFieldName(n, "attribute")))
      [] Kind(n) \in {"pattern_list", "tuple_pattern", "list_pattern",
                      "list_splat_pattern", "as_pattern_target"} ->
           Each(NamedChildren(n), PyBindingTargets)
      [] OTHER -> <<>>

PyBinding(target) ==
    LET names == PyBindingTargets(target)
    IN  Opt(names # <<>>, ASTDeclaration(target, names, <<>>, <<>>))

RECURSIVE PyTypes(_)
PyTypes(n) ==
    LET object == OfKind(ChildByFieldName(n, "object"), {"identifier"})
        inner == Each(NamedChildren(n), PyTypes)
    IN  CASE Kind(n) = "identifier" ->
               Opt(hasSourceWidth(n), ASTTypeExpression(n, <<>>, <<>>))
          [] Kind(n) = "attribute" ->
               Each(Wide(ChildByFieldName(n, "attribute")), LAMBDA m :
                    <<ASTTypeExpression(m, Symbols(object), <<>>)>>)
          [] Kind(n) = "call" -> <<>>
          [] Kind(n) \in {"generic_type", "subscript"} -> FoldTypes(inner)
          [] OTHER -> inner

PyType(n) == FoldTypes(PyTypes(n))

\* A constrained parameter has its name in its first type, its bound in the next.
PyTypeParameterName(param) ==
    LET constrained == NthChildByKind(param, "constrained_type", 0)
        first == Each(constrained, LAMBDA c : NthChildByKind(c, "type", 0))
        splat == NthChildByKind(param, "splat_type", 0)
        holder == CASE first # <<>> -> first
                    [] splat # <<>> -> splat
                    [] OTHER -> <<param>>
    IN  Each(holder, LAMBDA m : NthChildByKind(m, "identifier", 0))

PyTypeParameters(list) ==
    Each(ChildrenOfKind(list, {"type"}), LAMBDA param :
        LET bound == Each(NthChildByKind(param, "constrained_type", 0),
                          LAMBDA c : NthChildByKind(c, "type", 1))
        IN  Each(Wide(PyTypeParameterName(param)), LAMBDA name :
                 <<ASTFuncArgument(param, Symbols(<<name>>), Each(bound, PyType))>>))

PyAliasNames(left) ==
    LET generic == NthChildByKind(left, "generic_type", 0)
        head == IF generic = <<>> THEN left ELSE generic[1]
    IN  Symbols(Wide(NthChildByKind(head, "identifier", 0)
          \o Each(NthChildByKind(head, "type_parameter", 0),
                  LAMBDA list : Each(NamedChildren(list), PyTypeParameterName))))

\* Functions and classes alike, with the block narrowed to the body.
PyDefinition(n) ==
    EmitAndWalkInto(ASTFuncExpression(n, Symbols(ChildByFieldName(n, "name")),
        Each(ChildByFieldName(n, "type_parameters"), PyTypeParameters),
        Each(ChildByFieldName(n, "return_type"), PyType),
        Wide(ChildByFieldName(n, "body")), <<>>))

\* The keyword of a lambda is of the same kind, and has no body.
PyLambda(n) ==
    LET body == ChildByFieldName(n, "body")
    IN  IF body = <<>> THEN WalkChildren
        ELSE EmitAndWalkInto(
               ASTFuncExpression(n, <<>>, <<>>, <<>>, Wide(body), <<>>))

PyParameters(list) ==
    Each(NamedChildren(list), LAMBDA param :
        Each(PyParameterIdentifier(param), LAMBDA id :
            <<ASTFuncArgument(param, Symbols(<<id>>),
                Each(ChildByFieldName(param, "type"), PyType))>>))

PyAssignment(n) ==
    LET names == Each(ChildByFieldName(n, "left"), PyBindingTargets)
    IN  IF names = <<>> THEN WalkChildren
        ELSE EmitAndWalkInto(ASTDeclaration(n, names,
               Each(ChildByFieldName(n, "type"), PyType), <<>>))

PyTypeAlias(n) ==
    LET names == Each(ChildByFieldName(n, "left"), PyAliasNames)
    IN  IF names = <<>> THEN WalkChildren
        ELSE Emit(<<ASTDeclaration(n, names,
               Each(ChildByFieldName(n, "right"), PyType), <<>>)>>)

PyCall(n) ==
    LET callee == ChildByFieldName(n, "function")
        member == OfKind(callee, {"attribute"})
        object == OfKind(Each(member, LAMBDA m : ChildByFieldName(m, "object")),
                         {"identifier"})
        name == OfKind(callee, {"identifier"})
                  \o Each(member, LAMBDA m : ChildByFieldName(m, "attribute"))
    IN  IF name = <<>> THEN WalkChildren
        ELSE EmitAndWalkInto(
               ASTCallExpression(n, Symbols(object), Symbols(name), <<>>))

PythonRule(under, n) ==
    LET binds(field) == EmitAndWalk(Each(ChildByFieldName(n, field), PyBinding)) IN
    CASE Kind(n) = "import_statement" ->
           Emit(Each(ChildrenByFieldName(n, "name"), PyImportedName))
      [] Kind(n) \in {"import_from_statement", "future_import_statement"} ->
           PyImportFrom(n)
      [] Kind(n) \in {"function_definition", "class_definition"} ->
           PyDefinition(n)
      [] Kind(n) = "lambda" -> PyLambda(n)
      [] Kind(n) \in {"parameters", "lambda_parameters"} ->
           Rule(<<>>, IF under = "FuncExpression" THEN PyParameters(n) ELSE <<>>,
                "parent")
      [] Kind(n) = "assignment" -> PyAssignment(n)
      [] Kind(n) = "type_alias_statement" -> PyTypeAlias(n)
      [] Kind(n) \in {"for_statement", "for_in_clause"} -> binds("left")
      [] Kind(n) = "named_expression" -> binds("name")
      [] Kind(n) = "as_pattern" -> binds("alias")
      [] Kind(n) = "call" -> PyCall(n)
      [] OTHER -> WalkChildren

\* pyright answers a parameter, and a list of type parameters, with all of it:
\* the definition is the first name in the range.
PyNormalizeDefinitionRange(range) ==
    IF WordsWithin(range) = {} THEN range ELSE Span(Min(WordsWithin(range)))

=============================================================================
