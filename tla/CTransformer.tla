---------------------------- MODULE CTransformer ----------------------------
(* What pkg/languages/c/c_parser.go makes of a syntax tree of C or C++. *)
EXTENDS SyntaxTree

CIdentifiers(n) == Identifiers({"identifier", "field_identifier"}, n)

\* Parenthesized and reference declarators have no field for what they wrap.
CChildDeclarator(n) ==
    LET inner == ChildByFieldName(n, "declarator")
    IN  IF inner # <<>> THEN inner
        ELSE Opt(NamedChildren(n) # <<>>, NamedChildren(n)[1])

\* A declarator around a parenthesized one is of a pointer to a function.
RECURSIVE CFunctionDeclarator(_)
CFunctionDeclarator(n) ==
    CASE Kind(n) = "function_declarator" ->
           Opt(OfKind(CChildDeclarator(n), {"parenthesized_declarator"}) = <<>>, n)
      [] Kind(n) \in {"pointer_declarator", "reference_declarator",
                      "init_declarator", "attributed_declarator"} ->
           Each(CChildDeclarator(n), CFunctionDeclarator)
      [] OTHER -> <<>>

RECURSIVE CDeclaredName(_)
CDeclaredName(n) ==
    CASE Kind(n) \in {"identifier", "field_identifier", "type_identifier",
                      "namespace_identifier", "operator_name", "operator_cast",
                      "structured_binding_declarator"} -> Wide(<<n>>)
      [] Kind(n) = "destructor_name" ->
           LET class == Wide(NthChildByKind(n, "identifier", 0))
           IN  IF class # <<>> THEN class ELSE Wide(<<n>>)
      [] Kind(n) \in {"qualified_identifier", "template_function",
                      "template_method", "template_type"} ->
           Each(ChildByFieldName(n, "name"), CDeclaredName)
      [] Kind(n) \in {"pointer_declarator", "array_declarator", "init_declarator",
                      "function_declarator", "reference_declarator",
                      "parenthesized_declarator", "attributed_declarator",
                      "variadic_declarator"} ->
           Each(CChildDeclarator(n), CDeclaredName)
      [] OTHER -> <<>>

CDeclaredSymbol(n) ==
    Symbols(SelectSeq(CDeclaredName(n),
                      LAMBDA m : Kind(m) # "structured_binding_declarator"))

CSpecifiers == {"struct_specifier", "union_specifier", "enum_specifier",
                "class_specifier"}

CHasBody(n) == ChildByFieldName(n, "body") # <<>>

CScope(n) == Symbols(Wide(OfKind(ChildByFieldName(n, "scope"),
                                 {"namespace_identifier"})))

\* The outer scope takes the place of the one inside.
CRescoped(type, scope) ==
    IF scope = <<>> THEN type
    ELSE [type EXCEPT !.kids =
            scope \o SelectSeq(@, LAMBDA kid : kid.kind = "TypeExpression")]

\* A specifier without a body is a reference; one with a body is a definition
\* the walk maps on its own.
RECURSIVE CType(_), CTypes(_)
CType(n) ==
    LET name == ChildByFieldName(n, "name") IN
    CASE Kind(n) = "type_identifier" ->
           Opt(hasSourceWidth(n), ASTTypeExpression(n, <<>>, <<>>))
      [] Kind(n) = "qualified_identifier" ->
           LET plain(m) == Opt(hasSourceWidth(m), ASTTypeExpression(m, <<>>, <<>>))
               inner(m) == IF Kind(m) \in {"qualified_identifier", "template_type"}
                           THEN CType(m) ELSE plain(m)
           IN  Each(Each(name, inner), LAMBDA type : <<CRescoped(type, CScope(n))>>)
      [] Kind(n) = "template_type" ->
           LET given == Each(ChildByFieldName(n, "arguments"), CTypes)
           IN  Each(Each(name, CType), LAMBDA head : <<WithArguments(head, given)>>)
      [] Kind(n) \in CSpecifiers -> IF CHasBody(n) THEN <<>> ELSE Each(name, CType)
      [] Kind(n) \in {"primitive_type", "sized_type_specifier",
                      "placeholder_type_specifier", "auto"} -> <<>>
      [] OTHER -> FoldTypes(CTypes(n))
CTypes(n) ==
    Each(NamedChildren(n), LAMBDA m :
        IF Kind(m) \in CSpecifiers \cup {"type_identifier", "qualified_identifier",
                                         "template_type"}
          THEN CType(m) ELSE CTypes(m))

CParameter(decl) ==
    <<ASTFuncArgument(decl, Each(ChildByFieldName(decl, "declarator"), CDeclaredSymbol),
                      Each(ChildByFieldName(decl, "type"), CType))>>

CParameters(fdecl) ==
    Each(ChildByFieldName(fdecl, "parameters"), LAMBDA list :
        Each(ChildrenOfKind(list, {"parameter_declaration",
               "optional_parameter_declaration", "variadic_parameter_declaration"}),
             CParameter))

CTemplateParameters(list) ==
    Each(NamedChildren(list), LAMBDA param :
        CASE Kind(param) \in {"type_parameter_declaration",
                              "variadic_type_parameter_declaration",
                              "template_template_parameter_declaration"} ->
               Each(Wide(NthChildByKind(param, "type_identifier", 0)), LAMBDA m :
                    <<ASTFuncArgument(param, Symbols(<<m>>), <<>>)>>)
          [] Kind(param) = "optional_type_parameter_declaration" ->
               <<ASTFuncArgument(param,
                    Symbols(Wide(ChildByFieldName(param, "name"))), <<>>)>>
          [] Kind(param) \in {"parameter_declaration",
                              "optional_parameter_declaration"} -> CParameter(param)
          [] OTHER -> <<>>)

CTrailingReturn(fdecl) ==
    Each(NthChildByKind(fdecl, "trailing_return_type", 0), CType)

\* A definition or a prototype, in the template that owns it or in itself.
CEmitFunction(container, n, templates) ==
    LET fdecl == Each(ChildByFieldName(n, "declarator"), CFunctionDeclarator)
        type  == Each(ChildByFieldName(n, "type"), CType)
        returned == IF type # <<>> THEN type ELSE Each(fdecl, CTrailingReturn)
    IN  IF fdecl = <<>> THEN WalkChildren
        ELSE EmitAndWalkInto(ASTFuncExpression(container,
               Each(CChildDeclarator(fdecl[1]), CDeclaredSymbol),
               Each(templates, CTemplateParameters) \o CParameters(fdecl[1]),
               returned, ChildByFieldName(n, "body"), <<>>))

CEmitType(container, spec, templates) ==
    EmitAndWalkInto(ASTFuncExpression(container,
        Each(ChildByFieldName(spec, "name"), CDeclaredSymbol),
        Each(templates, CTemplateParameters), <<>>, ChildByFieldName(spec, "body"),
        Each(NthChildByKind(spec, "base_class_clause", 0), CTypes)))

CBoundNames(declarator) ==
    Each(CDeclaredName(declarator), LAMBDA m :
        IF Kind(m) = "structured_binding_declarator" THEN CIdentifiers(m)
        ELSE Symbols(<<m>>))

CEmitDeclaration(n) ==
    LET declarators == ChildrenByFieldName(n, "declarator")
        names == Each(declarators, CBoundNames)
        type  == Each(ChildByFieldName(n, "type"), CType)
    IN  IF Len(declarators) = 1 /\ CFunctionDeclarator(declarators[1]) # <<>>
        THEN CEmitFunction(n, n, <<>>)
        ELSE IF names \o type = <<>> THEN WalkChildren
        ELSE EmitAndWalkInto(ASTDeclaration(n, names, type, <<>>))

\* The tag of a typedef and each of its names are all definition sites.
CEmitTypedef(n) ==
    LET names == Each(ChildrenByFieldName(n, "declarator"), CDeclaredSymbol)
        type  == ChildByFieldName(n, "type")
        spec  == SelectSeq(OfKind(type, CSpecifiers), CHasBody)
        tag   == Each(spec, LAMBDA s : Each(ChildByFieldName(s, "name"),
                                            CDeclaredSymbol))
        first == IF tag # <<>> THEN tag ELSE Opt(names # <<>>, names[1])
        alias == ASTDeclaration(n, names, Each(type, CType), <<>>)
    IN  IF type = <<>> \/ (spec = <<>> /\ alias.kids = <<>>) THEN WalkChildren
        ELSE IF spec = <<>> THEN Emit(<<alias>>)
        ELSE EmitAndWalkInto(ASTFuncExpression(n, first, <<>>, <<>>,
               ChildByFieldName(spec[1], "body"),
               SelectSeq(names, LAMBDA s : <<s>> # first)))

CWideName(n) == Symbols(Wide(ChildByFieldName(n, "name")))

CEmitTemplateAlias(container, n, templates) ==
    LET type == ChildByFieldName(n, "type")
    IN  Emit(<<ASTFuncExpression(container, CWideName(n),
                 Each(templates, CTemplateParameters), <<>>, type,
                 Each(type, CType))>>)

\* The case of the declaration inside walks through it without emitting.
CEmitTemplate(n) ==
    LET templates == ChildByFieldName(n, "parameters")
        found == ChildrenOfKind(n, {"function_definition", "declaration",
                   "field_declaration", "class_specifier", "struct_specifier",
                   "union_specifier", "alias_declaration"})
        inner == found[1]
        function == Each(ChildByFieldName(inner, "declarator"),
                         CFunctionDeclarator) # <<>>
    IN  IF found = <<>> THEN WalkChildren
        ELSE CASE Kind(inner) = "function_definition" ->
                    CEmitFunction(n, inner, templates)
               [] Kind(inner) \in {"declaration", "field_declaration"} ->
                    IF function THEN CEmitFunction(n, inner, templates)
                    ELSE CEmitDeclaration(inner)
               [] Kind(inner) = "alias_declaration" ->
                    CEmitTemplateAlias(n, inner, templates)
               [] OTHER -> CEmitType(n, inner, templates)

CEmitInclude(n) ==
    LET path == Wide(ChildByFieldName(n, "path"))
        named(m) ==
          \/ Kind(m) = "system_lib_string"
          \/ /\ Kind(m) = "string_literal"
             /\ Wide(NthChildByKind(m, "string_content", 0)) # <<>>
    IN  Emit(Each(SelectSeq(path, named), LAMBDA m :
                  <<ASTImportStatement(m, <<>>, Symbols(<<m>>))>>))

COwnedByTemplate(n) == ParentKind(n) = "template_declaration"

CMacro(n) ==
    Emit(Each(CWideName(n), LAMBDA s : <<ASTDeclaration(n, <<s>>, <<>>, <<>>)>>))

\* A forward declaration has a node on its name, the way a prototype has.
CSpecifier(n) ==
    IF ParentKind(n) \in {"type_definition", "template_declaration"} THEN WalkChildren
    ELSE IF CHasBody(n) THEN CEmitType(n, n, <<>>)
    ELSE LET name == Each(ChildByFieldName(n, "name"), CDeclaredSymbol)
             forward == ParentKind(n) \in {"translation_unit", "declaration_list",
                          "field_declaration_list", "preproc_if", "preproc_ifdef",
                          "preproc_else", "preproc_elif", "linkage_specification"}
         IN  IF forward /\ name # <<>> THEN Emit(name) ELSE WalkChildren

\* A bare enumerator is as wide as its name, and gets no declaration.
CEnumerator(n) ==
    IF ChildByFieldName(n, "value") = <<>> THEN Emit(CWideName(n)) ELSE CMacro(n)

CAlias(n) ==
    LET decl == ASTDeclaration(n, CWideName(n),
                               Each(ChildByFieldName(n, "type"), CType), <<>>)
    IN  IF COwnedByTemplate(n) \/ decl.kids = <<>> THEN Drop ELSE Emit(<<decl>>)

CNamespace(n) ==
    LET name == ChildByFieldName(n, "name")
        plain == Wide(OfKind(name, {"namespace_identifier", "identifier"}))
        nested == Each(OfKind(name, {"nested_namespace_specifier"}), LAMBDA m :
                       Wide(ChildrenOfKind(m, {"namespace_identifier"})))
    IN  EmitAndWalkInto(ASTFuncExpression(n,
          Symbols(plain \o Opt(nested # <<>>, Last(nested))), <<>>, <<>>,
          ChildByFieldName(n, "body"), <<>>))

CLambda(n) ==
    LET decl == ChildByFieldName(n, "declarator")
    IN  EmitAndWalkInto(ASTFuncExpression(n, <<>>, Each(decl, CParameters),
          Each(decl, CTrailingReturn), ChildByFieldName(n, "body"), <<>>))

CEmitCall(n, namespace, symbol) ==
    IF symbol = <<>> THEN WalkChildren
    ELSE EmitAndWalkInto(ASTCallExpression(n, namespace, symbol,
           Each(ChildByFieldName(n, "arguments"),
                LAMBDA list : CallArguments(list, CIdentifiers))))

\* A keyword that casts parses as a callee, but is defined nowhere.
CCasts == {"static_cast", "dynamic_cast", "const_cast", "reinterpret_cast"}

CCall(n) ==
    LET callee == ChildByFieldName(n, "function")
        plain  == Symbols(Wide(OfKind(callee, {"identifier"})))
        member == OfKind(callee, {"field_expression"})
        named  == OfKind(callee, {"qualified_identifier", "template_function"})
        object == Each(member, LAMBDA m : OfKind(ChildByFieldName(m, "argument"),
                                                 {"identifier"}))
        field  == Each(member, LAMBDA m : ChildByFieldName(m, "field"))
        symbol == plain \o Each(field \o named, CDeclaredSymbol)
    IN  CEmitCall(n, Symbols(Wide(object)) \o Each(named, CScope),
                  SelectSeq(symbol, LAMBDA s : Text(s.at) \notin CCasts))

CNew(n) ==
    LET type == ChildByFieldName(n, "type")
    IN  CEmitCall(n, Each(type, CScope), Each(type, CDeclaredSymbol))

CReturn(n) ==
    EmitAndWalkInto(ASTReturnStatement(n, Symbols(ChildrenOfKind(n, {"identifier"}))))

CRule(under, n) ==
    CASE Kind(n) = "preproc_include" -> CEmitInclude(n)
      [] Kind(n) \in {"preproc_def", "preproc_function_def"} -> CMacro(n)
      [] Kind(n) = "function_definition" ->
           IF COwnedByTemplate(n) THEN WalkChildren ELSE CEmitFunction(n, n, <<>>)
      [] Kind(n) \in {"declaration", "field_declaration"} ->
           IF COwnedByTemplate(n) THEN WalkChildren ELSE CEmitDeclaration(n)
      [] Kind(n) = "type_definition" -> CEmitTypedef(n)
      [] Kind(n) \in CSpecifiers -> CSpecifier(n)
      [] Kind(n) = "enumerator" -> CEnumerator(n)
      [] Kind(n) = "alias_declaration" -> CAlias(n)
      [] Kind(n) = "namespace_definition" -> CNamespace(n)
      [] Kind(n) = "template_declaration" -> CEmitTemplate(n)
      [] Kind(n) = "lambda_expression" -> CLambda(n)
      [] Kind(n) = "call_expression" -> CCall(n)
      [] Kind(n) = "new_expression" -> CNew(n)
      [] Kind(n) = "for_range_loop" ->
           EmitAndWalk(Each(ChildByFieldName(n, "declarator"), CBoundNames))
      [] Kind(n) = "return_statement" -> CReturn(n)
      [] Kind(n) = "comment" -> Drop
      [] OTHER -> WalkChildren

=============================================================================
