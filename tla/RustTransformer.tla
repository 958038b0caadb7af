--------------------------- MODULE RustTransformer ---------------------------
(* What pkg/languages/rust/rust_parser.go makes of a Rust syntax tree. *)
EXTENDS SyntaxTree

RsTypeKinds == {"type_identifier", "scoped_type_identifier", "generic_type"}

RECURSIVE RsType(_), RsTypes(_)
RsType(n) ==
    CASE Kind(n) = "type_identifier" ->
           Opt(hasSourceWidth(n), ASTTypeExpression(n, <<>>, <<>>))
      [] Kind(n) = "scoped_type_identifier" ->
           LET path == Wide(OfKind(ChildByFieldName(n, "path"), {"identifier"}))
           IN  Each(Wide(ChildByFieldName(n, "name")),
                    LAMBDA m : <<ASTTypeExpression(m, Symbols(path), <<>>)>>)
      [] Kind(n) = "generic_type" ->
           LET given == Each(ChildByFieldName(n, "type_arguments"), RsTypes)
           IN  Each(Each(ChildByFieldName(n, "type"), RsType),
                    LAMBDA head : <<WithArguments(head, given)>>)
      [] OTHER -> FoldTypes(RsTypes(n))
RsTypes(n) ==
    Each(NamedChildren(n), LAMBDA m :
        IF Kind(m) \in RsTypeKinds THEN RsType(m) ELSE RsTypes(m))

RsFoldedTypes(n) == FoldTypes(RsTypes(n))

\* The type of a struct pattern is what it matches, not what it binds.
RECURSIVE RsPatternNames(_)
RsPatternNames(n) ==
    IF Kind(n) \in {"identifier", "shorthand_field_identifier"} THEN Wide(<<n>>)
    ELSE Each(SelectSeq(tree[n].kids, LAMBDA m : tree[m].field # "type"),
              RsPatternNames)

RsBinding(n) ==
    LET bound(target) ==
          LET names == RsPatternNames(target)
          IN  Opt(names # <<>>, ASTDeclaration(target, Symbols(names), <<>>, <<>>))
    IN  EmitAndWalk(Each(ChildByFieldName(n, "pattern"), bound))

RsParameter(param) ==
    ParameterOf(param, Each(ChildByFieldName(param, "pattern"), RsPatternNames),
                Each(ChildByFieldName(param, "type"), RsType))

\* A parameter of a closure may be a bare identifier.
RsParameters(list) ==
    Each(NamedChildren(list), LAMBDA m :
        CASE Kind(m) \in {"parameter", "variadic_parameter"} -> RsParameter(m)
          [] Kind(m) = "identifier" ->
               Opt(hasSourceWidth(m), ASTFuncArgument(m, Symbols(<<m>>), <<>>))
          [] OTHER -> <<>>)

RsName(n) == Wide(ChildByFieldName(n, "name"))

RsGenerics(decl) ==
    Each(ChildByFieldName(decl, "type_parameters"), LAMBDA list :
        ChildrenOfKind(list, {"type_parameter", "const_parameter"}))

RsTypeParameters(decl) ==
    Each(RsGenerics(decl), LAMBDA param :
        LET bounds == ChildByFieldName(param, "bounds")
            type == IF bounds # <<>> THEN Each(bounds, RsFoldedTypes)
                    ELSE Each(ChildByFieldName(param, "type"), RsType)
        IN  Opt(RsName(param) # <<>>,
                ASTFuncArgument(param, Symbols(RsName(param)), type)))

RsTypeParameterNames(decl) == Each(RsGenerics(decl), RsName)

RsReturnType(decl) == Each(ChildByFieldName(decl, "return_type"), RsType)

RsDeclarationOf(n, type) ==
    LET decl == ASTDeclaration(n, Symbols(RsName(n)), type, <<>>)
    IN  Opt(decl.kids # <<>>, decl)

RsStructFields(list) ==
    Each(ChildrenOfKind(list, {"field_declaration"}), LAMBDA field :
        RsDeclarationOf(field, Each(ChildByFieldName(field, "type"), RsType)))

RsEnumVariants(list) ==
    Each(ChildrenOfKind(list, {"enum_variant"}), LAMBDA variant :
        RsDeclarationOf(variant, Each(ChildByFieldName(variant, "body"), RsFoldedTypes)))

RECURSIVE RsSelfTypeHeadName(_)
RsSelfTypeHeadName(type) ==
    CASE Kind(type) = "type_identifier" -> <<type>>
      [] Kind(type) = "scoped_type_identifier" -> ChildByFieldName(type, "name")
      [] Kind(type) = "generic_type" ->
           Each(ChildByFieldName(type, "type"), RsSelfTypeHeadName)
      [] OTHER -> <<>>

\* An import is anchored on the last segment: the first resolves to a crate.
RsUseImport(path, alias) ==
    LET leaf == IF Kind(path) = "scoped_identifier"
                THEN ChildByFieldName(path, "name") ELSE <<path>>
    IN  Each(Wide(leaf), LAMBDA m :
             <<ASTImportStatement(m, Symbols(Wide(alias)), Symbols(<<m>>))>>)

RECURSIVE RsUseTree(_)
RsUseTree(n) ==
    CASE Kind(n) \in {"identifier", "scoped_identifier", "self", "crate", "super"} ->
           RsUseImport(n, <<>>)
      [] Kind(n) = "use_as_clause" ->
           Each(ChildByFieldName(n, "path"), LAMBDA path :
                RsUseImport(path, ChildByFieldName(n, "alias")))
      [] Kind(n) = "scoped_use_list" -> Each(ChildByFieldName(n, "list"), RsUseTree)
      [] Kind(n) = "use_list" -> Each(NamedChildren(n), RsUseTree)
      [] Kind(n) = "use_wildcard" ->
           Each(Opt(NamedChildren(n) # <<>>, NamedChildren(n)[1]), RsUseTree)
      [] OTHER -> <<>>

\* The name that is called and what it is called on, in this order.
RECURSIVE RsCallee(_)
RsCallee(n) ==
    LET of(name, qualifier) ==
          Each(Wide(ChildByFieldName(n, name)), LAMBDA m :
               <<[symbol |-> <<m>>,
                  namespace |-> Wide(OfKind(ChildByFieldName(n, qualifier),
                                            {"identifier"}))]>>)
    IN  CASE Kind(n) = "identifier" ->
               Opt(hasSourceWidth(n), [symbol |-> <<n>>, namespace |-> <<>>])
          [] Kind(n) = "scoped_identifier" -> of("name", "path")
          [] Kind(n) = "field_expression" -> of("field", "value")
          [] Kind(n) = "generic_function" ->
               Each(ChildByFieldName(n, "function"), RsCallee)
          [] OTHER -> <<>>

RsCall(n, field) ==
    Each(Each(ChildByFieldName(n, field), RsCallee), LAMBDA callee :
        <<ASTCallExpression(n, Symbols(callee.namespace), Symbols(callee.symbol),
                            <<>>)>>)

RsModule(n) ==
    LET body == ChildByFieldName(n, "body")
    IN  IF body = <<>>
        THEN Emit(Each(ChildByFieldName(n, "name"), LAMBDA m : RsUseImport(m, <<>>)))
        ELSE EmitAndWalkInto(ASTFuncExpression(n, Symbols(RsName(n)), <<>>, <<>>,
                               Wide(body), <<>>))

RsBody(n) == Wide(ChildByFieldName(n, "body"))

\* A signature has no body, and its block is as wide as itself.
RsFunction(n) ==
    EmitAndWalkInto(ASTFuncExpression(n, Symbols(RsName(n)),
        RsTypeParameters(n) \o Each(ChildByFieldName(n, "parameters"), RsParameters),
        RsReturnType(n), RsBody(n), <<>>))

RsClosure(n) ==
    EmitAndWalkInto(ASTFuncExpression(n, <<>>,
        Each(ChildByFieldName(n, "parameters"), RsParameters),
        RsReturnType(n), RsBody(n), <<>>))

RsStruct(n) ==
    LET members(body) ==
          CASE Kind(body) = "field_declaration_list" -> RsStructFields(body)
            [] Kind(body) = "ordered_field_declaration_list" ->
                 LET types == RsFoldedTypes(body)
                 IN  Opt(types # <<>>, ASTDeclaration(body, <<>>, types, <<>>))
            [] OTHER -> <<>>
    IN  Emit(<<ASTFuncExpression(n, Symbols(RsName(n)), RsTypeParameters(n), <<>>,
                 RsBody(n), Each(RsBody(n), members))>>)

RsEnum(n) ==
    Emit(<<ASTFuncExpression(n, Symbols(RsName(n)), RsTypeParameters(n), <<>>,
             RsBody(n), Each(RsBody(n), RsEnumVariants))>>)

RsTrait(n) ==
    EmitAndWalkInto(ASTFuncExpression(n, Symbols(RsName(n)), RsTypeParameters(n), <<>>,
        RsBody(n), Each(ChildByFieldName(n, "bounds"), RsFoldedTypes)))

\* Named after its self type; the trait it implements hangs off it.
RsImpl(n) ==
    EmitAndWalkInto(ASTFuncExpression(n,
        Symbols(Wide(Each(ChildByFieldName(n, "type"), RsSelfTypeHeadName))),
        RsTypeParameters(n), <<>>, RsBody(n),
        Each(ChildByFieldName(n, "trait"), RsType)))

RsAssociatedType(n) ==
    Emit(Opt(RsName(n) # <<>>, ASTDeclaration(n, Symbols(RsName(n)), <<>>, <<>>)))

RsTypeItem(n) ==
    LET decl == ASTDeclaration(n, Symbols(RsName(n) \o RsTypeParameterNames(n)),
                               Each(ChildByFieldName(n, "type"), RsType), <<>>)
    IN  Emit(Opt(decl.kids # <<>>, decl))

RsConst(n) ==
    EmitAndWalkInto(ASTDeclaration(n, Symbols(RsName(n)),
                      Each(ChildByFieldName(n, "type"), RsType), <<>>))

RsLet(n) ==
    EmitAndWalkInto(ASTDeclaration(n,
        Symbols(Each(ChildByFieldName(n, "pattern"), RsPatternNames)),
        Each(ChildByFieldName(n, "type"), RsType), <<>>))

RsMacro(n) == Emit(<<ASTFuncExpression(n, Symbols(RsName(n)), <<>>, <<>>, <<>>, <<>>)>>)

RustRule(under, n) ==
    CASE Kind(n) = "use_declaration" ->
           Emit(Each(ChildByFieldName(n, "argument"), RsUseTree))
      [] Kind(n) = "extern_crate_declaration" ->
           Emit(Each(ChildByFieldName(n, "name"), LAMBDA m : RsUseImport(m, <<>>)))
      [] Kind(n) = "mod_item" -> RsModule(n)
      [] Kind(n) \in {"function_item", "function_signature_item"} -> RsFunction(n)
      [] Kind(n) = "closure_expression" -> RsClosure(n)
      [] Kind(n) \in {"struct_item", "union_item"} -> RsStruct(n)
      [] Kind(n) = "enum_item" -> RsEnum(n)
      [] Kind(n) = "trait_item" -> RsTrait(n)
      [] Kind(n) = "impl_item" -> RsImpl(n)
      [] Kind(n) = "associated_type" -> RsAssociatedType(n)
      [] Kind(n) = "type_item" -> RsTypeItem(n)
      [] Kind(n) \in {"const_item", "static_item"} -> RsConst(n)
      [] Kind(n) = "let_declaration" -> RsLet(n)
      [] Kind(n) \in {"for_expression", "let_condition", "match_arm"} -> RsBinding(n)
      [] Kind(n) = "struct_expression" ->
           EmitAndWalk(Each(ChildByFieldName(n, "name"), RsType))
      [] Kind(n) = "call_expression" ->
           IF RsCall(n, "function") = <<>> THEN WalkChildren
           ELSE EmitAndWalkInto(RsCall(n, "function")[1])
      [] Kind(n) = "macro_invocation" ->  \* its arguments are tokens only
           IF RsCall(n, "macro") = <<>> THEN WalkChildren
           ELSE Emit(RsCall(n, "macro"))
      [] Kind(n) = "macro_definition" -> RsMacro(n)
      [] Kind(n) \in {"line_comment", "block_comment"} -> Drop
      [] OTHER -> WalkChildren

=============================================================================
