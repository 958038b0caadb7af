------------------------ MODULE TypescriptTransformer ------------------------
(***************************************************************************)
(* What pkg/languages/typescript/typescript_parser.go makes of a syntax    *)
(* tree of TypeScript, TSX, JavaScript or JSX.                             *)
(***************************************************************************)
EXTENDS SyntaxTree

TsNameKinds == {"identifier", "property_identifier",
                "private_property_identifier", "type_identifier"}

TsName(n) == Symbols(Wide(OfKind(ChildByFieldName(n, "name"), TsNameKinds)))

TsIdentifiers(n) == Identifiers({"identifier"}, n)

\* The value a pattern falls back to is an expression, and binds nothing.
RECURSIVE TsBindingNames(_)
TsBindingNames(n) ==
    CASE Kind(n) \in {"identifier", "shorthand_property_identifier_pattern"} ->
           Wide(<<n>>)
      [] Kind(n) = "pair_pattern" ->
           Each(ChildByFieldName(n, "value"), TsBindingNames)
      [] Kind(n) \in {"assignment_pattern", "object_assignment_pattern"} ->
           Each(ChildByFieldName(n, "left"), TsBindingNames)
      [] Kind(n) \in {"object_pattern", "array_pattern", "rest_pattern"} ->
           Each(NamedChildren(n), TsBindingNames)
      [] OTHER -> <<>>

RECURSIVE TsType(_), TsTypes(_)
TsType(n) ==
    CASE Kind(n) = "type_identifier" ->
           Opt(hasSourceWidth(n), ASTTypeExpression(n, <<>>, <<>>))
      [] Kind(n) = "nested_type_identifier" ->
           LET module == Symbols(Wide(ChildByFieldName(n, "module")))
           IN  Each(Wide(ChildByFieldName(n, "name")),
                    LAMBDA m : <<ASTTypeExpression(m, module, <<>>)>>)
      [] Kind(n) = "generic_type" ->
           LET given == Each(ChildByFieldName(n, "type_arguments"), TsTypes)
           IN  Each(Each(ChildByFieldName(n, "name"), TsType),
                    LAMBDA head : <<WithArguments(head, given)>>)
      [] OTHER -> FoldTypes(TsTypes(n))
TsTypes(n) ==
    Each(NamedChildren(n), LAMBDA m :
        IF Kind(m) \in {"type_identifier", "nested_type_identifier", "generic_type"}
          THEN TsType(m) ELSE TsTypes(m))

TsAnnotatedType(n) == Each(ChildByFieldName(n, "type"), TsType)
TsReturnType(n) == Each(ChildByFieldName(n, "return_type"), TsType)

TsParameter(decl) ==
    ParameterOf(decl, Each(ChildByEitherName(decl, "name", "pattern"), TsBindingNames),
                TsAnnotatedType(decl))

\* An arrow function may have one bare identifier for its parameters.
TsParameters(decl) ==
    LET list == ChildByFieldName(decl, "parameters")
        bare == Wide(ChildByFieldName(decl, "parameter"))
    IN  IF list = <<>>
        THEN Each(bare, LAMBDA m : <<ASTFuncArgument(m, Symbols(<<m>>), <<>>)>>)
        ELSE Each(ChildrenOfKind(list[1], {"required_parameter", "optional_parameter"}),
                  TsParameter)

TsTypeParameters(decl) ==
    Each(ChildByFieldName(decl, "type_parameters"), LAMBDA list :
        Each(ChildrenOfKind(list, {"type_parameter"}), LAMBDA param :
            <<ASTFuncArgument(param, Symbols(Wide(ChildByFieldName(param, "name"))),
                Each(ChildByFieldName(param, "constraint"), TsType))>>))

\* A function, or a signature: that one has no body, and its block is as wide
\* as itself.
TsFunction(n, name) ==
    EmitAndWalkInto(ASTFuncExpression(n, name, TsTypeParameters(n) \o TsParameters(n),
                      TsReturnType(n), ChildByFieldName(n, "body"), <<>>))

\* What a class extends is an expression, a type only when it names one.
TsHeritageType(n) ==
    CASE Kind(n) = "identifier" ->
           Opt(hasSourceWidth(n), ASTTypeExpression(n, <<>>, <<>>))
      [] Kind(n) = "member_expression" ->
           LET object == Symbols(Wide(ChildByFieldName(n, "object")))
           IN  Each(Wide(ChildByFieldName(n, "property")),
                    LAMBDA m : <<ASTTypeExpression(m, object, <<>>)>>)
      [] OTHER -> <<>>

TsHeritage(class) ==
    LET extended(clause) ==
          LET given == Each(ChildByFieldName(clause, "type_arguments"), TsTypes)
          IN  Each(Each(ChildByFieldName(clause, "value"), TsHeritageType),
                   LAMBDA head : <<WithArguments(head, given)>>)
    IN  Each(NthChildByKind(class, "class_heritage", 0), LAMBDA heritage :
            Each(NamedChildren(heritage), LAMBDA clause :
                CASE Kind(clause) = "extends_clause" -> extended(clause)
                  [] Kind(clause) = "implements_clause" -> TsTypes(clause)
                  [] OTHER -> <<>>))

TsClass(n) ==
    EmitAndWalkInto(ASTFuncExpression(n, TsName(n), TsTypeParameters(n), <<>>,
                      ChildByFieldName(n, "body"), TsHeritage(n)))

\* A construct signature keeps what it returns under another field.
TsMethodSignature(n) ==
    LET returned == IF TsReturnType(n) = <<>> /\ Kind(n) = "construct_signature"
                    THEN TsAnnotatedType(n) ELSE TsReturnType(n)
    IN  ASTFuncExpression(n, TsName(n), TsTypeParameters(n) \o TsParameters(n),
                          returned, <<>>, <<>>)

TsTypeMembers(body) ==
    Each(NamedChildren(body), LAMBDA m :
        CASE Kind(m) = "property_signature" ->
               Opt(TsName(m) \o TsAnnotatedType(m) # <<>>,
                   ASTDeclaration(m, TsName(m), TsAnnotatedType(m), <<>>))
          [] Kind(m) \in {"method_signature", "call_signature",
                          "construct_signature"} -> <<TsMethodSignature(m)>>
          [] OTHER -> <<>>)

TsInterface(n) ==
    LET body == ChildByFieldName(n, "body")
    IN  Emit(<<ASTFuncExpression(n, TsName(n), TsTypeParameters(n), <<>>, body,
                 Each(NthChildByKind(n, "extends_type_clause", 0), TsTypes)
                   \o Each(body, TsTypeMembers))>>)

\* A bare member is only a name: a declaration would be of the same range.
TsEnumMembers(body) ==
    Each(NamedChildren(body), LAMBDA m :
        CASE Kind(m) = "property_identifier" -> Symbols(Wide(<<m>>))
          [] Kind(m) = "enum_assignment" ->
               Opt(TsName(m) # <<>>, ASTDeclaration(m, TsName(m), <<>>, <<>>))
          [] OTHER -> <<>>)

TsEnum(n) ==
    LET body == ChildByFieldName(n, "body")
        enum == ASTFuncExpression(n, TsName(n), <<>>, <<>>, body,
                                  Each(body, TsEnumMembers))
    IN  IF body = <<>> THEN Emit(<<enum>>) ELSE EmitAndWalkInto(enum)

\* An alias with members or type parameters is mapped like an interface.
TsTypeAlias(n) ==
    LET value == ChildByFieldName(n, "value")
        members == OfKind(value, {"object_type"})
        generic == ChildByFieldName(n, "type_parameters") # <<>>
    IN  Emit(<< IF value # <<>> /\ ~generic /\ members = <<>>
                THEN ASTDeclaration(n, TsName(n), Each(value, TsType), <<>>)
                ELSE ASTFuncExpression(n, TsName(n), TsTypeParameters(n), <<>>, value,
                       IF members = <<>> THEN Each(value, TsType)
                       ELSE Each(members, TsTypeMembers)) >>)

\* `import x = require("y")` has its source inside of the clause.
TsImport(n) ==
    LET clause  == NthChildByKind(n, "import_clause", 0)
        require == NthChildByKind(n, "import_require_clause", 0)
        own     == ChildByFieldName(n, "source")
        source  == Wide(IF own # <<>> THEN own
                        ELSE Each(require, LAMBDA c : ChildByFieldName(c, "source")))
        named   == SelectSeq(source, LAMBDA m :
                     Wide(NthChildByKind(m, "string_fragment", 0)) # <<>>)
        whole   == Each(clause, LAMBDA c : NthChildByKind(c, "namespace_import", 0))
        holder  == CASE whole # <<>> -> whole
                     [] clause # <<>> -> clause
                     [] OTHER -> require
        namespace == Wide(Each(holder, LAMBDA c : NthChildByKind(c, "identifier", 0)))
    IN  Each(named, LAMBDA m :
            <<ASTImportStatement(m, Symbols(namespace), Symbols(<<m>>))>>)

\* tsserver may answer a definition with the binding of an import, so each
\* binding has a symbol of its own.
TsImportBindings(n) ==
    LET lists == Each(NthChildByKind(n, "import_clause", 0),
                      LAMBDA c : NthChildByKind(c, "named_imports", 0))
        bound(spec) == Wide(OfKind(ChildByEitherName(spec, "alias", "name"),
                                   {"identifier"}))
    IN  Symbols(Each(lists, LAMBDA list :
                  Each(ChildrenOfKind(list, {"import_specifier"}), bound)))

TsEmitImport(n) ==
    Emit(TsImport(n) \o (IF TsImport(n) = <<>> THEN <<>> ELSE TsImportBindings(n)))

TsNamespace(n) ==
    IF ChildByFieldName(n, "name") = <<>> THEN WalkChildren  \* the keyword
    ELSE EmitAndWalkInto(ASTFuncExpression(n, TsName(n), <<>>, <<>>,
                           ChildByFieldName(n, "body"), <<>>))

TsDeclarator(n) ==
    EmitAndWalkInto(ASTDeclaration(n,
        Symbols(Each(ChildByFieldName(n, "name"), TsBindingNames)),
        TsAnnotatedType(n), <<>>))

TsField(n) ==
    EmitAndWalkInto(ASTDeclaration(n, TsName(n), TsAnnotatedType(n), <<>>))

\* How a CommonJS file imports: a call of a plain `require` on a string.
TsRequire(n, list) ==
    Each(NthChildByKind(list, "string", 0), LAMBDA m :
        Opt(hasSourceWidth(m) /\ Wide(NthChildByKind(m, "string_fragment", 0)) # <<>>,
            ASTImportStatement(m, <<>>, Symbols(<<m>>))))

TsCall(n) ==
    LET callee == ChildByEitherName(n, "function", "constructor")
        member == OfKind(callee, {"member_expression"})
        object == Wide(OfKind(Each(member, LAMBDA m : ChildByFieldName(m, "object")),
                              {"identifier"}))
        name == Wide(OfKind(callee, {"identifier"})
                       \o Each(member, LAMBDA m : ChildByFieldName(m, "property")))
        list == ChildByFieldName(n, "arguments")
        required == Kind(n) = "call_expression" /\ object = <<>>
                      /\ \A m \in ToSet(name) : Text(m) = "require"
        call == ASTCallExpression(n, Symbols(object), Symbols(name),
                  Each(list, LAMBDA m : CallArguments(m, TsIdentifiers)))
    IN  IF name = <<>> THEN WalkChildren
        ELSE Rule((IF required THEN Each(list, LAMBDA m : TsRequire(n, m)) ELSE <<>>)
                    \o <<call>>, <<>>, "emitted")

\* A loop variable on its own gets a symbol and no declaration, which would be
\* of the same range.
TsForIn(n) ==
    LET left == ChildByFieldName(n, "left")
        bare == OfKind(left, {"identifier"})
        names == Each(left, TsBindingNames)
    IN  EmitAndWalk(CASE bare # <<>> -> Symbols(Wide(bare))
                      [] names # <<>> ->
                           <<ASTDeclaration(left[1], Symbols(names), <<>>, <<>>)>>
                      [] OTHER -> <<>>)

TsReturn(n) ==
    EmitAndWalkInto(ASTReturnStatement(n, Symbols(ChildrenOfKind(n, {"identifier"}))))

TypescriptRule(under, n) ==
    CASE Kind(n) = "import_statement" -> TsEmitImport(n)
      [] Kind(n) = "export_statement" ->
           IF ChildByFieldName(n, "source") = <<>> THEN WalkChildren
           ELSE TsEmitImport(n)
      [] Kind(n) \in {"function_declaration", "generator_function_declaration",
                      "function_expression", "generator_function",
                      "function_signature", "method_definition", "method_signature",
                      "abstract_method_signature"} -> TsFunction(n, TsName(n))
      [] Kind(n) = "arrow_function" -> TsFunction(n, <<>>)
      [] Kind(n) \in {"class_declaration", "abstract_class_declaration"} -> TsClass(n)
      [] Kind(n) = "class" ->  \* the expression, or the keyword, which has no body
           IF ChildByFieldName(n, "body") = <<>> THEN WalkChildren ELSE TsClass(n)
      [] Kind(n) = "interface_declaration" -> TsInterface(n)
      [] Kind(n) = "enum_declaration" -> TsEnum(n)
      [] Kind(n) = "type_alias_declaration" -> TsTypeAlias(n)
      [] Kind(n) \in {"internal_module", "module"} -> TsNamespace(n)
      [] Kind(n) = "variable_declarator" -> TsDeclarator(n)
      [] Kind(n) = "public_field_definition" -> TsField(n)
      [] Kind(n) \in {"call_expression", "new_expression"} -> TsCall(n)
      [] Kind(n) = "for_in_statement" -> TsForIn(n)
      [] Kind(n) = "return_statement" -> TsReturn(n)
      [] Kind(n) \in {"type_annotation", "asserts_annotation",
                      "type_predicate_annotation", "type_arguments",
                      "type_parameters", "object_type", "comment"} -> Drop
      [] OTHER -> WalkChildren

\* Words that name nothing a node could be made of.
TsSkippableKeywords == {"new", "readonly", "this", "keyof", "typeof", "infer",
                        "predefined_type"}

\* Mutant: the first word is taken for a name even when it is a keyword.
TsFirstWord(range) == Span(Min(WordsWithin(range)))

\* tsserver answers a signature with all of it: the definition is the first name
\* in the range, or the whole signature when it has no name at all.
TsNormalizeDefinitionRange(range) ==
    LET names == {n \in WordsWithin(range) : Kind(n) \notin TsSkippableKeywords}
    IN  IF names = {} THEN range ELSE Span(Min(names))

=============================================================================
