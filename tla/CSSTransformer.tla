--------------------------- MODULE CSSTransformer ---------------------------
(* What pkg/languages/css/css_parser.go makes of a CSS syntax tree. *)
EXTENDS SyntaxTree

\* The first node of a kind, in the order of the document.
RECURSIVE CsFirstOfKind(_, _)
CsFirstOfKind(n, kind) ==
    IF Kind(n) = kind /\ hasSourceWidth(n) THEN <<n>>
    ELSE First(Each(NamedChildren(n), LAMBDA m : CsFirstOfKind(m, kind)))

\* The grammar spells the name of a pseudo-class like a class: neither that nor
\* what it is given names the rule.
RECURSIVE CsFirstName(_, _)
CsFirstName(n, kind) ==
    LET pseudo == Kind(n) \in {"pseudo_class_selector", "pseudo_element_selector"}
        kids == SelectSeq(NamedChildren(n),
                          LAMBDA m : ~(pseudo /\ Kind(m) \in {kind, "arguments"}))
    IN  IF Kind(n) = kind /\ hasSourceWidth(n) THEN <<n>>
        ELSE First(Each(kids, LAMBDA m : CsFirstName(m, kind)))

CsRuleName(selectors) ==
    Symbols(First(CsFirstName(selectors, "class_name")
                    \o CsFirstName(selectors, "id_name")))

CsIsVariableName(n) == hasSourceWidth(n) /\ Text(n) = "--"
CsVariables(nodes) == SelectSeq(nodes, CsIsVariableName)

CsRuleSet(n) ==
    EmitAndWalkInto(ASTFuncExpression(n,
        Each(NthChildByKind(n, "selectors", 0), CsRuleName), <<>>, <<>>,
        NthChildByKind(n, "block", 0), <<>>))

\* The declaration of a custom property is what var() refers to.
CsDeclaration(n) ==
    EmitAndWalk(Symbols(CsVariables(NthChildByKind(n, "property_name", 0))))

CsCall(n) ==
    LET function == NthChildByKind(n, "function_name", 0)
        list == NthChildByKind(n, "arguments", 0)
        name == First(CsVariables(Each(list,
                        LAMBDA m : ChildrenOfKind(m, {"plain_value"}))))
    IN  IF function = <<>> \/ name = <<>> THEN WalkChildren
        ELSE IF Text(function[1]) # "var" THEN WalkChildren
        ELSE EmitAndWalkInto(ASTCallExpression(n, <<>>, Symbols(name), <<>>))

\* A path in quotes is as wide as the quotes; one in url() may have none.
CsImport(n) ==
    LET quoted == CsFirstOfKind(n, "string_value")
        content == Wide(Each(quoted, LAMBDA m : NthChildByKind(m, "string_content", 0)))
        import(m) == Emit(<<ASTImportStatement(m, <<>>, <<ASTSymbol(m)>>)>>)
        plain == CsFirstOfKind(n, "plain_value")
    IN  CASE quoted # <<>> -> IF content = <<>> THEN Drop ELSE import(quoted[1])
          [] plain # <<>> /\ quoted = <<>> -> import(plain[1])
          [] OTHER -> Drop

CSSRule(under, n) ==
    CASE Kind(n) = "rule_set" -> CsRuleSet(n)
      [] Kind(n) = "declaration" -> CsDeclaration(n)
      [] Kind(n) = "call_expression" -> CsCall(n)
      [] Kind(n) = "import_statement" -> CsImport(n)
      [] Kind(n) = "comment" -> Drop
      [] OTHER -> WalkChildren

=============================================================================
