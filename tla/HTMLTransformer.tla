--------------------------- MODULE HTMLTransformer ---------------------------
(* What pkg/languages/html/html_parser.go makes of an HTML syntax tree. *)
EXTENDS SyntaxTree

HtOpeningTag(n) ==
    First(NthChildByKind(n, "start_tag", 0) \o NthChildByKind(n, "self_closing_tag", 0))

HtAttributes(tag) ==
    Each(ChildrenOfKind(tag, {"attribute"}), LAMBDA attr :
        <<ASTFuncArgument(attr,
            Symbols(Wide(NthChildByKind(attr, "attribute_name", 0))), <<>>)>>)

HtTagName(tag) == Symbols(Wide(NthChildByKind(tag, "tag_name", 0)))

\* An element has no one node between its tags: its block is the opening tag.
HtElement(n) ==
    EmitAndWalkInto(ASTFuncExpression(n,
        Each(HtOpeningTag(n), HtTagName), Each(HtOpeningTag(n), HtAttributes), <<>>,
        HtOpeningTag(n), <<>>))

HTMLRule(under, n) ==
    CASE Kind(n) \in {"element", "script_element", "style_element"} -> HtElement(n)
      [] Kind(n) \in {"start_tag", "self_closing_tag", "comment"} -> Drop
      [] OTHER -> WalkChildren

=============================================================================
