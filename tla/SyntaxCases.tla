----------------------------- MODULE SyntaxCases -----------------------------
(***************************************************************************)
(* Sources to parse, as the trees their grammars return for them. N is a   *)
(* node with children, L a named token, K an anonymous one, F puts a node  *)
(* under a field, T gives a token the words the source has there.  Q marks *)
(* the content of a string, which like a token with words of its own error *)
(* recovery never inserts; D a name that is declared, whether or not a     *)
(* transformer makes a node for it: the range a language server answers a  *)
(* definition with; A a node it answers one with although it is more than  *)
(* a name; C the name a call calls; S the node a function is.              *)
(***************************************************************************)
EXTENDS Sequences

N(kind, kids) ==
    [kind |-> kind, field |-> "", named |-> TRUE, text |-> "", role |-> "",
     kids |-> kids]
L(kind) == N(kind, <<>>)
K(text) == [N(text, <<>>) EXCEPT !.named = FALSE]
Q(kind) == [L(kind) EXCEPT !.role = "content"]
T(text, node) == [node EXCEPT !.text = text]
F(field, node) == [node EXCEPT !.field = field]
D(kind) == [L(kind) EXCEPT !.role = "declared"]
C(kind) == [L(kind) EXCEPT !.role = "callee"]
A(node) == [node EXCEPT !.role = "answered"]
S(kind, kids) == [N(kind, kids) EXCEPT !.role = "function"]

Files(language, trees) == {[language |-> language, tree |-> t] : t \in trees}

-----------------------------------------------------------------------------
(* Go *)

GoPlainCall(callee, args) ==
    N("call_expression",
      <<F("function", callee), F("arguments", N("argument_list", args))>>)

\* func f[T any](a, b p.M[K]) map[T]V { var v T = g(h(a)); return v.x().y(b) }
GoFunctionFile == N("source_file", <<
    N("package_clause", <<K("package"), L("package_identifier")>>),
    S("function_declaration", <<K("func"), F("name", D("identifier")),
      F("type_parameters", N("type_parameter_list", <<
        N("type_parameter_declaration", <<F("name", D("identifier")),
          F("type", N("type_constraint", <<L("type_identifier")>>))>>)>>)),
      F("parameters", N("parameter_list", <<K("("),
        N("parameter_declaration", <<F("name", D("identifier")), K(","),
          F("name", D("identifier")),
          F("type", N("generic_type", <<
            F("type", N("qualified_type", <<F("package", L("package_identifier")),
                        K("."), F("name", L("type_identifier"))>>)),
            F("type_arguments", N("type_arguments", <<
              N("type_elem", <<L("type_identifier")>>)>>))>>))>>)>>)),
      F("result", N("map_type", <<K("map"), F("key", L("type_identifier")),
                                  F("value", L("type_identifier"))>>)),
      F("body", N("block", <<K("{"),
        N("var_declaration", <<K("var"),
          N("var_spec", <<F("name", D("identifier")),
            F("type", L("type_identifier")),
            F("value", N("expression_list", <<
              GoPlainCall(C("identifier"),
                <<GoPlainCall(C("identifier"), <<L("identifier")>>)>>)>>))>>)>>),
        N("return_statement", <<K("return"),
          N("expression_list", <<
            GoPlainCall(N("selector_expression", <<
                F("operand", GoPlainCall(N("selector_expression",
                    <<F("operand", L("identifier")), K("."),
                      F("field", C("field_identifier"))>>), <<K("(")>>)),
                K("."), F("field", C("field_identifier"))>>),
              <<L("identifier")>>)>>)>>)>>))>>)>>)

\* type S struct { p.E; m func(x T); a, b int }
\* type ( I interface { M(a T) (R, error); ~U } )
GoTypesFile == N("source_file", <<
    N("type_declaration", <<K("type"),
      N("type_spec", <<F("name", D("type_identifier")),
        F("type", N("struct_type", <<K("struct"),
          N("field_declaration_list", <<
            N("field_declaration", <<
              F("type", N("qualified_type", <<F("package", L("package_identifier")),
                          F("name", L("type_identifier"))>>))>>),
            N("field_declaration", <<F("name", D("field_identifier")),
              F("type", N("function_type", <<K("func"),
                F("parameters", N("parameter_list", <<
                  N("parameter_declaration", <<F("name", D("identifier")),
                    F("type", L("type_identifier"))>>)>>))>>))>>),
            N("field_declaration", <<F("name", D("field_identifier")),
              F("name", D("field_identifier")),
              F("type", L("type_identifier"))>>)>>)>>))>>)>>),
    N("type_declaration", <<K("type"), K("("),
      N("type_spec", <<F("name", D("type_identifier")),
        F("type", N("interface_type", <<K("interface"),
          N("method_elem", <<F("name", D("field_identifier")),
            F("parameters", N("parameter_list", <<
              N("parameter_declaration", <<F("name", D("identifier")),
                F("type", L("type_identifier"))>>)>>)),
            F("result", N("parameter_list", <<K("("),
              N("parameter_declaration", <<F("type", L("type_identifier"))>>),
              N("parameter_declaration", <<F("type", L("type_identifier"))>>)>>))>>),
          N("type_elem", <<N("negated_type", <<K("~"), L("type_identifier")>>)>>)>>))>>),
      N("type_alias", <<F("name", D("type_identifier")), K("="),
        F("type", L("type_identifier"))>>)>>)>>)

\* import q "x/y"; func (r *R) f() (T, error) { defer func(a T) { g() }(h()); fns[i]() }
GoMethodFile == N("source_file", <<
    N("import_declaration", <<K("import"),
      N("import_spec", <<F("name", D("package_identifier")),
        F("path", N("interpreted_string_literal", <<K("\""),
                    Q("interpreted_string_literal_content")>>))>>)>>),
    S("method_declaration", <<K("func"),
      F("receiver", N("parameter_list", <<
        N("parameter_declaration", <<F("name", D("identifier")),
          F("type", N("pointer_type", <<K("*"), L("type_identifier")>>))>>)>>)),
      F("name", D("field_identifier")),
      F("parameters", N("parameter_list", <<K("(")>>)),
      F("result", N("parameter_list", <<K("("),
        N("parameter_declaration", <<F("type", L("type_identifier"))>>),
        N("parameter_declaration", <<F("type", L("type_identifier"))>>)>>)),
      F("body", N("block", <<K("{"),
        N("defer_statement", <<K("defer"),
          GoPlainCall(S("func_literal", <<K("func"),
              F("parameters", N("parameter_list", <<
                N("parameter_declaration", <<F("name", D("identifier")),
                  F("type", L("type_identifier"))>>)>>)),
              F("body", N("block", <<K("{"), GoPlainCall(C("identifier"), <<>>)>>))>>),
            <<GoPlainCall(C("identifier"), <<>>)>>)>>),
        GoPlainCall(N("index_expression", <<L("identifier"), L("identifier")>>),
                    <<>>)>>))>>)>>)

\* package p; const c = d; type A [len(c)]B
\* func f() { g := h(); for i := range g { h() } }
GoShortVarFile == N("source_file", <<
    N("package_clause", <<K("package"), L("package_identifier")>>),
    N("const_declaration", <<K("const"),
      N("const_spec", <<F("name", D("identifier")), K("="),
        F("value", N("expression_list", <<L("identifier")>>))>>)>>),
    N("type_declaration", <<K("type"),
      N("type_spec", <<F("name", D("type_identifier")),
        F("type", N("array_type", <<K("["),
          F("length", GoPlainCall(C("identifier"), <<L("identifier")>>)), K("]"),
          F("element", L("type_identifier"))>>))>>)>>),
    S("function_declaration", <<K("func"), F("name", D("identifier")),
      F("parameters", N("parameter_list", <<K("("), K(")")>>)),
      F("body", N("block", <<K("{"),
        N("short_var_declaration", <<
          F("left", N("expression_list", <<D("identifier")>>)), K(":="),
          F("right", N("expression_list", <<GoPlainCall(C("identifier"), <<>>)>>))>>),
        N("for_statement", <<K("for"),
          N("range_clause", <<F("left", N("expression_list", <<D("identifier")>>)),
            K(":="), K("range"), F("right", L("identifier"))>>),
          F("body", N("block", <<K("{"), GoPlainCall(C("identifier"), <<>>),
                                 K("}")>>))>>), K("}")>>))>>)>>)

\* package p // c
\* type F func(a T)
\* func v(a ...T) { var ( x, y = w(a...); z U ); return x }
GoVariadicFile == N("source_file", <<
    N("package_clause", <<K("package"), L("package_identifier")>>), Q("comment"),
    N("type_declaration", <<K("type"),
      N("type_spec", <<F("name", D("type_identifier")),
        F("type", N("function_type", <<K("func"),
          F("parameters", N("parameter_list", <<K("("),
            N("parameter_declaration", <<F("name", D("identifier")),
              F("type", L("type_identifier"))>>)>>))>>))>>)>>),
    S("function_declaration", <<K("func"), F("name", D("identifier")),
      F("parameters", N("parameter_list", <<K("("),
        N("variadic_parameter_declaration", <<F("name", D("identifier")), K("..."),
          F("type", L("type_identifier"))>>), K(")")>>)),
      F("body", N("block", <<K("{"),
        N("var_declaration", <<K("var"), N("var_spec_list", <<K("("),
          N("var_spec", <<F("name", D("identifier")), K(","),
            F("name", D("identifier")), K("="),
            F("value", N("expression_list", <<
              GoPlainCall(C("identifier"),
                <<N("variadic_argument", <<L("identifier"), K("...")>>)>>)>>))>>),
          N("var_spec", <<F("name", D("identifier")),
            F("type", L("type_identifier"))>>)>>)>>),
        N("return_statement", <<K("return"),
          N("expression_list", <<L("identifier")>>)>>)>>))>>)>>)

GoFiles ==
    Files("go", {GoFunctionFile, GoTypesFile, GoMethodFile, GoShortVarFile,
                 GoVariadicFile})

-----------------------------------------------------------------------------
(* Python *)

PyPlainCall(callee, args) ==
    N("call", <<F("function", callee), F("arguments", N("argument_list", args))>>)
PyAnnotation(name) == N("type", <<L(name)>>)

\* @d(1)
\* class K[T: B](m.Base):
\*     def f(self, a: Annotated[p.T, g()] = h(), *rest) -> list[U]: return self.x().y(lambda z: k(z))
PyClassFile == N("module", <<
    N("decorated_definition", <<
      N("decorator", <<K("@"), PyPlainCall(C("identifier"), <<L("integer")>>)>>),
      F("definition", S("class_definition", <<K("class"), F("name", D("identifier")),
        F("type_parameters", A(N("type_parameter", <<K("["),
          N("type", <<N("constrained_type", <<N("type", <<D("identifier")>>), K(":"),
                                              PyAnnotation("identifier")>>)>>)>>))),
        F("superclasses", N("argument_list", <<
          N("attribute", <<F("object", L("identifier")), K("."),
                           F("attribute", L("identifier"))>>)>>)),
        F("body", N("block", <<
          S("function_definition", <<K("def"), F("name", D("identifier")),
            F("parameters", N("parameters", <<D("identifier"),
              A(N("typed_default_parameter", <<F("name", D("identifier")),
                F("type", N("type", <<N("generic_type", <<L("identifier"),
                  N("type_parameter", <<
                    N("type", <<N("attribute", <<F("object", L("identifier")),
                                 K("."), F("attribute", L("identifier"))>>)>>),
                    N("type", <<PyPlainCall(C("identifier"), <<K("(")>>)>>)>>)>>)>>)),
                F("value", PyPlainCall(C("identifier"), <<K("(")>>))>>)),
              A(N("list_splat_pattern", <<K("*"), D("identifier")>>))>>)),
            F("return_type", N("type", <<N("generic_type", <<L("identifier"),
              N("type_parameter", <<PyAnnotation("identifier")>>)>>)>>)),
            F("body", N("block", <<
              N("return_statement", <<K("return"),
                PyPlainCall(N("attribute", <<
                    F("object", PyPlainCall(N("attribute",
                      <<F("object", L("identifier")), K("."),
                        F("attribute", C("identifier"))>>), <<K("(")>>)),
                    K("."), F("attribute", C("identifier"))>>),
                  <<S("lambda", <<K("lambda"),
                      F("parameters", N("lambda_parameters", <<D("identifier")>>)),
                      F("body", PyPlainCall(C("identifier"),
                                            <<L("identifier")>>))>>)>>)>>)>>))>>)>>))>>))>>)>>)

\* import a as b; from .m import *
\* x, o.y = f(); type A[T] = Annotated[T, g()]
\* for i, j in g(): pass
\* with h() as w: (v := k())
\* match w: case u: pass
PyBindingsFile == N("module", <<
    N("import_statement", <<K("import"), F("name", N("aliased_import", <<
      F("name", N("dotted_name", <<L("identifier")>>)), K("as"),
      F("alias", D("identifier"))>>))>>),
    N("import_from_statement", <<K("from"), F("module_name", N("relative_import",
      <<L("import_prefix"), N("dotted_name", <<L("identifier")>>)>>)),
      L("wildcard_import")>>),
    N("expression_statement", <<N("assignment", <<
      F("left", N("pattern_list", <<D("identifier"),
        N("attribute", <<F("object", L("identifier")), K("."),
                         F("attribute", D("identifier"))>>)>>)), K("="),
      F("right", PyPlainCall(C("identifier"), <<K("(")>>))>>)>>),
    N("type_alias_statement", <<K("type"),
      F("left", N("type", <<N("generic_type", <<D("identifier"),
        N("type_parameter", <<N("type", <<D("identifier")>>)>>)>>)>>)),
      F("right", N("type", <<N("generic_type", <<L("identifier"),
        N("type_parameter", <<PyAnnotation("identifier"), K(","),
          N("type", <<PyPlainCall(C("identifier"), <<K("(")>>)>>)>>)>>)>>))>>),
    N("for_statement", <<K("for"),
      F("left", N("pattern_list", <<D("identifier"), D("identifier")>>)),
      F("right", PyPlainCall(C("identifier"), <<K("(")>>)),
      F("body", N("block", <<L("pass_statement")>>))>>),
    N("with_statement", <<K("with"),
      N("with_clause", <<N("with_item", <<F("value", N("as_pattern", <<
        PyPlainCall(C("identifier"), <<K("(")>>), K("as"),
        F("alias", N("as_pattern_target", <<D("identifier")>>))>>))>>)>>),
      F("body", N("block", <<N("named_expression", <<F("name", D("identifier")),
        F("value", PyPlainCall(C("identifier"), <<K("(")>>))>>)>>))>>),
    N("match_statement", <<K("match"), F("subject", L("identifier")), K(":"),
      F("body", N("block", <<F("alternative", N("case_clause", <<K("case"),
        N("case_pattern", <<N("dotted_name", <<D("identifier")>>)>>), K(":"),
        F("consequence", N("block", <<L("pass_statement")>>))>>))>>))>>)>>)

\* from __future__ import z
\* class K[*T]: pass
\* def f(a: A, b=g(), *, c: B, **d):
\*     [e, *h] = [i(j) for j in k()]
\*     l[m()] = lambda: o()
PyParametersFile == N("module", <<
    N("future_import_statement", <<K("from"), K("__future__"), K("import"),
      F("name", N("dotted_name", <<L("identifier")>>))>>),
    S("class_definition", <<K("class"), F("name", D("identifier")),
      F("type_parameters", A(N("type_parameter", <<K("["),
        N("type", <<N("splat_type", <<K("*"), D("identifier")>>)>>)>>))),
      F("body", N("block", <<L("pass_statement")>>))>>),
    S("function_definition", <<K("def"), F("name", D("identifier")),
      F("parameters", N("parameters", <<K("("),
        A(N("typed_parameter", <<D("identifier"), K(":"),
                                 F("type", PyAnnotation("identifier"))>>)), K(","),
        A(N("default_parameter", <<F("name", D("identifier")), K("="),
          F("value", PyPlainCall(C("identifier"), <<>>))>>)), K(","),
        N("keyword_separator", <<K("*")>>), K(","),
        A(N("typed_parameter", <<D("identifier"), K(":"),
                                 F("type", PyAnnotation("identifier"))>>)), K(","),
        A(N("dictionary_splat_pattern", <<K("**"), D("identifier")>>)), K(")")>>)),
      F("body", N("block", <<
        N("expression_statement", <<N("assignment", <<
          F("left", N("list_pattern", <<K("["), D("identifier"), K(","),
            N("list_splat_pattern", <<K("*"), D("identifier")>>), K("]")>>)), K("="),
          F("right", N("list_comprehension", <<K("["),
            F("body", PyPlainCall(C("identifier"), <<L("identifier")>>)),
            N("for_in_clause", <<K("for"), F("left", D("identifier")), K("in"),
              F("right", PyPlainCall(C("identifier"), <<>>))>>), K("]")>>))>>)>>),
        N("expression_statement", <<N("assignment", <<
          F("left", N("subscript", <<F("value", L("identifier")), K("["),
            F("subscript", PyPlainCall(C("identifier"), <<>>)), K("]")>>)), K("="),
          F("right", S("lambda", <<K("lambda"), K(":"),
            F("body", PyPlainCall(C("identifier"), <<>>))>>))>>)>>)>>))>>)>>)

PythonFiles == Files("python", {PyClassFile, PyBindingsFile, PyParametersFile})

-----------------------------------------------------------------------------
(* TypeScript *)

TsPlainCall(callee, args) ==
    N("call_expression",
      <<F("function", callee), F("arguments", N("arguments", args))>>)
TsMember(object, property) ==
    N("member_expression", <<F("object", object), K("."), F("property", property)>>)
TsAnnotation(type) == F("type", N("type_annotation", <<K(":"), type>>))
TsResult(type) == F("return_type", N("type_annotation", <<K(":"), type>>))
TsParam(name, rest) ==
    N("required_parameter", <<F("pattern", name)>> \o rest)

\* import d, { a as b, c } from "x"
\* @e(1) class K<T extends B> extends ns.M<A> implements I {
\*   f: T = g(); m(x: n.P<Q>, y): R { return x } }
\* class L extends mix(B) { o(): void }
TsClassFile == N("program", <<
    N("import_statement", <<K("import"),
      N("import_clause", <<D("identifier"), K(","),
        N("named_imports", <<
          N("import_specifier", <<F("name", L("identifier")), K("as"),
                                  F("alias", D("identifier"))>>),
          N("import_specifier", <<F("name", D("identifier"))>>)>>)>>),
      F("source", N("string", <<K("\""), Q("string_fragment"), K("\"")>>))>>),
    S("class_declaration", <<
      F("decorator", N("decorator", <<K("@"),
        TsPlainCall(C("identifier"), <<L("number")>>)>>)),
      K("class"), F("name", D("type_identifier")),
      F("type_parameters", N("type_parameters", <<
        N("type_parameter", <<F("name", D("type_identifier")),
          F("constraint", N("constraint", <<K("extends"),
                                            L("type_identifier")>>))>>)>>)),
      N("class_heritage", <<
        N("extends_clause", <<K("extends"),
          F("value", TsMember(L("identifier"), L("property_identifier"))),
          F("type_arguments", N("type_arguments", <<L("type_identifier")>>))>>),
        N("implements_clause", <<K("implements"), L("type_identifier")>>)>>),
      F("body", N("class_body", <<K("{"),
        N("public_field_definition", <<F("name", D("property_identifier")),
          TsAnnotation(L("type_identifier")), K("="),
          F("value", TsPlainCall(C("identifier"), <<K("(")>>))>>),
        S("method_definition", <<F("name", D("property_identifier")),
          F("parameters", N("formal_parameters", <<K("("),
            TsParam(D("identifier"), <<TsAnnotation(N("generic_type", <<
              F("name", N("nested_type_identifier",
                <<F("module", L("identifier")), F("name", L("type_identifier"))>>)),
              F("type_arguments", N("type_arguments", <<L("type_identifier")>>))>>))>>),
            TsParam(D("identifier"), <<>>)>>)),
          TsResult(L("type_identifier")),
          F("body", N("statement_block", <<K("{"),
            N("return_statement", <<K("return"), L("identifier")>>)>>))>>)>>))>>),
    S("class_declaration", <<K("class"), F("name", D("type_identifier")),
      N("class_heritage", <<N("extends_clause", <<K("extends"),
        F("value", TsPlainCall(C("identifier"), <<L("identifier")>>))>>)>>),
      F("body", N("class_body", <<
        S("method_signature", <<F("name", D("property_identifier")),
          F("parameters", N("formal_parameters", <<K("(")>>)),
          TsResult(L("predefined_type"))>>)>>))>>)>>)

\* function f({ a, b: c }: T[], ...d) {
\*   const [x = h()] = k(y => z(y), d); const r = require("q")
\*   for (const i of x) { i().m(() => { for (const [j] of w()) {} }) } }
TsFunctionFile == N("program", <<
    S("function_declaration", <<K("function"), F("name", D("identifier")),
      F("parameters", N("formal_parameters", <<K("("),
        TsParam(N("object_pattern", <<D("shorthand_property_identifier_pattern"),
            N("pair_pattern", <<F("key", L("property_identifier")), K(":"),
                                F("value", D("identifier"))>>)>>),
          <<TsAnnotation(N("array_type", <<L("type_identifier"), K("[]")>>))>>),
        TsParam(N("rest_pattern", <<K("..."), D("identifier")>>), <<>>)>>)),
      F("body", N("statement_block", <<K("{"),
        N("lexical_declaration", <<K("const"), N("variable_declarator", <<
          F("name", N("array_pattern", <<N("assignment_pattern", <<
            F("left", D("identifier")), K("="),
            F("right", TsPlainCall(C("identifier"), <<>>))>>)>>)), K("="),
          F("value", TsPlainCall(C("identifier"), <<
            S("arrow_function", <<F("parameter", D("identifier")), K("=>"),
              F("body", TsPlainCall(C("identifier"), <<L("identifier")>>))>>),
            L("identifier")>>))>>)>>),
        N("lexical_declaration", <<K("const"), N("variable_declarator", <<
          F("name", D("identifier")), K("="),
          F("value", TsPlainCall(T("require", C("identifier")), <<
            N("string", <<K("\""), Q("string_fragment")>>)>>))>>)>>),
        N("for_in_statement", <<K("for"), F("left", D("identifier")),
          F("right", L("identifier")),
          F("body", N("statement_block", <<
            TsPlainCall(TsMember(TsPlainCall(C("identifier"), <<>>),
                                 C("property_identifier")),
              <<S("arrow_function", <<
                  F("parameters", N("formal_parameters", <<K("(")>>)), K("=>"),
                  F("body", N("statement_block", <<K("{"),
                    N("for_in_statement", <<K("for"),
                      F("left", N("array_pattern", <<K("["), D("identifier")>>)),
                      F("right", TsPlainCall(C("identifier"), <<K("(")>>)),
                      F("body", N("statement_block", <<K("{")>>))>>)>>))>>)>>)>>))>>)>>))>>)>>)

\* interface I<T> extends J<U> { p: A; m(x: B): void; (): void; <X>(y: V); new (): R }
\* type G<V> = { b: V }; type H = C | D; type E<W> = W
\* enum Z { X, Y = f() }; namespace N { s() }; export * from "z"
TsTypesFile == N("program", <<
    N("interface_declaration", <<K("interface"), F("name", D("type_identifier")),
      F("type_parameters", N("type_parameters", <<
        N("type_parameter", <<F("name", D("type_identifier"))>>)>>)),
      N("extends_type_clause", <<K("extends"), F("type", N("generic_type", <<
        F("name", L("type_identifier")),
        F("type_arguments", N("type_arguments", <<L("type_identifier")>>))>>))>>),
      F("body", N("interface_body", <<
        N("property_signature", <<F("name", D("property_identifier")),
          TsAnnotation(L("type_identifier"))>>),
        N("method_signature", <<F("name", D("property_identifier")),
          F("parameters", N("formal_parameters", <<
            TsParam(D("identifier"), <<TsAnnotation(L("type_identifier"))>>)>>)),
          TsResult(L("predefined_type"))>>),
        A(N("call_signature", <<F("parameters", N("formal_parameters", <<K("(")>>)),
            TsResult(L("predefined_type"))>>)),
        A(N("call_signature", <<
          F("type_parameters", N("type_parameters", <<K("<"),
            N("type_parameter", <<F("name", D("type_identifier"))>>)>>)),
          F("parameters", N("formal_parameters", <<K("("),
            TsParam(D("identifier"), <<TsAnnotation(L("type_identifier"))>>)>>))>>)),
        A(N("construct_signature", <<K("new"),
          F("parameters", N("formal_parameters", <<K("(")>>)),
          TsAnnotation(L("type_identifier"))>>))>>))>>),
    N("type_alias_declaration", <<K("type"), F("name", D("type_identifier")),
      F("type_parameters", N("type_parameters", <<
        N("type_parameter", <<F("name", D("type_identifier"))>>)>>)), K("="),
      F("value", N("object_type", <<
        N("property_signature", <<F("name", D("property_identifier")),
          TsAnnotation(L("type_identifier"))>>)>>))>>),
    N("type_alias_declaration", <<K("type"), F("name", D("type_identifier")), K("="),
      F("value", N("union_type", <<L("type_identifier"), K("|"),
                                   L("type_identifier")>>))>>),
    N("type_alias_declaration", <<K("type"), F("name", D("type_identifier")),
      F("type_parameters", N("type_parameters", <<
        N("type_parameter", <<F("name", D("type_identifier"))>>)>>)), K("="),
      F("value", L("type_identifier"))>>),
    S("enum_declaration", <<K("enum"), F("name", D("identifier")),
      F("body", N("enum_body", <<F("name", D("property_identifier")), K(","),
        N("enum_assignment", <<F("name", D("property_identifier")), K("="),
          F("value", TsPlainCall(C("identifier"), <<K("(")>>))>>)>>))>>),
    N("expression_statement", <<S("internal_module", <<K("namespace"),
      F("name", D("identifier")),
      F("body", N("statement_block", <<K("{"),
        TsPlainCall(C("identifier"), <<>>)>>))>>)>>),
    N("export_statement", <<K("export"), K("*"), K("from"),
      F("source", N("string", <<K("\""), Q("string_fragment")>>))>>)>>)

\* import * as a from "b"; import c = require("d") // e
\* abstract class F { #g = h(); constructor(readonly i: J) {}
\*   abstract k(l: M): asserts l is N; *o() { new p.Q(r()) } }
\* function* s({ t = u(), ...v }) { yield function () { w() } }
TsModifiersFile == N("program", <<
    N("import_statement", <<K("import"),
      N("import_clause", <<N("namespace_import", <<K("*"), K("as"), D("identifier")>>)>>),
      K("from"), F("source", N("string", <<K("\""), Q("string_fragment")>>))>>),
    N("import_statement", <<K("import"),
      N("import_require_clause", <<D("identifier"), K("="), K("require"),
        F("source", N("string", <<K("\""), Q("string_fragment")>>))>>)>>), Q("comment"),
    S("abstract_class_declaration", <<K("abstract"), K("class"),
      F("name", D("type_identifier")),
      F("body", N("class_body", <<K("{"),
        N("public_field_definition", <<F("name", D("private_property_identifier")),
          K("="), F("value", TsPlainCall(C("identifier"), <<>>))>>),
        S("method_definition", <<F("name", T("constructor", D("property_identifier"))),
          F("parameters", N("formal_parameters", <<K("("),
            N("required_parameter", <<K("readonly"), F("pattern", D("identifier")),
              TsAnnotation(L("type_identifier"))>>)>>)),
          F("body", N("statement_block", <<K("{}")>>))>>),
        S("abstract_method_signature", <<K("abstract"),
          F("name", D("property_identifier")),
          F("parameters", N("formal_parameters", <<K("("),
            TsParam(D("identifier"), <<TsAnnotation(L("type_identifier"))>>)>>)),
          F("return_type", N("asserts_annotation", <<K(":"),
            N("asserts", <<K("asserts"), N("type_predicate", <<
              F("name", L("identifier")), K("is"),
              F("type", L("type_identifier"))>>)>>)>>))>>),
        S("method_definition", <<K("*"), F("name", D("property_identifier")),
          F("parameters", N("formal_parameters", <<K("(")>>)),
          F("body", N("statement_block", <<K("{"),
            N("new_expression", <<K("new"),
              F("constructor", TsMember(L("identifier"), C("property_identifier"))),
              F("arguments", N("arguments", <<K("("),
                TsPlainCall(C("identifier"), <<>>)>>))>>)>>))>>)>>))>>),
    S("generator_function_declaration", <<K("function"), K("*"),
      F("name", D("identifier")),
      F("parameters", N("formal_parameters", <<K("("),
        TsParam(N("object_pattern", <<
          N("object_assignment_pattern", <<
            F("left", D("shorthand_property_identifier_pattern")), K("="),
            F("right", TsPlainCall(C("identifier"), <<>>))>>), K(","),
          N("rest_pattern", <<K("..."), D("identifier")>>)>>), <<>>)>>)),
      F("body", N("statement_block", <<K("{"),
        N("yield_expression", <<K("yield"),
          S("function_expression", <<K("function"),
            F("parameters", N("formal_parameters", <<K("(")>>)),
            F("body", N("statement_block", <<K("{"),
              TsPlainCall(C("identifier"), <<>>)>>))>>)>>)>>))>>)>>)

\* interface A { (this: B): C; new (): readonly D[]; (): keyof E }
\* type F = G extends infer H ? typeof i : J
\* function k(l: any): l is M
\* const n = class { p() {} }, q = function* () { new R }
\* try { s() } catch (t) {}
TsOperatorsFile == N("program", <<
    N("interface_declaration", <<K("interface"), F("name", D("type_identifier")),
      F("body", N("interface_body", <<
        A(N("call_signature", <<F("parameters", N("formal_parameters", <<K("("),
              TsParam(L("this"), <<TsAnnotation(L("type_identifier"))>>)>>)),
            TsResult(L("type_identifier"))>>)),
        A(N("construct_signature", <<K("new"),
          F("parameters", N("formal_parameters", <<K("(")>>)),
          TsAnnotation(N("readonly_type", <<K("readonly"),
            N("array_type", <<L("type_identifier"), K("[]")>>)>>))>>)),
        A(N("call_signature", <<F("parameters", N("formal_parameters", <<K("(")>>)),
          TsResult(N("index_type_query",
                     <<K("keyof"), L("type_identifier")>>))>>))>>))>>),
    N("type_alias_declaration", <<K("type"), F("name", D("type_identifier")), K("="),
      F("value", N("conditional_type", <<F("left", L("type_identifier")), K("extends"),
        F("right", N("infer_type", <<K("infer"), L("type_identifier")>>)), K("?"),
        F("consequence", N("type_query", <<K("typeof"), L("identifier")>>)), K(":"),
        F("alternative", L("type_identifier"))>>))>>),
    S("function_signature", <<K("function"), F("name", D("identifier")),
      F("parameters", N("formal_parameters", <<K("("),
        TsParam(D("identifier"), <<TsAnnotation(L("predefined_type"))>>)>>)),
      F("return_type", N("type_predicate_annotation", <<K(":"), N("type_predicate", <<
        F("name", L("identifier")), K("is"), F("type", L("type_identifier"))>>)>>))>>),
    N("lexical_declaration", <<K("const"),
      N("variable_declarator", <<F("name", D("identifier")), K("="),
        F("value", S("class", <<K("class"),
          F("body", N("class_body", <<K("{"),
            S("method_definition", <<F("name", D("property_identifier")),
              F("parameters", N("formal_parameters", <<K("(")>>)),
              F("body", N("statement_block", <<K("{}")>>))>>)>>))>>))>>), K(","),
      N("variable_declarator", <<F("name", D("identifier")), K("="),
        F("value", S("generator_function", <<K("function"), K("*"),
          F("parameters", N("formal_parameters", <<K("(")>>)),
          F("body", N("statement_block", <<K("{"),
            N("new_expression", <<K("new"),
              F("constructor", C("identifier"))>>)>>))>>))>>)>>),
    N("try_statement", <<K("try"),
      F("body", N("statement_block", <<K("{"), TsPlainCall(C("identifier"), <<>>)>>)),
      F("handler", N("catch_clause", <<K("catch"), F("parameter", D("identifier")),
        F("body", N("statement_block", <<K("{}")>>))>>))>>)>>)

TypescriptFiles ==
    Files("typescript", {TsClassFile, TsFunctionFile, TsTypesFile, TsModifiersFile,
                         TsOperatorsFile})

-----------------------------------------------------------------------------
(* C and C++ *)

CcPlainCall(callee, args) ==
    N("call_expression", <<F("function", callee),
                           F("arguments", N("argument_list", <<K("(")>> \o args))>>)
CcDeclarator(d) == F("declarator", d)
CcParam(type, d) == N("parameter_declaration", <<F("type", type), CcDeclarator(d)>>)
CcParams(params) == F("parameters", N("parameter_list", <<K("(")>> \o params))
CcPointer(d) == N("pointer_declarator", <<K("*"), CcDeclarator(d)>>)

\* #include "x.h"
\* #define M(a) a
\* typedef struct S { T *p; void (*cb)(U); } S, *P;
\* enum E { A, B = 1 }; struct F;
\* struct G { V n; } g = h();
CHeaderFile == N("translation_unit", <<
    N("preproc_include", <<K("#include"),
      F("path", N("string_literal", <<K("\""), Q("string_content")>>))>>),
    N("preproc_function_def", <<K("#define"), F("name", D("identifier")),
      F("parameters", N("preproc_params", <<D("identifier")>>)),
      F("value", Q("preproc_arg"))>>),
    S("type_definition", <<K("typedef"),
      F("type", N("struct_specifier", <<K("struct"), F("name", D("type_identifier")),
        F("body", N("field_declaration_list", <<K("{"),
          N("field_declaration", <<F("type", L("type_identifier")),
            CcDeclarator(CcPointer(D("field_identifier")))>>),
          N("field_declaration", <<F("type", L("primitive_type")),
            CcDeclarator(N("function_declarator", <<
              CcDeclarator(N("parenthesized_declarator", <<K("("),
                CcPointer(D("field_identifier"))>>)),
              CcParams(<<N("parameter_declaration",
                           <<F("type", L("type_identifier"))>>)>>)>>))>>)>>))>>)),
      CcDeclarator(D("type_identifier")), K(","),
      CcDeclarator(CcPointer(D("type_identifier")))>>),
    S("enum_specifier", <<K("enum"), F("name", D("type_identifier")),
      F("body", N("enumerator_list", <<K("{"),
        N("enumerator", <<F("name", D("identifier"))>>), K(","),
        N("enumerator", <<F("name", D("identifier")), K("="),
          F("value", L("number_literal"))>>)>>))>>),
    N("struct_specifier", <<K("struct"), F("name", D("type_identifier"))>>),
    N("declaration", <<
      F("type", S("struct_specifier", <<K("struct"), F("name", D("type_identifier")),
        F("body", N("field_declaration_list", <<K("{"),
          N("field_declaration", <<F("type", L("type_identifier")),
            CcDeclarator(D("field_identifier")), K(";")>>)>>))>>)),
      CcDeclarator(N("init_declarator", <<CcDeclarator(D("identifier")), K("="),
        F("value", CcPlainCall(C("identifier"), <<>>))>>))>>)>>)

\* int p(struct S *s, T);
\* static T *q(T t[]) { T a = f(b), *c; s->m(g(a))->k(); return a; }
CSourceFile == N("translation_unit", <<
    S("declaration", <<F("type", L("primitive_type")),
      CcDeclarator(N("function_declarator", <<CcDeclarator(D("identifier")),
        CcParams(<<
          CcParam(N("struct_specifier", <<K("struct"), F("name", L("type_identifier"))>>),
                  CcPointer(D("identifier"))),
          N("parameter_declaration", <<F("type", L("type_identifier"))>>)>>)>>)),
      K(";")>>),
    S("function_definition", <<L("storage_class_specifier"),
      F("type", L("type_identifier")),
      CcDeclarator(CcPointer(N("function_declarator", <<CcDeclarator(D("identifier")),
        CcParams(<<CcParam(L("type_identifier"), N("array_declarator", <<
          CcDeclarator(D("identifier")), K("[]")>>))>>)>>))),
      F("body", N("compound_statement", <<K("{"),
        N("declaration", <<F("type", L("type_identifier")),
          CcDeclarator(N("init_declarator", <<CcDeclarator(D("identifier")), K("="),
            F("value", CcPlainCall(C("identifier"), <<L("identifier")>>))>>)),
          CcDeclarator(CcPointer(D("identifier")))>>),
        N("expression_statement", <<
          CcPlainCall(N("field_expression", <<
            F("argument", CcPlainCall(N("field_expression", <<
                F("argument", L("identifier")), K("->"),
                F("field", C("field_identifier"))>>),
              <<CcPlainCall(C("identifier"), <<L("identifier")>>)>>)), K("->"),
            F("field", C("field_identifier"))>>), <<>>), K(";")>>),
        N("return_statement", <<K("return"), L("identifier"), K(";")>>)>>))>>)>>)

\* namespace a::b {
\*   template<class T, int N = f()> class K : public L<T>, c::d::M {
\*     K() : x(g()) {} ~K(); T y = h(); };
\*   template<typename T> using V = W<T>;
\*   using U = c::X; }
CClassFile == N("translation_unit", <<
    S("namespace_definition", <<K("namespace"),
      F("name", N("nested_namespace_specifier",
        <<L("namespace_identifier"), K("::"), D("namespace_identifier")>>)),
      F("body", N("declaration_list", <<K("{"),
        S("template_declaration", <<K("template"),
          F("parameters", N("template_parameter_list", <<
            N("type_parameter_declaration", <<K("class"), D("type_identifier")>>),
            N("optional_parameter_declaration", <<F("type", L("primitive_type")),
              CcDeclarator(D("identifier")), K("="),
              F("default_value", CcPlainCall(C("identifier"), <<>>))>>)>>)),
          N("class_specifier", <<K("class"), F("name", D("type_identifier")),
            N("base_class_clause", <<K(":"), L("access_specifier"),
              N("template_type", <<F("name", L("type_identifier")),
                F("arguments", N("template_argument_list", <<
                  N("type_descriptor", <<F("type", L("type_identifier"))>>)>>))>>),
              N("qualified_identifier", <<F("scope", L("namespace_identifier")), K("::"),
                F("name", N("qualified_identifier", <<
                  F("scope", L("namespace_identifier")), K("::"),
                  F("name", L("type_identifier"))>>))>>)>>),
            F("body", N("field_declaration_list", <<K("{"),
              S("function_definition", <<
                CcDeclarator(N("function_declarator",
                  <<CcDeclarator(D("identifier")), CcParams(<<>>)>>)),
                N("field_initializer_list", <<K(":"), N("field_initializer", <<
                  L("field_identifier"), N("argument_list", <<
                    CcPlainCall(C("identifier"), <<>>)>>)>>)>>),
                F("body", N("compound_statement", <<K("{}")>>))>>),
              S("declaration", <<
                CcDeclarator(N("function_declarator", <<
                  CcDeclarator([N("destructor_name", <<K("~"), L("identifier")>>)
                                  EXCEPT !.role = "declared"]),
                  CcParams(<<>>)>>)), K(";")>>),
              N("field_declaration", <<F("type", L("type_identifier")),
                CcDeclarator(D("field_identifier")), K("="),
                F("default_value", CcPlainCall(C("identifier"), <<>>))>>)>>))>>)>>),
        S("template_declaration", <<K("template"),
          F("parameters", N("template_parameter_list", <<
            N("type_parameter_declaration", <<K("typename"), D("type_identifier")>>)>>)),
          N("alias_declaration", <<K("using"), F("name", D("type_identifier")), K("="),
            F("type", N("type_descriptor", <<F("type", N("template_type", <<
              F("name", L("type_identifier")),
              F("arguments", N("template_argument_list", <<
                N("type_descriptor", <<F("type", L("type_identifier"))>>)>>))>>))>>))>>)>>),
        N("alias_declaration", <<K("using"), F("name", D("type_identifier")), K("="),
          F("type", N("type_descriptor", <<F("type", N("qualified_identifier", <<
            F("scope", L("namespace_identifier")), K("::"),
            F("name", L("type_identifier"))>>))>>))>>)>>))>>)>>)

\* template<class T> auto z(T &y) -> R<T> { for (auto [i, j] : k()) static_cast<Q>(l(i));
\*   return new c::O(m([n](P p) { p.e<T>(c::w(p)); })); }
CLambdaFile == N("translation_unit", <<
    S("template_declaration", <<K("template"),
      F("parameters", N("template_parameter_list", <<
        N("type_parameter_declaration", <<K("class"), D("type_identifier")>>)>>)),
      N("function_definition", <<F("type", N("placeholder_type_specifier", <<K("auto")>>)),
        CcDeclarator(N("function_declarator", <<CcDeclarator(D("identifier")),
          CcParams(<<CcParam(L("type_identifier"),
                             N("reference_declarator", <<K("&"), D("identifier")>>))>>),
          N("trailing_return_type", <<K("->"), N("type_descriptor", <<
            F("type", N("template_type", <<F("name", L("type_identifier")),
              F("arguments", N("template_argument_list", <<
                N("type_descriptor", <<F("type", L("type_identifier"))>>)>>))>>))>>)>>)>>)),
        F("body", N("compound_statement", <<K("{"),
          N("for_range_loop", <<K("for"),
            F("type", N("placeholder_type_specifier", <<K("auto")>>)),
            CcDeclarator(N("structured_binding_declarator",
              <<K("["), D("identifier"), K(","), D("identifier")>>)),
            F("right", CcPlainCall(C("identifier"), <<>>)),
            F("body", N("expression_statement", <<
              CcPlainCall(N("template_function", <<
                  F("name", T("static_cast", L("identifier"))),
                  F("arguments", N("template_argument_list", <<
                    N("type_descriptor", <<F("type", L("type_identifier"))>>)>>))>>),
                <<CcPlainCall(C("identifier"), <<L("identifier")>>)>>)>>))>>),
          N("return_statement", <<K("return"), N("new_expression", <<K("new"),
            F("type", N("qualified_identifier", <<
              F("scope", L("namespace_identifier")), K("::"),
              F("name", C("type_identifier"))>>)),
            F("arguments", N("argument_list", <<K("("),
              CcPlainCall(C("identifier"), <<
                S("lambda_expression", <<
                  F("captures", N("lambda_capture_specifier", <<K("["), L("identifier")>>)),
                  CcDeclarator(N("lambda_declarator", <<
                    CcParams(<<CcParam(L("type_identifier"), D("identifier"))>>)>>)),
                  F("body", N("compound_statement", <<K("{"),
                    CcPlainCall(N("field_expression", <<F("argument", L("identifier")),
                        K("."), F("field", N("template_method", <<
                          F("name", C("field_identifier")),
                          F("arguments", N("template_argument_list", <<
                            N("type_descriptor",
                              <<F("type", L("type_identifier"))>>)>>))>>))>>),
                      <<CcPlainCall(N("qualified_identifier", <<
                          F("scope", L("namespace_identifier")), K("::"),
                          F("name", C("identifier"))>>),
                        <<L("identifier")>>)>>)>>))>>)>>)>>))>>)>>)>>))>>)>>)>>)

\* #ifdef X
\* #define M 1
\* union U;
\* #else
\* #include <s>
\* #endif
\* extern "C" { unsigned a(T, int b[]); struct A; } // c
CDirectivesFile == N("translation_unit", <<
    N("preproc_ifdef", <<K("#ifdef"), F("name", L("identifier")),
      N("preproc_def", <<K("#define"), F("name", D("identifier")),
                         F("value", Q("preproc_arg"))>>),
      N("union_specifier", <<K("union"), F("name", D("type_identifier"))>>),
      F("alternative", N("preproc_else", <<K("#else"),
        N("preproc_include", <<K("#include"), F("path", Q("system_lib_string"))>>)>>)),
      K("#endif")>>),
    N("linkage_specification", <<K("extern"),
      F("value", N("string_literal", <<K("\""), Q("string_content")>>)),
      F("body", N("declaration_list", <<K("{"),
        S("declaration", <<F("type", N("sized_type_specifier", <<K("unsigned")>>)),
          CcDeclarator(N("function_declarator", <<CcDeclarator(D("identifier")),
            CcParams(<<N("parameter_declaration", <<F("type", L("type_identifier"))>>),
              CcParam(L("primitive_type"), N("array_declarator",
                <<CcDeclarator(D("identifier")), K("[]")>>))>>)>>)), K(";")>>),
        N("struct_specifier", <<K("struct"), F("name", D("type_identifier"))>>),
        K("}")>>))>>),
    Q("comment")>>)

\* template<template<class> class Q, class... R, class P = V> S operator+(R &...r) {
\*   try { return f(r...); } catch (V &v) {} }
\* struct W { operator T(); T b [[x]], c; union { T d; } e; template<class X> X g(W *);
\*   template<class Y> static Y h; };
\* using Z = decltype(i());
CTemplateFile == N("translation_unit", <<
    S("template_declaration", <<K("template"),
      F("parameters", N("template_parameter_list", <<
        N("template_template_parameter_declaration", <<K("template"),
          F("parameters", N("template_parameter_list",
            <<N("type_parameter_declaration", <<K("class")>>)>>)),
          N("type_parameter_declaration", <<K("class"), D("type_identifier")>>)>>),
        N("variadic_type_parameter_declaration",
          <<K("class"), K("..."), D("type_identifier")>>),
        N("optional_type_parameter_declaration", <<K("class"),
          F("name", D("type_identifier")), K("="),
          F("default_type", L("type_identifier"))>>)>>)),
      N("function_definition", <<F("type", L("type_identifier")),
        CcDeclarator(N("function_declarator", <<
          CcDeclarator([N("operator_name", <<K("operator"), K("+")>>)
                          EXCEPT !.role = "declared"]),
          CcParams(<<N("variadic_parameter_declaration", <<F("type", L("type_identifier")),
            CcDeclarator(N("reference_declarator", <<K("&"),
              N("variadic_declarator", <<K("..."), D("identifier")>>)>>))>>)>>)>>)),
        F("body", N("compound_statement", <<K("{"),
          N("try_statement", <<K("try"),
            F("body", N("compound_statement", <<K("{"),
              N("return_statement", <<K("return"),
                CcPlainCall(C("identifier"), <<
                  N("parameter_pack_expansion",
                    <<F("pattern", L("identifier")), K("...")>>)>>), K(";")>>)>>)),
            N("catch_clause", <<K("catch"),
              CcParams(<<CcParam(L("type_identifier"),
                N("reference_declarator", <<K("&"), D("identifier")>>))>>),
              F("body", N("compound_statement", <<K("{}")>>))>>)>>)>>))>>)>>),
    S("struct_specifier", <<K("struct"), F("name", D("type_identifier")),
      F("body", N("field_declaration_list", <<K("{"),
        N("declaration", <<CcDeclarator(N("operator_cast", <<K("operator"),
          F("type", L("type_identifier")),
          CcDeclarator(N("abstract_function_declarator", <<CcParams(<<>>)>>))>>)),
          K(";")>>),
        N("field_declaration", <<F("type", L("type_identifier")),
          CcDeclarator(N("attributed_declarator", <<D("field_identifier"),
            N("attribute_declaration", <<K("[["),
              N("attribute", <<F("name", L("identifier"))>>)>>)>>)),
          CcDeclarator(D("field_identifier"))>>),
        N("field_declaration", <<
          F("type", S("union_specifier", <<K("union"),
            F("body", N("field_declaration_list", <<K("{"),
              N("field_declaration", <<F("type", L("type_identifier")),
                CcDeclarator(D("field_identifier"))>>)>>))>>)),
          CcDeclarator(D("field_identifier")), K(";")>>),
        S("template_declaration", <<K("template"),
          F("parameters", N("template_parameter_list", <<
            N("type_parameter_declaration", <<K("class"), D("type_identifier")>>)>>)),
          N("field_declaration", <<F("type", L("type_identifier")),
            CcDeclarator(N("function_declarator", <<CcDeclarator(D("field_identifier")),
              CcParams(<<N("parameter_declaration", <<F("type", L("type_identifier")),
                CcDeclarator(N("abstract_pointer_declarator",
                               <<K("*")>>))>>)>>)>>)), K(";")>>)>>),
        N("template_declaration", <<K("template"),
          F("parameters", N("template_parameter_list", <<
            N("type_parameter_declaration", <<K("class"), D("type_identifier")>>)>>)),
          N("field_declaration", <<L("storage_class_specifier"),
            F("type", L("type_identifier")),
            CcDeclarator(D("field_identifier")), K(";")>>)>>)>>))>>),
    N("alias_declaration", <<K("using"), F("name", D("type_identifier")), K("="),
      F("type", N("type_descriptor", <<F("type", N("decltype", <<K("decltype"), K("("),
        CcPlainCall(C("identifier"), <<>>)>>))>>)), K(";")>>)>>)

CFiles ==
    Files("c", {CHeaderFile, CSourceFile, CClassFile, CLambdaFile, CDirectivesFile,
                CTemplateFile})

-----------------------------------------------------------------------------
(* Rust *)

RsPlainCall(callee, args) ==
    N("call_expression", <<F("function", callee),
                           F("arguments", N("arguments", <<K("(")>> \o args))>>)
RsParam(pattern, type) ==
    N("parameter", <<F("pattern", pattern), K(":"), F("type", type)>>)
RsGeneric(head, args) ==
    N("generic_type", <<F("type", head), F("type_arguments", N("type_arguments", args))>>)
RsBraces(field, kind, kids) == F(field, N(kind, <<K("{")>> \o kids))

\* use a::{b as c, d::*}; mod m;
\* struct P<T: B> { x: q::R<T> } struct T2(U, u8);
\* enum E { A = f(), V(W), U { y: W } } type L<X> = Y<X>;
\* impl<T> I for P<T> { type O = T; fn f(&self, (a, b): (T, U)) -> Z { P { x: g(a) } } }
RustItemsFile == N("source_file", <<
    N("use_declaration", <<K("use"), F("argument", N("scoped_use_list", <<
      F("path", L("identifier")), K("::"),
      F("list", N("use_list", <<
        N("use_as_clause", <<F("path", L("identifier")), K("as"),
                             F("alias", D("identifier"))>>),
        N("use_wildcard", <<L("identifier"), K("::*")>>)>>))>>))>>),
    N("mod_item", <<K("mod"), F("name", D("identifier")), K(";")>>),
    S("struct_item", <<K("struct"), F("name", D("type_identifier")),
      F("type_parameters", N("type_parameters", <<
        N("type_parameter", <<F("name", D("type_identifier")),
          F("bounds", N("trait_bounds", <<K(":"), L("type_identifier")>>))>>)>>)),
      RsBraces("body", "field_declaration_list", <<
        N("field_declaration", <<F("name", D("field_identifier")), K(":"),
          F("type", RsGeneric(N("scoped_type_identifier", <<
              F("path", L("identifier")), K("::"), F("name", L("type_identifier"))>>),
            <<L("type_identifier")>>))>>)>>)>>),
    S("struct_item", <<K("struct"), F("name", D("type_identifier")),
      RsBraces("body", "ordered_field_declaration_list", <<
        F("type", L("type_identifier")), F("type", L("primitive_type"))>>)>>),
    S("enum_item", <<K("enum"), F("name", D("type_identifier")),
      RsBraces("body", "enum_variant_list", <<
        N("enum_variant", <<F("name", D("identifier")), K("="),
          F("value", RsPlainCall(C("identifier"), <<>>))>>),
        N("enum_variant", <<F("name", D("identifier")),
          RsBraces("body", "ordered_field_declaration_list",
                   <<F("type", L("type_identifier"))>>)>>),
        N("enum_variant", <<F("name", D("identifier")),
          RsBraces("body", "field_declaration_list", <<
            N("field_declaration", <<F("name", D("field_identifier")), K(":"),
              F("type", L("type_identifier"))>>)>>)>>)>>)>>),
    N("type_item", <<K("type"), F("name", D("type_identifier")),
      F("type_parameters", N("type_parameters", <<
        N("type_parameter", <<F("name", D("type_identifier"))>>)>>)), K("="),
      F("type", RsGeneric(L("type_identifier"), <<L("type_identifier")>>))>>),
    S("impl_item", <<K("impl"),
      F("type_parameters", N("type_parameters", <<
        N("type_parameter", <<F("name", D("type_identifier"))>>)>>)),
      F("trait", L("type_identifier")), K("for"),
      F("type", RsGeneric(L("type_identifier"), <<L("type_identifier")>>)),
      RsBraces("body", "declaration_list", <<
        N("type_item", <<K("type"), F("name", D("type_identifier")), K("="),
                         F("type", L("type_identifier"))>>),
        S("function_item", <<K("fn"), F("name", D("identifier")),
          RsBraces("parameters", "parameters", <<
            N("self_parameter", <<K("&"), L("self")>>),
            RsParam(N("tuple_pattern", <<D("identifier"), K(","), D("identifier")>>),
                    N("tuple_type", <<L("type_identifier"), L("type_identifier")>>))>>),
          F("return_type", L("type_identifier")),
          RsBraces("body", "block", <<
            N("struct_expression", <<F("name", L("type_identifier")),
              RsBraces("body", "field_initializer_list", <<
                N("field_initializer", <<F("field", L("field_identifier")),
                  F("value", RsPlainCall(C("identifier"),
                                         <<L("identifier")>>))>>)>>)>>)>>)>>)>>)>>)>>)

\* trait I<T>: B { type O; fn f(x: T) -> O; const N: T = g(); }
\* mod m { macro_rules! w { () => {} }
\*   fn h() { for (i, S { j, .. }) in p::k().l::<T>(|x: T, y, (v,)| n!(y)) {
\*     if let Some(z) = q() { match z() { r if s(r) => (t())(), _ => u() } } } } }
RustFlowFile == N("source_file", <<
    S("trait_item", <<K("trait"), F("name", D("type_identifier")),
      F("type_parameters", N("type_parameters", <<
        N("type_parameter", <<F("name", D("type_identifier"))>>)>>)),
      F("bounds", N("trait_bounds", <<K(":"), L("type_identifier")>>)),
      RsBraces("body", "declaration_list", <<
        N("associated_type", <<K("type"), F("name", D("type_identifier"))>>),
        S("function_signature_item", <<K("fn"), F("name", D("identifier")),
          RsBraces("parameters", "parameters",
                   <<RsParam(D("identifier"), L("type_identifier"))>>),
          F("return_type", L("type_identifier"))>>),
        N("const_item", <<K("const"), F("name", D("identifier")), K(":"),
          F("type", L("type_identifier")), K("="),
          F("value", RsPlainCall(C("identifier"), <<>>))>>)>>)>>),
    S("mod_item", <<K("mod"), F("name", D("identifier")),
      RsBraces("body", "declaration_list", <<
        S("macro_definition", <<K("macro_rules!"), F("name", D("identifier")),
                                N("macro_rule", <<K("=>")>>)>>),
        S("function_item", <<K("fn"), F("name", D("identifier")),
          RsBraces("parameters", "parameters", <<>>),
          RsBraces("body", "block", <<
            N("for_expression", <<K("for"),
              F("pattern", N("tuple_pattern", <<D("identifier"), K(","),
                N("struct_pattern", <<F("type", L("type_identifier")),
                  N("field_pattern", <<F("name", D("shorthand_field_identifier"))>>),
                  N("remaining_field_pattern", <<K("..")>>)>>)>>)),
              F("value", RsPlainCall(N("generic_function", <<
                  F("function", N("field_expression", <<
                    F("value", RsPlainCall(N("scoped_identifier", <<
                      F("path", L("identifier")), K("::"),
                      F("name", C("identifier"))>>), <<>>)), K("."),
                    F("field", C("field_identifier"))>>)),
                  F("type_arguments", N("type_arguments", <<L("type_identifier")>>))>>),
                <<S("closure_expression", <<
                    F("parameters", N("closure_parameters", <<K("|"),
                      RsParam(D("identifier"), L("type_identifier")), D("identifier"),
                      N("tuple_pattern", <<K("("), D("identifier"), K(",")>>)>>)),
                    F("body", N("macro_invocation", <<F("macro", C("identifier")),
                      K("!"), N("token_tree", <<K("("),
                                                L("identifier")>>)>>))>>)>>)),
              RsBraces("body", "block", <<
                N("if_expression", <<K("if"),
                  F("condition", N("let_condition", <<K("let"),
                    F("pattern", N("tuple_struct_pattern", <<
                      F("type", L("identifier")), K("("), D("identifier")>>)), K("="),
                    F("value", RsPlainCall(C("identifier"), <<>>))>>)),
                  RsBraces("consequence", "block", <<
                    N("match_expression", <<K("match"),
                      F("value", RsPlainCall(C("identifier"), <<>>)),
                      RsBraces("body", "match_block", <<
                        N("match_arm", <<
                          F("pattern", N("match_pattern", <<D("identifier"), K("if"),
                            F("condition", RsPlainCall(C("identifier"),
                                             <<L("identifier")>>))>>)), K("=>"),
                          F("value", RsPlainCall(N("parenthesized_expression",
                            <<K("("), RsPlainCall(C("identifier"), <<>>)>>), <<>>))>>),
                        N("match_arm", <<
                          F("pattern", N("match_pattern", <<K("_")>>)), K("=>"),
                          F("value", RsPlainCall(C("identifier"),
                                                 <<>>))>>)>>)>>)>>)>>)>>)>>)>>)>>)>>)>>)>>)

\* // c
\* extern crate a; use b::{self, crate as d}; static S: T = f();
\* union U { x: T }
\* fn g<const N: T>(v: ...) -> u8 { let (a, W { x, .. }) = h(p.i()); let c: T = k; !k::j(a) }
RustBindingsFile == N("source_file", <<Q("line_comment"),
    N("extern_crate_declaration", <<K("extern"), L("crate"), F("name", D("identifier")),
                                    K(";")>>),
    N("use_declaration", <<K("use"), F("argument", N("scoped_use_list", <<
      F("path", L("identifier")), K("::"),
      F("list", N("use_list", <<L("self"),
        N("use_as_clause", <<F("path", L("crate")), K("as"),
                             F("alias", D("identifier"))>>)>>))>>))>>),
    N("static_item", <<K("static"), F("name", D("identifier")), K(":"),
      F("type", L("type_identifier")), K("="),
      F("value", RsPlainCall(C("identifier"), <<>>)), K(";")>>),
    S("union_item", <<K("union"), F("name", D("type_identifier")),
      RsBraces("body", "field_declaration_list", <<
        N("field_declaration", <<F("name", D("field_identifier")), K(":"),
          F("type", L("type_identifier"))>>)>>)>>),
    S("function_item", <<K("fn"), F("name", D("identifier")),
      F("type_parameters", N("type_parameters", <<
        N("const_parameter", <<K("const"), F("name", D("identifier")), K(":"),
          F("type", L("type_identifier"))>>)>>)),
      RsBraces("parameters", "parameters", <<
        N("variadic_parameter", <<F("pattern", D("identifier")), K(":"), K("...")>>)>>),
      F("return_type", L("primitive_type")),
      RsBraces("body", "block", <<
        N("let_declaration", <<K("let"),
          F("pattern", N("tuple_pattern", <<D("identifier"), K(","),
            N("struct_pattern", <<F("type", L("type_identifier")),
              N("field_pattern", <<F("name", D("shorthand_field_identifier"))>>),
              N("remaining_field_pattern", <<K("..")>>)>>)>>)), K("="),
          F("value", RsPlainCall(C("identifier"), <<
            RsPlainCall(N("field_expression", <<F("value", L("identifier")), K("."),
              F("field", C("field_identifier"))>>), <<>>)>>)), K(";")>>),
        N("let_declaration", <<K("let"), F("pattern", D("identifier")), K(":"),
          F("type", L("type_identifier")), K("="), F("value", L("identifier")),
          K(";")>>),
        N("unary_expression", <<K("!"),
          RsPlainCall(N("scoped_identifier", <<F("path", L("identifier")), K("::"),
                        F("name", C("identifier"))>>), <<L("identifier")>>)>>)>>)>>)>>)

RustFiles == Files("rust", {RustItemsFile, RustFlowFile, RustBindingsFile})

-----------------------------------------------------------------------------
(* Swift *)

SwPlainCall(callee, suffix) == N("call_expression", <<callee, N("call_suffix", suffix)>>)
SwMember(target, name) ==
    N("navigation_expression", <<F("target", target),
      F("suffix", N("navigation_suffix", <<K("."), F("suffix", name)>>))>>)
SwUserType(name) == N("user_type", <<name>>)
SwPattern(name) == N("pattern", <<F("bound_identifier", name)>>)
SwParam(name, type) ==
    N("parameter", <<F("name", name), K(":"), F("type", type)>>)
SwBraces(kind, kids) == F("body", N(kind, <<K("{")>> \o kids))

\* import M
\* class A<T: B>: C { let x: D.Type = f(); init(y: @E F<G>) { self.z().w { q in r(q) } } }
\* enum H { case i, j(K) }
SwiftClassFile == N("source_file", <<
    N("import_declaration", <<K("import"), N("identifier", <<L("simple_identifier")>>)>>),
    S("class_declaration", <<F("declaration_kind", K("class")),
      F("name", D("type_identifier")),
      N("type_parameters", <<N("type_parameter", <<D("type_identifier"), K(":"),
        F("name", SwUserType(L("type_identifier")))>>)>>), K(":"),
      N("inheritance_specifier", <<
        F("inherits_from", SwUserType(L("type_identifier")))>>),
      SwBraces("class_body", <<
        N("property_declaration", <<K("let"), F("name", SwPattern(D("simple_identifier"))),
          N("type_annotation", <<K(":"), F("type", N("user_type",
            <<L("type_identifier"), K("."), T("Type", L("type_identifier"))>>))>>),
          K("="), F("value", SwPlainCall(C("simple_identifier"), <<K("()")>>))>>),
        S("init_declaration", <<F("name", [K("init") EXCEPT !.role = "declared"]),
          N("parameter", <<F("name", D("simple_identifier")), K(":"),
            F("type", N("type_modifiers", <<N("attribute",
                        <<K("@"), SwUserType(L("type_identifier"))>>)>>)),
            N("user_type", <<L("type_identifier"),
              N("type_arguments", <<K("<"), SwUserType(L("type_identifier"))>>)>>)>>),
          SwBraces("function_body", <<N("statements", <<
            SwPlainCall(SwMember(
                SwPlainCall(SwMember(L("self_expression"), C("simple_identifier")),
                            <<K("()")>>),
                C("simple_identifier")),
              <<S("lambda_literal", <<K("{"),
                F("type", N("lambda_function_type", <<
                  N("lambda_function_type_parameters", <<
                    N("lambda_parameter", <<F("name", D("simple_identifier"))>>)>>)>>)),
                K("in"), N("statements", <<
                  SwPlainCall(C("simple_identifier"),
                              <<L("simple_identifier")>>)>>)>>)>>)>>)>>)>>)>>)>>),
    S("class_declaration", <<F("declaration_kind", K("enum")),
      F("name", D("type_identifier")),
      SwBraces("enum_class_body", <<
        N("enum_entry", <<K("case"), F("name", D("simple_identifier")), K(","),
          F("name", D("simple_identifier")),
          F("data_contents", N("enum_type_parameters",
                               <<SwUserType(L("type_identifier"))>>))>>)>>)>>)>>)

\* protocol P { associatedtype X: Y; var v: Z; func g<T>(a: T) -> X; func ==(b: X) }
\* typealias U<W> = V<W>
\* func h(l c: [Q: R]?) { for i in c.s() { if let j = i() { do { t() } catch let e { } } } }
\* struct S { public func k() -> O  (without a body)   init }
SwiftProtocolFile == N("source_file", <<
    S("protocol_declaration", <<K("protocol"), F("name", D("type_identifier")),
      SwBraces("protocol_body", <<
        N("associatedtype_declaration", <<K("associatedtype"),
          F("name", D("type_identifier")), K(":"),
          F("must_inherit", SwUserType(L("type_identifier")))>>),
        N("protocol_property_declaration", <<K("var"),
          F("name", SwPattern(D("simple_identifier"))),
          N("type_annotation", <<K(":"),
            F("type", SwUserType(L("type_identifier")))>>)>>),
        S("protocol_function_declaration", <<K("func"),
          F("name", D("simple_identifier")),
          N("type_parameters", <<N("type_parameter", <<D("type_identifier")>>)>>),
          SwParam(D("simple_identifier"), SwUserType(L("type_identifier"))), K("->"),
          F("return_type", SwUserType(L("type_identifier")))>>),
        N("protocol_function_declaration", <<K("func"),
          F("name", [K("==") EXCEPT !.role = "declared"]),
          SwParam(D("simple_identifier"), SwUserType(L("type_identifier")))>>)>>)>>),
    N("typealias_declaration", <<K("typealias"), F("name", D("type_identifier")),
      N("type_parameters", <<N("type_parameter", <<D("type_identifier")>>)>>), K("="),
      F("value", N("user_type", <<L("type_identifier"),
        N("type_arguments", <<SwUserType(L("type_identifier"))>>)>>))>>),
    S("function_declaration", <<K("func"), F("name", D("simple_identifier")),
      N("parameter", <<F("external_name", L("simple_identifier")),
        F("name", D("simple_identifier")), K(":"),
        F("type", N("optional_type", <<F("wrapped", N("dictionary_type", <<
          F("key", SwUserType(L("type_identifier"))), K(":"),
          F("value", SwUserType(L("type_identifier")))>>)), K("?")>>))>>),
      SwBraces("function_body", <<N("statements", <<
        N("for_statement", <<K("for"), F("item", SwPattern(D("simple_identifier"))),
          F("collection", SwPlainCall(SwMember(L("simple_identifier"),
                                               C("simple_identifier")), <<K("()")>>)),
          N("statements", <<
            N("if_statement", <<K("if"), K("let"),
              F("bound_identifier", D("simple_identifier")), K("="),
              F("condition", SwPlainCall(C("simple_identifier"), <<K("()")>>)),
              N("statements", <<
                N("do_statement", <<K("do"),
                  N("statements", <<SwPlainCall(C("simple_identifier"), <<K("()")>>)>>),
                  N("catch_block", <<K("catch"),
                    F("error", SwPattern(D("simple_identifier")))>>)>>)>>)>>)>>)>>)>>)>>)>>),
    S("class_declaration", <<F("declaration_kind", K("struct")),
      F("name", D("type_identifier")),
      SwBraces("class_body", <<
        N("ERROR", <<L("modifiers"), K("func"), T("k", D("simple_identifier")),
                     K("->"), SwUserType(T("O", L("type_identifier")))>>),
        T("init", [N("ERROR", <<K("init")>>) EXCEPT !.role = "declared"])>>)>>)>>)

\* actor A { deinit { b() } }
\* func c() { guard let d = e() else { return }; while let f = g.h() { i() } }
SwiftActorFile == N("source_file", <<
    S("class_declaration", <<F("declaration_kind", K("actor")),
      F("name", D("type_identifier")),
      SwBraces("class_body", <<
        S("deinit_declaration", <<K("deinit"),
          SwBraces("function_body", <<N("statements", <<
            SwPlainCall(C("simple_identifier"), <<K("()")>>)>>), K("}")>>)>>)>>)>>),
    S("function_declaration", <<K("func"), F("name", D("simple_identifier")),
      SwBraces("function_body", <<N("statements", <<
        N("guard_statement", <<K("guard"), K("let"),
          F("bound_identifier", D("simple_identifier")), K("="),
          F("condition", SwPlainCall(C("simple_identifier"), <<K("()")>>)), K("else"),
          N("statements", <<N("control_transfer_statement", <<K("return")>>)>>)>>),
        N("while_statement", <<K("while"), K("let"),
          F("bound_identifier", D("simple_identifier")), K("="),
          F("condition", SwPlainCall(SwMember(L("simple_identifier"),
                                              C("simple_identifier")), <<K("()")>>)),
          N("statements", <<
            SwPlainCall(C("simple_identifier"), <<K("()")>>)>>)>>)>>)>>)>>)>>)

SwiftFiles == Files("swift", {SwiftClassFile, SwiftProtocolFile, SwiftActorFile})

-----------------------------------------------------------------------------
(* Java *)

JvId == L("identifier")
JvTy == L("type_identifier")
JvScoped(kind, first, second) == N(kind, <<first, K("."), second>>)
JvGeneric(head, args) ==
    N("generic_type", <<head, N("type_arguments", <<K("<")>> \o args \o <<K(">")>>)>>)
JvDeclarator(name, value) ==
    F("declarator", N("variable_declarator", <<F("name", name)>> \o value))
JvInvoke(object, name, args) ==
    N("method_invocation", object \o <<F("name", name),
      F("arguments", N("argument_list", <<K("(")>> \o args \o <<K(")")>>))>>)
JvFormal(type, name) == N("formal_parameter", <<F("type", type), F("name", name)>>)
JvFormals(params) == F("parameters", N("formal_parameters", <<K("(")>> \o params \o <<K(")")>>))
JvBlock(kind, kids) == F("body", N(kind, <<K("{")>> \o kids \o <<K("}")>>))

\* package p.q; import a.B; import C;
\* class K<T extends U & V> {
\*   X.Y<Z[], ?> f = g(), h; K(A a, int b) {}
\*   <W> D m() { for (E e : i.j()) { new k.L<M>(n -> o(n)); } } }
JavaClassFile == N("program", <<
    N("package_declaration", <<K("package"),
      JvScoped("scoped_identifier", JvId, JvId), K(";")>>),
    N("import_declaration", <<K("import"),
      N("scoped_identifier", <<F("scope", JvId), K("."), F("name", JvId)>>), K(";")>>),
    N("import_declaration", <<K("import"), JvId, K(";")>>),
    S("class_declaration", <<K("class"), F("name", D("identifier")),
      F("type_parameters", N("type_parameters", <<K("<"),
        N("type_parameter", <<D("type_identifier"),
          N("type_bound", <<K("extends"), JvTy, K("&"), JvTy>>)>>), K(">")>>)),
      JvBlock("class_body", <<
        N("field_declaration", <<
          F("type", JvGeneric(JvScoped("scoped_type_identifier", JvTy, JvTy),
            <<N("array_type", <<F("element", JvTy), F("dimensions", L("dimensions"))>>),
              L("wildcard")>>)),
          JvDeclarator(D("identifier"), <<F("value", JvInvoke(<<>>, C("identifier"), <<>>))>>),
          K(","), JvDeclarator(D("identifier"), <<>>), K(";")>>),
        S("constructor_declaration", <<F("name", D("identifier")),
          JvFormals(<<JvFormal(JvTy, D("identifier")), K(","),
                      JvFormal(L("integral_type"), D("identifier"))>>),
          JvBlock("constructor_body", <<>>)>>),
        S("method_declaration", <<
          F("type_parameters", N("type_parameters",
            <<K("<"), N("type_parameter", <<D("type_identifier")>>), K(">")>>)),
          F("type", JvTy), F("name", D("identifier")), JvFormals(<<>>),
          JvBlock("block", <<
            N("enhanced_for_statement", <<K("for"), F("type", JvTy),
              F("name", D("identifier")), K(":"),
              F("value", JvInvoke(<<F("object", JvId), K(".")>>, C("identifier"), <<>>)),
              JvBlock("block", <<
                N("object_creation_expression", <<K("new"),
                  F("type", JvGeneric(JvScoped("scoped_type_identifier", JvTy,
                                               C("type_identifier")), <<JvTy>>)),
                  F("arguments", N("argument_list", <<K("("),
                    S("lambda_expression", <<F("parameters", D("identifier")), K("->"),
                      F("body", JvInvoke(<<>>, C("identifier"), <<JvId>>))>>),
                    K(")")>>))>>)>>)>>)>>)>>)>>)>>)>>)

\* interface I { A b(); J K = e(); }  enum E { F(g()), H }  record R(S s) { R { t(); } }
\* class O { void p() {
\*   try (N o = q(); r) { u((v, w) -> x()); } catch (Y | Z c) { int d; } } }
JavaMembersFile == N("program", <<
    S("interface_declaration", <<K("interface"), F("name", D("identifier")),
      JvBlock("interface_body", <<
        S("method_declaration", <<F("type", JvTy), F("name", D("identifier")),
          JvFormals(<<>>), K(";")>>),
        N("constant_declaration", <<F("type", JvTy),
          JvDeclarator(D("identifier"),
                       <<K("="), F("value", JvInvoke(<<>>, C("identifier"), <<>>))>>),
          K(";")>>)>>)>>),
    S("enum_declaration", <<K("enum"), F("name", D("identifier")),
      JvBlock("enum_body", <<
        N("enum_constant", <<F("name", D("identifier")),
          F("arguments", N("argument_list",
            <<K("("), JvInvoke(<<>>, C("identifier"), <<>>), K(")")>>))>>),
        K(","), N("enum_constant", <<F("name", D("identifier"))>>)>>)>>),
    S("record_declaration", <<K("record"), F("name", D("identifier")),
      JvFormals(<<JvFormal(JvTy, D("identifier"))>>),
      JvBlock("class_body", <<
        S("compact_constructor_declaration", <<F("name", D("identifier")),
          JvBlock("block", <<JvInvoke(<<>>, C("identifier"), <<>>)>>)>>)>>)>>),
    S("class_declaration", <<K("class"), F("name", D("identifier")),
      JvBlock("class_body", <<
        S("method_declaration", <<F("type", L("void_type")), F("name", D("identifier")),
          JvFormals(<<>>),
          JvBlock("block", <<
            N("try_with_resources_statement", <<K("try"),
              F("resources", N("resource_specification", <<K("("),
                N("resource", <<F("type", JvTy), F("name", D("identifier")), K("="),
                  F("value", JvInvoke(<<>>, C("identifier"), <<>>))>>), K(";"),
                N("resource", <<JvId>>), K(")")>>)),
              JvBlock("block", <<
                JvInvoke(<<>>, C("identifier"), <<
                  S("lambda_expression", <<
                    F("parameters", N("inferred_parameters", <<K("("), D("identifier"),
                                       K(","), D("identifier"), K(")")>>)), K("->"),
                    F("body", JvInvoke(<<>>, C("identifier"), <<>>))>>)>>)>>),
              N("catch_clause", <<K("catch"),
                N("catch_formal_parameter", <<
                  N("catch_type", <<JvTy, K("|"), JvTy>>), F("name", D("identifier"))>>),
                JvBlock("block", <<
                  N("local_variable_declaration", <<F("type", L("integral_type")),
                    JvDeclarator(D("identifier"), <<>>), K(";")>>)>>)>>)>>)>>)>>)>>)>>)>>)

\* @interface A { B c() default 1; }
\* class D { void e(F... g) { if (g instanceof I j) h(); } }
JavaAnnotationFile == N("program", <<
    S("annotation_type_declaration", <<K("@interface"), F("name", D("identifier")),
      JvBlock("annotation_type_body", <<
        S("annotation_type_element_declaration", <<F("type", JvTy),
          F("name", D("identifier")), K("("), K(")"), K("default"),
          F("value", L("decimal_integer_literal")), K(";")>>)>>)>>),
    S("class_declaration", <<K("class"), F("name", D("identifier")),
      JvBlock("class_body", <<
        S("method_declaration", <<F("type", L("void_type")), F("name", D("identifier")),
          JvFormals(<<N("spread_parameter", <<JvTy, K("..."),
            N("variable_declarator", <<F("name", D("identifier"))>>)>>)>>),
          JvBlock("block", <<N("if_statement", <<K("if"),
            F("condition", N("parenthesized_expression", <<K("("),
              N("instanceof_expression", <<F("left", JvId), K("instanceof"),
                F("right", JvTy), F("name", D("identifier"))>>), K(")")>>)),
            F("consequence", N("expression_statement", <<
              JvInvoke(<<>>, C("identifier"), <<>>), K(";")>>))>>)>>)>>)>>)>>)>>)

JavaFiles == Files("java", {JavaClassFile, JavaMembersFile, JavaAnnotationFile})

-----------------------------------------------------------------------------
(* PHP *)

PhId == L("name")
PhVar(role) == [N("variable_name", <<K("$"), PhId>>) EXCEPT !.role = role]
PhNamedType == N("named_type", <<PhId>>)
PhQualified(name) ==
    N("qualified_name", <<F("prefix", N("namespace_name", <<PhId>>)),
                          F("prefix", K("\\")), name>>)
PhParam(type) == N("simple_parameter", <<F("type", type), F("name", PhVar("declared"))>>)
PhParams(params) ==
    F("parameters", N("formal_parameters", <<K("(")>> \o params \o <<K(")")>>))
PhBraces(kind, kids) == F("body", N(kind, <<K("{")>> \o kids \o <<K("}")>>))
PhArgs(args) == F("arguments", N("arguments", <<K("(")>> \o args \o <<K(")")>>))
PhPlainCall(callee, args) ==
    N("function_call_expression", <<F("function", callee), PhArgs(args)>>)
PhAssign(left, right) ==
    N("assignment_expression", <<F("left", left), K("="), F("right", right)>>)

\* namespace A; use B\C as D; require 'e.php';
\* class F extends G implements H\I {
\*   const J = k(); private ?L $m = n();
\*   function o(P|Q $r, int ...$s): T { $this->u()->v($w); return new X\Y(z()); } }
PhpClassFile == N("program", <<
    L("php_tag"),
    N("namespace_definition", <<K("namespace"), F("name", N("namespace_name", <<PhId>>))>>),
    N("namespace_use_declaration", <<K("use"),
      N("namespace_use_clause", <<PhQualified(PhId), K("as"), F("alias", D("name"))>>)>>),
    N("expression_statement", <<
      N("require_expression", <<K("require"),
        N("string", <<K("'"), Q("string_content"), K("'")>>)>>)>>),
    S("class_declaration", <<K("class"), F("name", D("name")),
      N("base_clause", <<K("extends"), PhId>>),
      N("class_interface_clause", <<K("implements"), PhQualified(PhId)>>),
      PhBraces("declaration_list", <<
        N("const_declaration", <<K("const"),
          N("const_element", <<D("name"), K("="), PhPlainCall(C("name"), <<>>)>>)>>),
        N("property_declaration", <<N("visibility_modifier", <<K("private")>>),
          F("type", N("optional_type", <<K("?"), PhNamedType>>)),
          N("property_element", <<F("name", PhVar("declared")), K("="),
            F("default_value", PhPlainCall(C("name"), <<>>))>>)>>),
        S("method_declaration", <<K("function"), F("name", D("name")),
          PhParams(<<PhParam(N("union_type", <<PhNamedType, K("|"), PhNamedType>>)), K(","),
            N("variadic_parameter", <<F("type", L("primitive_type")), K("..."),
                                      F("name", PhVar("declared"))>>)>>),
          F("return_type", PhNamedType),
          PhBraces("compound_statement", <<
            N("expression_statement", <<
              N("member_call_expression", <<
                F("object", N("member_call_expression", <<
                  F("object", PhVar("")), K("->"), F("name", C("name")), PhArgs(<<>>)>>)),
                K("->"), F("name", C("name")),
                PhArgs(<<N("argument", <<PhVar("")>>)>>)>>)>>),
            N("return_statement", <<K("return"),
              N("object_creation_expression", <<K("new"), PhQualified(C("name")),
                PhArgs(<<N("argument", <<PhPlainCall(C("name"), <<>>)>>)>>)>>)>>)>>)>>)>>)>>)>>)

\* interface A { function b(): C; }  trait D { function __construct(public E $f = g()) {} }
\* enum H { case V; const I = 1, J = 2; }
\* $k = fn(L $m) => n\o($p); require q(); $r[0] = static::s(); $t = function() {}; ($u)();
PhpMembersFile == N("program", <<
    L("php_tag"),
    S("interface_declaration", <<K("interface"), F("name", D("name")),
      PhBraces("declaration_list", <<
        S("method_declaration", <<K("function"), F("name", D("name")), PhParams(<<>>),
          F("return_type", PhNamedType), K(";")>>)>>)>>),
    S("trait_declaration", <<K("trait"), F("name", D("name")),
      PhBraces("declaration_list", <<
        S("method_declaration", <<K("function"), F("name", D("name")),
          PhParams(<<N("property_promotion_parameter", <<
            F("visibility", N("visibility_modifier", <<K("public")>>)),
            F("type", PhNamedType), F("name", PhVar("declared")), K("="),
            F("default_value", PhPlainCall(C("name"), <<>>))>>)>>),
          PhBraces("compound_statement", <<>>)>>)>>)>>),
    S("enum_declaration", <<K("enum"), F("name", D("name")),
      PhBraces("enum_declaration_list", <<
        N("enum_case", <<K("case"), F("name", D("name")), K(";")>>),
        N("const_declaration", <<K("const"),
          N("const_element", <<D("name"), K("="), L("integer")>>), K(","),
          N("const_element", <<D("name"), K("="), L("integer")>>)>>)>>)>>),
    N("expression_statement", <<PhAssign(PhVar("declared"),
      S("arrow_function", <<K("fn"), PhParams(<<PhParam(PhNamedType)>>), K("=>"),
        F("body", PhPlainCall(PhQualified(C("name")),
                              <<N("argument", <<PhVar("")>>)>>))>>))>>),
    N("expression_statement", <<
      N("require_expression", <<K("require"), PhPlainCall(C("name"), <<>>)>>)>>),
    N("expression_statement", <<PhAssign(
      N("subscript_expression", <<PhVar(""), K("["), L("integer"), K("]")>>),
      N("scoped_call_expression", <<F("scope", L("relative_scope")), K("::"),
        F("name", C("name")), PhArgs(<<>>)>>))>>),
    N("expression_statement", <<PhAssign(PhVar("declared"),
      S("anonymous_function", <<K("function"), PhParams(<<>>),
        PhBraces("compound_statement", <<>>)>>))>>),
    N("expression_statement", <<
      PhPlainCall(N("parenthesized_expression", <<K("("), PhVar(""), K(")")>>), <<>>)>>)>>)

\* include 'a'; include_once b(); require_once 'c';
\* function d(namespace\E $f): ?G { $f?->h(i()); foreach ($f as $l) {} return J::k(); }
PhpIncludesFile == N("program", <<
    L("php_tag"),
    N("expression_statement", <<N("include_expression", <<K("include"),
      N("string", <<K("'"), Q("string_content"), K("'")>>)>>)>>),
    N("expression_statement", <<N("include_once_expression", <<K("include_once"),
      PhPlainCall(C("name"), <<>>)>>)>>),
    N("expression_statement", <<N("require_once_expression", <<K("require_once"),
      N("string", <<K("'"), Q("string_content"), K("'")>>)>>)>>),
    S("function_definition", <<K("function"), F("name", D("name")),
      PhParams(<<PhParam(N("named_type",
        <<N("relative_name", <<K("namespace"), K("\\"), PhId>>)>>))>>),
      F("return_type", N("optional_type", <<K("?"), PhNamedType>>)),
      PhBraces("compound_statement", <<
        N("expression_statement", <<
          N("nullsafe_member_call_expression", <<F("object", PhVar("")), K("?->"),
            F("name", C("name")),
            PhArgs(<<N("argument", <<PhPlainCall(C("name"), <<>>)>>)>>)>>)>>),
        N("foreach_statement", <<K("foreach"), K("("), PhVar(""), K("as"),
          PhVar("declared"), K(")"), PhBraces("compound_statement", <<>>)>>),
        N("return_statement", <<K("return"),
          N("scoped_call_expression", <<F("scope", PhId), K("::"),
            F("name", C("name")), PhArgs(<<>>)>>)>>)>>)>>)>>)

PHPFiles == Files("php", {PhpClassFile, PhpMembersFile, PhpIncludesFile})

-----------------------------------------------------------------------------
(* Ruby *)

RbId == L("identifier")
RbConst == L("constant")
RbScoped(scope, name) ==
    N("scope_resolution", <<F("scope", scope), K("::"), F("name", name)>>)
RbArgs(args) == F("arguments", N("argument_list", <<K("(")>> \o args \o <<K(")")>>))
RbCalled(receiver, method, rest) ==
    N("call", receiver \o <<F("method", method)>> \o rest)
RbOn(receiver) == <<F("receiver", receiver), K(".")>>
RbString == N("string", <<K("'"), Q("string_content"), K("'")>>)
RbStatements(kids) == F("body", N("body_statement", kids))

\* require 'a'
\* class B::C < D::E
\*   attr_reader :f, :g
\*   def h(i, j = k(), *l, m:, (n, o), &p) = ... @q = r.s { |z| t(i) }.u end
\*   v = w, *x = y()
\* end
RubyClassFile == N("program", <<
    RbCalled(<<>>, T("require", RbId), <<RbArgs(<<RbString>>)>>),
    S("class", <<K("class"), F("name", RbScoped(RbConst, D("constant"))),
      F("superclass", N("superclass", <<K("<"), RbScoped(RbConst, RbConst)>>)),
      RbStatements(<<
        RbCalled(<<>>, T("attr_reader", RbId),
          <<RbArgs(<<D("simple_symbol"), K(","), D("simple_symbol")>>)>>),
        S("method", <<K("def"), F("name", D("identifier")),
          F("parameters", N("method_parameters", <<K("("), D("identifier"), K(","),
            N("optional_parameter", <<F("name", D("identifier")), K("="),
              F("value", RbCalled(<<>>, C("identifier"), <<RbArgs(<<>>)>>))>>), K(","),
            N("splat_parameter", <<K("*"), F("name", D("identifier"))>>), K(","),
            N("keyword_parameter", <<F("name", D("identifier")), K(":")>>), K(","),
            N("destructured_parameter", <<K("("), D("identifier"), K(","),
                                          D("identifier"), K(")")>>), K(","),
            N("block_parameter", <<K("&"), F("name", D("identifier"))>>), K(")")>>)),
          RbStatements(<<
            N("assignment", <<F("left", D("instance_variable")), K("="),
              F("right", RbCalled(
                RbOn(RbCalled(RbOn(RbId), C("identifier"),
                  <<F("block", N("block", <<K("{"),
                      F("parameters",
                        N("block_parameters", <<K("|"), D("identifier"), K("|")>>)),
                      F("body", N("block_body", <<
                        RbCalled(<<>>, C("identifier"), <<RbArgs(<<RbId>>)>>)>>)),
                      K("}")>>))>>)),
                C("identifier"), <<>>))>>)>>), K("end")>>),
        N("assignment", <<
          F("left", N("left_assignment_list", <<D("identifier"), K(","),
            N("rest_assignment", <<K("*"), D("identifier")>>)>>)), K("="),
          F("right", RbCalled(<<>>, C("identifier"), <<RbArgs(<<>>)>>))>>)>>),
      K("end")>>)>>)

\* module A; def self.b; C.new(d()) end end
\* class E < F; end
\* g ||= ->(h, **i) { j.(k) }; L.m = n(); require o(); attr_reader p; class << self; end
RubyModuleFile == N("program", <<
    S("module", <<K("module"), F("name", D("constant")),
      RbStatements(<<
        S("singleton_method", <<K("def"), F("object", L("self")), K("."),
          F("name", D("identifier")),
          RbStatements(<<
            RbCalled(RbOn(RbConst), C("identifier"),
              <<RbArgs(<<RbCalled(<<>>, C("identifier"), <<RbArgs(<<>>)>>)>>)>>)>>),
          K("end")>>)>>), K("end")>>),
    S("class", <<K("class"), F("name", D("constant")),
      F("superclass", N("superclass", <<K("<"), RbConst>>)), K("end")>>),
    N("operator_assignment", <<F("left", D("identifier")), K("||="),
      F("right", S("lambda", <<K("->"),
        F("parameters", N("lambda_parameters", <<K("("), D("identifier"), K(","),
          N("hash_splat_parameter", <<K("**"), F("name", D("identifier"))>>), K(")")>>)),
        F("body", N("block", <<K("{"),
          F("body", N("block_body", <<
            N("call", <<F("receiver", RbId), K("."), RbArgs(<<RbId>>)>>)>>)),
          K("}")>>))>>))>>),
    N("assignment", <<F("left", RbCalled(RbOn(RbConst), C("identifier"), <<>>)), K("="),
      F("right", RbCalled(<<>>, C("identifier"), <<RbArgs(<<>>)>>))>>),
    RbCalled(<<>>, T("require", C("identifier")),
      <<RbArgs(<<RbCalled(<<>>, C("identifier"), <<RbArgs(<<>>)>>)>>)>>),
    RbCalled(<<>>, T("attr_reader", C("identifier")), <<RbArgs(<<RbId>>)>>),
    N("singleton_class", <<K("class"), K("<<"), F("value", L("self")), K("end")>>)>>)

\* require_relative 'a'
\* class B; attr_accessor :c, :i, j(); attr_writer :d end
\* @@e, (f, *$g) = h()
RubyVariablesFile == N("program", <<
    RbCalled(<<>>, T("require_relative", RbId), <<RbArgs(<<RbString>>)>>),
    S("class", <<K("class"), F("name", D("constant")),
      RbStatements(<<
        RbCalled(<<>>, T("attr_accessor", RbId),
          <<RbArgs(<<D("simple_symbol"), K(","), D("simple_symbol"), K(","),
                     RbCalled(<<>>, C("identifier"), <<RbArgs(<<>>)>>)>>)>>),
        RbCalled(<<>>, T("attr_writer", RbId), <<RbArgs(<<D("simple_symbol")>>)>>)>>),
      K("end")>>),
    N("assignment", <<
      F("left", N("left_assignment_list", <<D("class_variable"), K(","),
        N("destructured_left_assignment", <<K("("), D("identifier"), K(","),
          N("rest_assignment", <<K("*"), D("global_variable")>>), K(")")>>)>>)), K("="),
      F("right", RbCalled(<<>>, C("identifier"), <<RbArgs(<<>>)>>))>>)>>)

RubyFiles == Files("ruby", {RubyClassFile, RubyModuleFile, RubyVariablesFile})

-----------------------------------------------------------------------------
(* CSS *)

CsVar(args) ==
    N("call_expression", <<T("var", L("function_name")),
      N("arguments", <<K("(")>> \o args \o <<K(")")>>)>>)
CsUse == T("--", C("plain_value"))
CsProperty(name, values) == N("declaration", <<name, K(":")>> \o values \o <<K(";")>>)
CsString == N("string_value", <<K("\""), Q("string_content"), K("\"")>>)

\* @import "a"; @import url(b); /* */
\* .c:hover #d { --e: var(--f, var(--g)); h: calc(var(--i)) }
\* j::p:not(.k) { } @media l { #m { n: o } }
CssRulesFile == N("stylesheet", <<
    N("import_statement", <<K("@import"), CsString, K(";")>>),
    N("import_statement", <<K("@import"),
      N("call_expression", <<T("url", L("function_name")),
        N("arguments", <<K("("), L("plain_value"), K(")")>>)>>), K(";")>>),
    L("comment"),
    S("rule_set", <<
      N("selectors", <<N("descendant_selector", <<
        N("pseudo_class_selector", <<
          N("class_selector", <<K("."), L("class_name")>>), K(":"), L("class_name")>>),
        N("id_selector", <<K("#"), L("id_name")>>)>>)>>),
      N("block", <<K("{"),
        CsProperty(T("--", D("property_name")), <<CsVar(<<CsUse, K(","), CsVar(<<CsUse>>)>>)>>),
        CsProperty(L("property_name"), <<
          N("call_expression", <<T("calc", L("function_name")),
            N("arguments", <<K("("), CsVar(<<CsUse>>), K(")")>>)>>)>>), K("}")>>)>>),
    S("rule_set", <<
      N("selectors", <<N("pseudo_class_selector", <<
        N("pseudo_element_selector", <<L("tag_name"), K("::"), L("tag_name")>>), K(":"),
        L("class_name"), N("arguments", <<K("("),
          N("class_selector", <<K("."), L("class_name")>>), K(")")>>)>>)>>),
      N("block", <<K("{"), K("}")>>)>>),
    N("media_statement", <<K("@media"), N("keyword_query", <<L("keyword_query")>>),
      N("block", <<K("{"),
        S("rule_set", <<N("selectors", <<N("id_selector", <<K("#"), L("id_name")>>)>>),
          N("block", <<K("{"), CsProperty(L("property_name"), <<L("plain_value")>>),
                       K("}")>>)>>), K("}")>>)>>)>>)

CSSFiles == Files("css", {CssRulesFile})

-----------------------------------------------------------------------------
(* HTML and plain text *)

HtTag(kind, attributes) ==
    N(kind, <<K("<"), L("tag_name")>> \o attributes \o <<K(">")>>)
HtAttribute(value) == N("attribute", <<L("attribute_name")>> \o value)
HtValue == <<K("="), N("quoted_attribute_value", <<K("\""), L("attribute_value"), K("\"")>>)>>
HtEnd == N("end_tag", <<K("</"), L("tag_name"), K(">")>>)

\* <!doctype a><!-- --><b c="d" e><f><g/>h</f><script>i</script><style></style><j></b>
HtmlElementsFile == N("document", <<
    N("doctype", <<K("<!"), K("doctype"), K(">")>>),
    L("comment"),
    S("element", <<HtTag("start_tag", <<HtAttribute(HtValue), HtAttribute(<<>>)>>),
      S("element", <<HtTag("start_tag", <<>>),
        S("element", <<HtTag("self_closing_tag", <<>>)>>), L("text"), HtEnd>>),
      S("script_element", <<HtTag("start_tag", <<>>), L("raw_text"), HtEnd>>),
      S("style_element", <<HtTag("start_tag", <<>>), HtEnd>>),
      S("element", <<HtTag("start_tag", <<HtAttribute(<<>>)>>)>>), HtEnd>>)>>)

HTMLFiles == Files("html", {HtmlElementsFile})

\* No grammar: the whole file is the one node, and the file may be empty.
PlaintextFiles == Files("plaintext", {L("file")})

=============================================================================
