-------------------------- MODULE RubyTransformer --------------------------
(* What pkg/languages/ruby/ruby_parser.go makes of a Ruby syntax tree. *)
EXTENDS SyntaxTree

\* A constant is the only way to spell a type.
RbType(n) ==
    LET scope == OfKind(ChildByFieldName(n, "scope"), {"constant"})
    IN  CASE Kind(n) = "constant" ->
               Opt(hasSourceWidth(n), ASTTypeExpression(n, <<>>, <<>>))
          [] Kind(n) = "scope_resolution" ->
               Each(Wide(ChildByFieldName(n, "name")),
                    LAMBDA name : <<ASTTypeExpression(name, Symbols(scope), <<>>)>>)
          [] OTHER -> <<>>

RECURSIVE RbBindingTargets(_)
RbBindingTargets(n) ==
    CASE Kind(n) \in {"identifier", "constant", "instance_variable",
                      "class_variable", "global_variable"} -> Symbols(Wide(<<n>>))
      [] Kind(n) \in {"left_assignment_list", "destructured_left_assignment",
                      "rest_assignment"} ->
           Each(NamedChildren(n), RbBindingTargets)
      [] OTHER -> <<>>

RbName(n) == Wide(ChildByFieldName(n, "name"))
RbBody(n) == Wide(ChildByFieldName(n, "body"))

RECURSIVE RbListed(_)
RbListed(list) ==
    Each(NamedChildren(list), LAMBDA param :
        LET argument(name) == <<ASTFuncArgument(param, Symbols(<<name>>), <<>>)>>
        IN  CASE Kind(param) = "identifier" -> Each(Wide(<<param>>), argument)
              [] Kind(param) \in {"optional_parameter", "keyword_parameter",
                                  "splat_parameter", "hash_splat_parameter",
                                  "block_parameter"} -> Each(RbName(param), argument)
              [] Kind(param) = "destructured_parameter" -> RbListed(param)
              [] OTHER -> <<>>)

RbFunction(n, name) ==
    EmitAndWalkInto(ASTFuncExpression(n, Symbols(name),
        Each(ChildByFieldName(n, "parameters"), RbListed), <<>>, RbBody(n), <<>>))

\* Classes and modules are functions, named by the last constant of their name,
\* with their superclass in their block.  The keywords are of the same kinds.
RbClass(n) ==
    LET path == ChildByFieldName(n, "name")
        trailing == Each(OfKind(path, {"scope_resolution"}),
                         LAMBDA m : ChildByFieldName(m, "name"))
        super == Each(ChildByFieldName(n, "superclass"),
                      LAMBDA m : First(Each(NamedChildren(m), RbType)))
    IN  IF path = <<>> THEN WalkChildren
        ELSE EmitAndWalkInto(ASTFuncExpression(n,
               Symbols(Wide(First(trailing \o path))), <<>>, <<>>, RbBody(n), super))

RbAssignment(n) ==
    LET names == Each(ChildByFieldName(n, "left"), RbBindingTargets)
    IN  IF names = <<>> THEN WalkChildren
        ELSE EmitAndWalkInto(ASTDeclaration(n, names, <<>>, <<>>))

\* A string with an interpolation in front has its path all the same; one
\* without text has none.
RbRequirePath(list) ==
    Wide(Each(NthChildByKind(list, "string", 0),
              LAMBDA m : NthChildByKind(m, "string_content", 0)))

RbAttrNames(list) == Symbols(Wide(ChildrenOfKind(list, {"simple_symbol"})))

RbPlainCall(n, method, receiver) ==
    LET name == Wide(OfKind(method, {"identifier", "constant"}))
    IN  IF name = <<>> THEN WalkChildren
        ELSE EmitAndWalkInto(ASTCallExpression(n,
               Symbols(OfKind(receiver, {"identifier", "constant"})),
               Symbols(name), <<>>))

\* An import and the definition of an attribute are calls in Ruby.
RbCall(n) ==
    LET method == ChildByFieldName(n, "method")
        receiver == ChildByFieldName(n, "receiver")
        list == ChildByFieldName(n, "arguments")
        word == IF method # <<>> /\ Kind(method[1]) = "identifier" /\ receiver = <<>>
                THEN Text(method[1]) ELSE ""
        path == IF word \in {"require", "require_relative"}
                THEN Each(list, RbRequirePath) ELSE <<>>
        names == IF word \in {"attr_accessor", "attr_reader", "attr_writer"}
                 THEN Each(list, RbAttrNames) ELSE <<>>
    IN  CASE path # <<>> -> Emit(<<ASTImportStatement(path[1], <<>>, Symbols(path))>>)
          [] names # <<>> -> Emit(<<ASTDeclaration(n, names, <<>>, <<>>)>>)
          [] OTHER -> RbPlainCall(n, method, receiver)

RubyRule(under, n) ==
    CASE Kind(n) \in {"class", "module"} -> RbClass(n)
      [] Kind(n) \in {"method", "singleton_method"} -> RbFunction(n, RbName(n))
      [] Kind(n) = "lambda" -> RbFunction(n, <<>>)
      [] Kind(n) \in {"assignment", "operator_assignment"} -> RbAssignment(n)
      [] Kind(n) = "call" -> RbCall(n)
      [] OTHER -> WalkChildren

=============================================================================
