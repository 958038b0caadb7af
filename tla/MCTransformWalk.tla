--------------------------- MODULE MCTransformWalk ---------------------------
EXTENDS TransformWalk, SyntaxCases

\* A file or two of every language.
MCCases ==
    GoFiles \cup PythonFiles \cup TypescriptFiles \cup CFiles \cup RustFiles
      \cup SwiftFiles \cup JavaFiles \cup PHPFiles \cup RubyFiles \cup CSSFiles
      \cup HTMLFiles \cup PlaintextFiles

=============================================================================
