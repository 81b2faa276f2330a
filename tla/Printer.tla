------------------------------ MODULE Printer -------------------------------
(***************************************************************************)
(* The text of a program, src/ast/ast.c: program_string and the functions  *)
(* it calls, one for every kind of node.                                   *)
(*                                                                         *)
(* Strings, hashes and conditionals have no text that can be used: for two *)
(* of them expression_string returns a null pointer, for a hash the buffer *)
(* is appended to before anything is in it.  Every node is printed into a  *)
(* buffer of MAX_STMT_STR_LEN characters, and a list of statements into as *)
(* many of them as it has statements.                                      *)
(***************************************************************************)
EXTENDS Naturals, Sequences, SequencesExt

CONSTANT MAX_STMT_STR_LEN

RECURSIVE ExpressionString(_), StatementsString(_)

(* list_str_join; the function that prints an item has been applied.       *)
Joined(texts, delimiter) ==
    FoldLeft(LAMBDA acc, text : IF acc = "" THEN text ELSE acc \o delimiter \o text, "", texts)
ExpressionStrings(es) == [i \in DOMAIN es |-> ExpressionString(es[i])]

UnprefixedString(node) == node.operator \o ExpressionString(node.right)    \* faulty
PrefixString(node) == "(" \o node.operator \o ExpressionString(node.right) \o ")"
InfixString(node) ==
    "(" \o ExpressionString(node.left) \o " " \o node.operator \o " " \o ExpressionString(node.right) \o ")"
IndexString(node) == "(" \o ExpressionString(node.left) \o "[" \o ExpressionString(node.index) \o "])"
ArrayString(node) == "[" \o Joined(ExpressionStrings(node.elements), ", ") \o "]"
CallString(node) ==
    ExpressionString(node.fn) \o "(" \o Joined(ExpressionStrings(node.args), ", ") \o ")"
FunctionString(node) == "fn(" \o Joined(node.params, ", ") \o ")" \o StatementsString(node.body)
IntegerString(node) == node.literal

ExpressionString(node) ==
    CASE node.type = "IDENT" -> node.name
      [] node.type = "INT" -> IntegerString(node)
      [] node.type = "BOOL" -> IF node.bool THEN "true" ELSE "false"
      [] node.type = "PREFIX" -> PrefixString(node)
      [] node.type = "INFIX" -> InfixString(node)
      [] node.type = "INDEX" -> IndexString(node)
      [] node.type = "ARRAY" -> ArrayString(node)
      [] node.type = "CALL" -> CallString(node)
      [] node.type = "FN" -> FunctionString(node)

StatementString(node) ==
    CASE node.type = "LET" -> "let " \o node.name \o " = " \o ExpressionString(node.value) \o ";\n"
      [] node.type = "RETURN" -> "return " \o ExpressionString(node.value) \o ";\n"
      [] node.type = "EXPR" -> ExpressionString(node.value)

StatementsString(nodes) ==
    FoldLeft(LAMBDA acc, node : acc \o StatementString(node), "", nodes)
ProgramString(program) == StatementsString(program)

-----------------------------------------------------------------------------
(* What can be printed: every part of it can and has room in its buffer.   *)
RECURSIVE Printable(_), StatementsPrintable(_)

Room(text, buffers) == Len(text) < MAX_STMT_STR_LEN * buffers

Parts(node) ==
    CASE node.type = "PREFIX" -> << node.right >>
      [] node.type = "INFIX" -> << node.left, node.right >>
      [] node.type = "INDEX" -> << node.left, node.index >>
      [] node.type = "ARRAY" -> node.elements
      [] node.type = "CALL" -> << node.fn >> \o node.args
      [] OTHER -> << >>

Printable(node) ==
    /\ node.type \notin {"STRING", "HASH", "IF"}
    /\ \A i \in DOMAIN Parts(node) : Printable(Parts(node)[i])
    /\ node.type = "FN" => StatementsPrintable(node.body)
    /\ node.type \notin {"IDENT", "INT", "BOOL"} => Room(ExpressionString(node), 1)

StatementPrintable(node) ==
    /\ Printable(node.value)
    /\ node.type # "EXPR" => Room(StatementString(node), 1)

StatementsPrintable(nodes) ==
    /\ \A i \in DOMAIN nodes : StatementPrintable(nodes[i])
    /\ Room(StatementsString(nodes), Len(nodes))
=============================================================================
