----------------------------- MODULE Inspector ------------------------------
(***************************************************************************)
(* The text of a value, object_inspect of src/object/object.c and the      *)
(* functions it calls: what is written to the terminal for a line, and by  *)
(* the builtin puts.                                                       *)
(*                                                                         *)
(* The text of a function has the text of its body in it, which is made    *)
(* by the printer of syntax trees.  Every text is made in a buffer of      *)
(* INSPECT_STR_LEN characters.                                             *)
(***************************************************************************)
EXTENDS Naturals, Sequences, SequencesExt, TLC

CONSTANTS MAX_STMT_STR_LEN,     \* see Printer
          INSPECT_STR_LEN

Ast == INSTANCE Printer

RECURSIVE Inspect(_)

(* As in array_inspect and function_inspect.                               *)
Listed(texts) ==
    IF texts = << >> THEN ""
    ELSE Head(texts) \o FoldLeft(LAMBDA acc, text : acc \o ", " \o text, "", Tail(texts))

ArrayInspect(elements) ==
    "[" \o Listed([i \in DOMAIN elements |-> Inspect(elements[i])]) \o "]"
FunctionInspect(fn) ==
    "fn(" \o Listed(fn.params) \o ") {\n" \o Ast!StatementsString(fn.body) \o "\n}"

(* A function with an unprintable body, a hash and a missing object have   *)
(* none; they are given the empty one.                                     *)
Inspect(o) ==
    CASE o.t = "INTEGER" -> ToString(o.int)
      [] o.t = "BOOLEAN" -> IF o.bool THEN "true" ELSE "false"
      [] o.t = "STRING" -> o.string
      [] o.t = "NULL" -> "null"
      [] o.t = "RETURN_VALUE" -> "wrapped return_value { " \o Inspect(o.object) \o " }"
      [] o.t = "ARRAY" -> ArrayInspect(o.elements)
      [] o.t = "FUNCTION" /\ Ast!StatementsPrintable(o.body) -> FunctionInspect(o)
      [] o.t = "BUILT_IN" -> "builtin function"
      [] o.t = "CLOSURE" -> "Closure"
      [] OTHER -> ""

(* The texts made in a buffer have room in it.                             *)
Inspectable(o) ==
    /\ o.t = "FUNCTION" => Ast!StatementsPrintable(o.body)
    /\ o.t \in {"ARRAY", "RETURN_VALUE", "FUNCTION"} => Len(Inspect(o)) < INSPECT_STR_LEN
=============================================================================
