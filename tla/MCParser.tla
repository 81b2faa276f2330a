------------------------------ MODULE MCParser ------------------------------
(***************************************************************************)
(* Instances of ReadPrint for TLC.  The texts are written from syntax      *)
(* trees by the rules of the language - an operand is put in parentheses   *)
(* only where the order of evaluation asks for it - once with blanks and   *)
(* once with as few as possible, so that the parser has a tree to find.    *)
(***************************************************************************)
EXTENDS ReadPrint

M == INSTANCE MonkeyPrograms WITH NULL <- Unset

(* How strongly a node binds: an infix operator as its sign, a prefix      *)
(* operator more strongly than all of these, a call or an index yet more.  *)
Strength(node) ==
    CASE node.type = "INFIX" /\ node.operator \in {"==", "!="} -> 1
      [] node.type = "INFIX" /\ node.operator \in {"<", ">"} -> 2
      [] node.type = "INFIX" /\ node.operator \in {"+", "-"} -> 3
      [] node.type = "INFIX" /\ node.operator \in {"*", "/"} -> 4
      [] node.type = "PREFIX" -> 5
      [] OTHER -> 6

RECURSIVE Text(_, _), Texts(_, _), Statements(_, _)

(* The text of a node; b is the blank between tokens that need none.       *)
In(node, strength, b) ==
    IF Strength(node) < strength THEN "(" \o Text(node, b) \o ")" ELSE Text(node, b)

Texts(nodes, b) == [i \in DOMAIN nodes |-> Text(nodes[i], b)]
Listed(nodes, b) == Joined(Texts(nodes, b), "," \o b)

Text(node, b) ==
    CASE node.type = "IDENT" -> node.name
      [] node.type = "INT" -> ToString(node.int)
      [] node.type = "BOOL" -> IF node.bool THEN "true" ELSE "false"
      [] node.type = "STRING" -> "\"" \o node.string \o "\""
      [] node.type = "PREFIX" -> node.operator \o In(node.right, 5, b)
      [] node.type = "INFIX" -> In(node.left, Strength(node), b) \o b \o node.operator \o b
                                \o In(node.right, Strength(node) + 1, b)
      [] node.type = "INDEX" -> In(node.left, 6, b) \o "[" \o Text(node.index, b) \o "]"
      [] node.type = "ARRAY" -> "[" \o Listed(node.elements, b) \o "]"
      [] node.type = "HASH" -> "{" \o Joined([i \in DOMAIN node.pairs |->
                                     Text(node.pairs[i][1], b) \o ":" \o b \o Text(node.pairs[i][2], b)],
                                   "," \o b) \o "}"
      [] node.type = "CALL" -> In(node.fn, 6, b) \o "(" \o Listed(node.args, b) \o ")"
      [] node.type = "IF" -> "if" \o b \o "(" \o Text(node.condition, b) \o ")" \o b \o "{"
                             \o Statements(node.consequence, b) \o "}"
                             \o (IF node.alternative = Unset THEN ""
                                 ELSE b \o "else" \o b \o "{" \o Statements(node.alternative, b) \o "}")
      [] node.type = "FN" -> "fn(" \o Joined(node.params, "," \o b) \o ")" \o b \o "{"
                             \o Statements(node.body, b) \o "}"
      [] node.type = "LET" -> "let " \o node.name \o b \o "=" \o b \o Text(node.value, b)
      [] node.type = "RETURN" -> "return " \o Text(node.value, b)
      [] node.type = "EXPR" -> Text(node.value, b)

Statements(nodes, b) == IF nodes = << >> THEN "" ELSE Joined(Texts(nodes, b), ";" \o b) \o ";" \o b

-----------------------------------------------------------------------------
(* Operators within operators, two levels deep on both sides.              *)
Atoms == {M!Id("a"), M!Int(10)}
Signed == {"==", "<", "-", "*"}
Level1 == {M!Infix(M!Id("a"), o, M!Int(10)) : o \in Signed}
          \cup {M!Prefix("-", M!Id("a")), M!Index(M!Id("a"), M!Int(10)), M!Apply(M!Id("f"), <<M!Id("a")>>)}
Level2 == {M!Infix(l, o, r) : l \in Level1, o \in Signed \cup {"!=", ">", "+", "/"}, r \in Level1 \cup {M!Id("b")}}
          \cup {M!Prefix(o, r) : o \in {"!", "-"}, r \in Level1}
          \cup {M!Index(l, i) : l \in Level1, i \in Level1}
          \cup {M!Apply(f, <<x, M!Id("b")>>) : f \in Level1, x \in Level1}
          \cup {M!Array(<<x, y>>) : x \in Level1, y \in Atoms}
Level3 == {M!Infix(M!Infix(M!Id("b"), o, x), p, M!Id("c")) : o \in Signed, p \in Signed, x \in Level1}
          \cup {M!Infix(M!Id("b"), o, M!Infix(x, p, M!Id("c"))) : o \in Signed, p \in Signed, x \in Level1}

Written == {<<M!Ex(e)>> : e \in Level2 \cup Level3} \cup {<<M!Let("f", e)>> : e \in Level1}
           \cup {<<M!Ret(e), M!Ex(M!Id("b"))>> : e \in Level1}
           \cup M!CollectionPrograms \cup M!ReturnPrograms \cup M!RecursionPrograms

WrittenTexts == {Statements(p, b) : p \in Written, b \in {"", " "}}

-----------------------------------------------------------------------------
(* Texts with one character too few, too many or wrong.                    *)
Sound == {"let f = fn(a, b) { return a; };", "if (a) { b } else { -1 }", "f(a, [1])[0] + 10;",
          "{a: \"b\", 1: 2}", "let a = !(1 < 2) == true; a"}
Slips == {"", "(", ")", "}", "{", "]", ",", "=", "@", "0", "\""}
Slipped(t) ==
    {SubSeq(t, 1, i - 1) \o c \o SubSeq(t, i + n, Len(t)) :
        i \in 1..Len(t), c \in Slips, n \in {0, 1}}
    \cup {SubSeq(t, 1, i) : i \in 0..Len(t)}

(* Names, numbers, strings and texts at the edge of their buffers.         *)
Edges == {"abcdefghi", "abcdefgh", "let abcdefghi = 1;", "123456789", "12345678", "\"abcdefghijkl\"",
          "\"abcdefghijklm\"", "007 + 0", "00", "0000 + 1",
          "00000"}

MSources == WrittenTexts \cup UNION {Slipped(t) : t \in Sound} \cup Edges

-----------------------------------------------------------------------------
(* The parser finds the tree that a text was written from, the only one    *)
(* that is written as that text: the operands of every operator are those  *)
(* that precedence, associativity and parentheses give it, blanks or not,  *)
(* and nothing of the text is lost.                                        *)
FindsTheTree ==
    (first = Unset /\ status # "parsing" /\ text \in WrittenTexts) =>
        /\ errors = 0
        /\ \E b \in {"", " "} : Statements(result.items, b) = text
=============================================================================
