-------------------------- MODULE MonkeyPrograms ----------------------------
(***************************************************************************)
(* Small programs for the model checker: syntax trees in the form that     *)
(* Compiler expects, in families that between them make every decision of  *)
(* compile() and of vm_run() both ways.  Every tree is one the parser      *)
(* builds.  No conditional has a block that is empty or ends in a let: what *)
(* compile() emits for one leaves no value where one is popped.            *)
(***************************************************************************)
EXTENDS Naturals, Sequences, TLC

CONSTANT NULL

Identifiers == {"a", "b", "c", "f", "g", "nowhere", "len", "first", "rest", "push", "puts", "last"}
PrefixFree == [n \in Identifiers |-> {}]
BuiltinPositions == [n \in Identifiers |-> CASE n = "len" -> 0 [] n = "first" -> 1 [] n = "rest" -> 2
                                    [] n = "push" -> 3 [] n = "puts" -> 4 [] n = "last" -> 5
                                    [] OTHER -> NULL]

Int(n) == [type |-> "INT", int |-> n, literal |-> ToString(n)]
Str(s) == [type |-> "STRING", string |-> s]
Bool(b) == [type |-> "BOOL", bool |-> b]
Id(x) == [type |-> "IDENT", name |-> x]
Prefix(o, r) == [type |-> "PREFIX", operator |-> o, right |-> r]
Infix(l, o, r) == [type |-> "INFIX", operator |-> o, left |-> l, right |-> r]
Array(es) == [type |-> "ARRAY", elements |-> es]
HashOf(ps) == [type |-> "HASH", pairs |-> ps]
Index(l, i) == [type |-> "INDEX", left |-> l, index |-> i]
If(c, t, e) == [type |-> "IF", condition |-> c, consequence |-> t, alternative |-> e]
Fn(name, ps, body) == [type |-> "FN", name |-> name, params |-> ps, body |-> body]
Apply(f, args) == [type |-> "CALL", fn |-> f, args |-> args]
Let(x, v) == [type |-> "LET", name |-> x, value |-> v]
Ret(v) == [type |-> "RETURN", value |-> v]
Ex(v) == [type |-> "EXPR", value |-> v]

LetFn(x, ps, body) == Let(x, Fn(x, ps, body))
Lambda(ps, body) == Fn(NULL, ps, body)

-----------------------------------------------------------------------------
InfixOperators == {"+", "-", "*", "/", ">", "<", "==", "!="}

(* Every operator on operands of every kind, the second from a variable.   *)
Operands == {Int(6), Bool(TRUE), Str("s"), Array(<<Int(1)>>)}
OperatorPrograms ==
    {<< Let("a", r), Ex(Infix(l, o, Id("a"))) >> : l \in Operands, o \in InfixOperators, r \in Operands}
    \cup {<< Ex(Prefix(o, Prefix(p, r))) >> : o \in {"!", "-"}, p \in {"!", "-"}, r \in Operands}

(* Arrays, hashes, and indexes in and out of range or of the wrong type.   *)
Collections == {Array(<< >>), Array(<<Int(7), Infix(Int(1), "+", Int(7))>>), HashOf(<< >>),
                HashOf(<< <<Int(1), Int(7)>>, <<Bool(TRUE), Array(<<Int(8)>>)>> >>), Int(1)}
CollectionPrograms ==
    {<< Ex(Index(c, i)) >> : c \in Collections,
        i \in {Int(0), Int(1), Int(2), Prefix("-", Int(1)), Bool(TRUE), Array(<< >>)}}
    \cup {<< Ex(Apply(Id(b), <<c>>)) >> :
             b \in {"len", "first", "rest", "last"}, c \in Collections}
    \cup {<< Ex(Apply(Id("push"), <<c, Int(4)>>)) >> : c \in Collections}

(* Conditionals within the blocks of conditionals.                         *)
Conditions == {Bool(TRUE), Infix(Int(1), ">", Int(2)), If(Bool(FALSE), << Ex(Int(1)) >>, NULL)}
FlatBlocks == {<< Ex(Int(1)) >>, << Let("b", Int(2)), Ex(Int(3)), Ex(Id("b")) >>}
NestedBlocks == FlatBlocks
    \cup {<< Ex(If(c, t, e)) >> : c \in {Bool(TRUE)}, t \in FlatBlocks, e \in FlatBlocks \cup {NULL}}
Conditionals == {If(c, t, e) : c \in Conditions, t \in NestedBlocks, e \in NestedBlocks \cup {NULL}}
ConditionalPrograms == {<< Ex(Int(5)), Ex(c) >> : c \in Conditionals}

(* The same in a function, with blocks that return from it.                *)
ReturningBlocks == {<< Ret(Int(4)) >>, << Ex(Id("a")) >>, << Ex(If(Id("a"), << Ret(Int(4)) >>, NULL)) >>}
ReturningIfs == {If(Id("a"), t, e) : t \in ReturningBlocks, e \in ReturningBlocks \cup {NULL}}
ReturnPrograms ==
    {<< LetFn("f", <<"a">>, body), Ex(Apply(Id("f"), <<Bool(arg)>>)) >> :
        arg \in BOOLEAN,
        body \in {<< Ex(i) >> : i \in ReturningIfs}
                 \cup {<< Let("b", i), Ret(Id("b")) >> : i \in ReturningIfs}
                 \cup {<< Ret(i) >> : i \in ReturningIfs}
                 \cup {<< >>, << Let("b", Id("a")) >>}}

(* Three functions in each other, the innermost using two of the names in  *)
(* sight, some captured through the middle one, some redefined there.      *)
Reachable == {"a", "b", "c", "f", "g", "len", "nowhere"}
Middles == {<< >>, << Let("a", Int(2)) >>}
ClosurePrograms ==
    {<< Let("c", Int(9)),
        LetFn("f", <<"a">>,
              << Let("b", Infix(Id("a"), "+", Int(1))),
                 LetFn("g", << >>, middle \o << Ex(Lambda(<<"c">>, << Ex(Array(<<Id(x), Id(y)>>)) >>)) >>),
                 Ex(Apply(Id("g"), << >>)) >>),
        Ex(Apply(Apply(Id("f"), <<Int(1)>>), <<Int(5)>>)) >> :
        middle \in Middles, x \in Reachable, y \in Reachable}

(* Recursion, through the global and through the function's own name.      *)
CountDown(f) == Fn(f, <<"a">>, << Ex(If(Infix(Id("a"), "==", Int(0)), << Ret(Int(9)) >>,
                                        << Ex(Apply(Id(f), <<Infix(Id("a"), "-", Int(1))>>)) >>)) >>)
RecursionPrograms ==
    {<< Let("f", CountDown("f")), Ex(Apply(Id("f"), <<Int(n)>>)) >> : n \in 0..2}
    \cup {<< Let("g", Lambda(<< >>, << Let("f", CountDown("f")), Ex(Apply(Id("f"), <<Int(n)>>)) >>)),
             Ex(Apply(Id("g"), << >>)) >> : n \in 0..2}

(* Calls of what is no function, and with too few or too many arguments.   *)
CallPrograms ==
    {<< LetFn("f", <<"a">>, << Ex(Id("a")) >>), Ex(Infix(Int(1), "+", Apply(fn, args))) >> :
        fn \in {Id("f"), Id("len"), Int(3)}, args \in {<< >>, <<Int(1)>>, <<Array(<<Int(1), Int(2)>>), Int(3)>>}}

(* A builtin that a function calls without naming it.                      *)
HandedOnPrograms ==
    {<< LetFn("f", <<"a">>, << Ex(Apply(Id("a"), <<x>>)), Ex(Apply(Id("a"), <<x>>)) >>),
        Ex(Infix(Int(1), "+", Apply(Id("f"), <<Id("len")>>))) >> : x \in {Int(3), Str("s")}}

(* Values that are put, or are in an array that the line comes to: the     *)
(* functions have bodies that the printer of trees can print and such that *)
(* it cannot; the array of 1023 characters has just room in its buffer.    *)
Ten == "0123456789"
Hundred == Ten \o Ten \o Ten \o Ten \o Ten \o Ten \o Ten \o Ten \o Ten \o Ten
LongArray(n) == Array([i \in 1..10 |-> Str(Hundred)] \o <<Int(n)>>)
Bodies == {<< >>, << Ex(Str("s")) >>, << Ex(If(Id("a"), << Ex(Int(1)) >>, NULL)) >>,
           << Ex(Apply(Id("f"), <<HashOf(<< >>)>>)) >>, << Let("b", Prefix("!", Id("a"))), Ret(Id("b")) >>,
           << Ex(Infix(Index(Array(<<Id("a"), Int(1)>>), Int(0)), "+", Int(12))) >>}
ShownPrograms ==
    {<< LetFn("f", <<"a", "c">>, << Ex(Id("a")) >>), Ex(show) >> :
        show \in UNION {{Apply(Id("puts"), <<Str("s"), v>>), Array(<<v>>)} :
                       v \in {Lambda(<<"a", "b">>, body) : body \in Bodies} \cup {Array(<<Int(7)>>), Bool(TRUE)}}}
    \cup {<< Ex(LongArray(1)) >>}

Balanced == OperatorPrograms \cup CollectionPrograms \cup ConditionalPrograms \cup ReturnPrograms
            \cup ClosurePrograms \cup RecursionPrograms \cup CallPrograms \cup HandedOnPrograms
            \cup ShownPrograms

(* Values that have no text in either engine: hashes, arrays that hold one *)
(* and an array of one character too many.                                 *)
TextlessValues ==
    {HashOf(<< >>), HashOf(<< <<Int(1), Str("s")>> >>), Array(<<Int(1), Array(<<HashOf(<< >>)>>)>>),
     LongArray(12)}
TextlessPrograms ==
    UNION {{<< Ex(v) >>, << Let("a", v), Ex(Apply(Id("puts"), <<Int(1), Id("a")>>)), Ex(Int(2)) >>} :
             v \in TextlessValues}

-----------------------------------------------------------------------------
(* Sessions of two lines: what the first leaves - a value, a function, a   *)
(* function of a global, nothing because it fails - is used by the second. *)
FirstLines == {<< Let("a", Int(5)) >>,
               << Let("a", Int(5)), LetFn("f", << >>, << Ex(Id("a")) >>) >>,
               << LetFn("f", <<"b">>, << Ex(Lambda(<< >>, << Ex(Id("b")) >>)) >>) >>,
               << Let("b", Int(5)),
                  LetFn("f", <<"a">>, << Ex(Lambda(<< >>, << Ex(Array(<<Id("a"), Id("nowhere")>>)) >>)) >>) >>,
               << Let("a", Infix(Int(1), "+", Bool(TRUE))) >>,
               << LetFn("f", << >>, << Ex(Infix(Int(1), "+", Bool(TRUE))) >>), Ex(Apply(Id("f"), << >>)),
                  Let("a", Int(5)) >>}
SecondLines == {<< Ex(Id("a")) >>,
                << Let("a", Int(7)), Ex(Infix(Id("a"), "*", Int(2))) >>,
                << Let("a", Int(7)), Ex(Apply(Id("f"), << >>)) >>,
                << Ex(Apply(Apply(Id("f"), <<Int(3)>>), << >>)) >>,
                << Ex(Array(<<Int(1), Id("a")>>)) >>,
                << Let("b", Id("f")), Ex(Lambda(<<"a">>, << Ex(Id("b")) >>)) >>}
TwoLines == {<<first, second>> : first \in FirstLines, second \in SecondLines}

(* The nodes of trees, and the nodes below them.                           *)
Fns == INSTANCE Functions
Children(n) ==
    CASE n.type \in {"LET", "EXPR", "RETURN"} -> {n.value}
      [] n.type = "INFIX" -> {n.left, n.right}
      [] n.type = "PREFIX" -> {n.right}
      [] n.type = "ARRAY" -> Fns!Range(n.elements)
      [] n.type = "HASH" -> UNION {Fns!Range(pair) : pair \in Fns!Range(n.pairs)}
      [] n.type = "INDEX" -> {n.left, n.index}
      [] n.type = "CALL" -> {n.fn} \cup Fns!Range(n.args)
      [] n.type = "IF" -> {n.condition} \cup Fns!Range(n.consequence)
                            \cup (IF n.alternative = NULL THEN {} ELSE Fns!Range(n.alternative))
      [] n.type = "FN" -> Fns!Range(n.body)
      [] OTHER -> {}
RECURSIVE Within(_)
Within(nodes) == IF nodes = {} THEN {} ELSE nodes \cup Within(UNION {Children(n) : n \in nodes})
=============================================================================
