----------------------------- MODULE MCEngines ------------------------------
(* Instances of Engines for TLC; the programs are those of MonkeyPrograms. *)
EXTENDS Engines

M == INSTANCE MonkeyPrograms
MNames == M!Identifiers
MPrefixFree == M!PrefixFree
MBuiltinIndex == M!BuiltinPositions
MGlobalSlots == 0..3
NoPrograms == {}
Texts == INSTANCE Inspector WITH MAX_STMT_STR_LEN <- 100, INSPECT_STR_LEN <- 1024
MHasText(o) == Texts!Inspectable(o)

(* Variables of their own value, divisions, hashes, lists and conditionals *)
(* of which one part fails, functions for values.                          *)
Fails == M!Infix(M!Int(1), "+", M!Bool(TRUE))
One(expression) == << M!Ex(expression) >>
SelfNamed ==
    {<< M!Let("a", M!Id("a")) >>, << M!Let("a", M!Infix(M!Id("a"), "+", M!Int(1))), M!Ex(M!Id("a")) >>,
     << M!LetFn("f", << >>, << M!Let("b", M!Id("b")), M!Ex(M!Id("b")) >>), M!Ex(M!Apply(M!Id("f"), << >>)) >>}
Hashes == {One(M!Index(M!HashOf(<< <<M!Int(1), v>>, <<k, v>> >>), M!Int(1))) :
             k \in {M!Int(1), M!Array(<< >>), Fails}, v \in {M!Str("s"), M!Id("len"), Fails}}
EnginePrograms ==
    SelfNamed \cup Hashes \cup
    {<< M!LetFn("f", <<"a", "a">>, << M!Let("b", M!Id("f")), M!Ex(M!Id("a")) >>),
        M!Ex(M!Apply(M!Id("f"), <<M!Int(1), M!Int(2)>>)) >>,
     << M!LetFn("f", <<"len">>, << M!Ex(M!Id("len")) >>), M!Ex(M!Apply(M!Id("f"), <<M!Int(1)>>)) >>}
    \cup {One(M!Infix(l, o, r)) : l \in {M!Int(7), M!Prefix("-", M!Int(7)), Fails},
                                  o \in {"/", "<"}, r \in {M!Int(0), M!Int(2), M!Prefix("-", M!Int(2)), Fails}}
    \cup {One(M!Array(<<M!Int(1), Fails, M!Id("len")>>)), One(M!Array(<<Fails>>)),
          One(M!Prefix("-", Fails)), One(M!If(Fails, One(M!Int(1)), NULL)), One(M!Index(Fails, Fails)),
          One(M!Index(M!Array(<<M!Int(1)>>), Fails)), << >>,
          One(M!Apply(M!Id("puts"), <<M!Index(M!HashOf(<< >>), M!Int(1))>>)),
          << M!Let("f", M!Id("len")), M!Ex(M!Apply(M!Id("f"), <<M!Str("s")>>)) >>,
          << M!LetFn("f", <<"a">>, << M!Ret(M!Id("a")) >>), M!Ex(M!Apply(M!Id("f"), <<Fails>>)) >>,
          << M!LetFn("f", << >>, << M!Ret(M!Id("len")) >>), M!Ex(M!Apply(M!Id("f"), << >>)) >>,
          << M!LetFn("f", << >>, << M!Ret(Fails) >>), M!Ex(M!Apply(M!Id("f"), << >>)) >>}

LinesOf(sessions) == UNION {{s[i] : i \in DOMAIN s} : s \in sessions}
MSessions == {<<p>> : p \in M!Balanced \cup M!TextlessPrograms \cup EnginePrograms} \cup M!TwoLines
MLines == LinesOf(MSessions)

(* Where the engines differ.  A comparison of values of different types    *)
(* reads one as the other or is an error, and so does that of two arrays;  *)
(* a function that ends in a let returns its value or null; a name is      *)
(* looked up when it is used or when it is compiled; a key without a hash  *)
(* is refused at once or when it is looked up; and a global that is        *)
(* defined again is the old one to the functions before it, or the new one.*)
Comparing(l, r) == {<< M!Let("a", r), M!Ex(M!Infix(l, o, M!Id("a"))) >> : o \in {"==", "!="}}
Mixed == UNION {Comparing(t[1], t[2]) : t \in {u \in M!Operands \X M!Operands : u[1].type # u[2].type}}
ArraysCompared == UNION {Comparing(l, l) : l \in {o \in M!Operands : o.type = "ARRAY"}}
EndsInLet == {p \in M!ReturnPrograms : p[1].value.body = << M!Let("b", M!Id("a")) >>}
UsesNowhere(line1) ==
    \E k \in DOMAIN line1 : line1[k].value.type = "FN" /\ line1[k].value.params = <<"a">>
DefinesAgain(s) == Len(s[1]) = 2 /\ s[2][1].type = "LET" /\ s[2][1].name = s[1][1].name
Unhashable == {p \in Hashes : p[1].value.left.pairs[2][1].type = "ARRAY"}
Unsettled == {<<p>> : p \in Mixed \cup ArraysCompared \cup EndsInLet \cup SelfNamed \cup Unhashable}
             \cup {s \in M!TwoLines : UsesNowhere(s[1]) \/ DefinesAgain(s)}
MSettled == MSessions \ Unsettled

(* The first program of test_return_statements in evaluator_test.c.        *)
ReturnTest == {<< << M!Ret(M!Int(10)) >> >>}
ReturnLines == LinesOf(ReturnTest)
=============================================================================
