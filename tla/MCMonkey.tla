------------------------------ MODULE MCMonkey ------------------------------
(* Instances of Monkey for TLC; the programs are those of MonkeyPrograms. *)
EXTENDS Monkey, Functions

M == INSTANCE MonkeyPrograms
MNames == M!Identifiers
MPrefixFree == M!PrefixFree
MBuiltinIndex == M!BuiltinPositions
MGlobalSlots == 0..3
NoPrograms == {}
Texts == INSTANCE Inspector WITH MAX_STMT_STR_LEN <- 100, INSPECT_STR_LEN <- 1024
MHasText(o) == Texts!Inspectable(o)

(* A function that calls itself for ever.                                  *)
EndlessRecursion == {<< << M!LetFn("f", << >>, << M!Ex(M!Apply(M!Id("f"), << >>)) >>),
                           M!Ex(M!Apply(M!Id("f"), << >>)) >> >>}

(* Programs that come to something undefined, one way or another.          *)
Ones(n) == [i \in 1..n |-> M!Int(1)]
UnsetParts == {M!Prefix("-", M!Id("b")), M!Apply(M!Id("puts"), <<M!Array(<<M!Id("b")>>)>>),
               M!Apply(M!Id("first"), <<M!Array(<<M!Id("b")>>)>>), M!Apply(M!Id("b"), << >>)}
FaultyPrograms ==
    {<< M!Ret(M!Int(10)) >>,
     << M!Ex(M!Infix(M!Int(1), "/", M!Int(0))) >>,
     << M!Ex(M!Index(M!HashOf(<< <<M!Array(<< >>), M!Int(1)>> >>), M!Int(1))) >>,
     << M!Let("a", M!Infix(M!Id("a"), "+", M!Int(1))) >>,
     << M!Let("a", M!Int(1)), M!Let("a", M!Infix(M!Id("a"), "+", M!Int(1))), M!Ex(M!Id("a")) >>,
     << M!Let("a", M!Int(1)), M!Ex(M!Array(Append(Ones(STACK_SIZE + 1), M!Id("a")))) >>,
     << M!Let("a", M!Int(1)), M!Ex(M!Array(Ones(STACK_SIZE + 1))), M!Ex(M!Id("a")) >>}
    \cup {<< M!LetFn("f", << >>, << M!Let("b", part) >>), M!Ex(M!Apply(M!Id("f"), << >>)) >> :
            part \in UnsetParts}

(* Lines that fill the pool of constants, on their own or one after the    *)
(* other, and functions within each other that need more scopes than there *)
(* are.                                                                    *)
Flood(n) == [i \in 1..n |-> M!Ex(M!Int(i))]
Half == MAX_CONSTANTS \div 2
Nested ==
    LET nest[n \in 0..MAX_SCOPES] ==
          IF n = 0 THEN M!Str("s") ELSE M!Lambda(<< >>, << M!Ex(nest[n - 1]) >>)
    IN  nest[MAX_SCOPES]
Overrunning ==
    {<< << M!Ex(M!Array(Ones(MAX_CONSTANTS + 1))) >> >>, << Flood(Half + 1), Flood(Half + 1) >>,
     << Flood(Half), Flood(Half), << M!Ex(M!Lambda(<< >>, << >>)) >> >>, << << M!Ex(Nested) >> >>}

Faulty == {<<p>> : p \in FaultyPrograms \cup M!TextlessPrograms} \cup EndlessRecursion \cup Overrunning

MSessions == {<<p>> : p \in M!Balanced} \cup M!TwoLines \cup Faulty

(* The sessions are such as the proofs about the machine speak of.         *)
MPrograms == UNION {Range(s) : s \in MSessions}
MTrees == M!Within(UNION {Range(p) : p \in MPrograms})
ASSUME SessionsAssumption ==
    HoldsParts(MTrees) /\ Balanced(MTrees) /\ MSessions \subseteq Seq(ProgramsOf(MTrees))

(* In all other sessions nothing undefined happens unless an earlier line  *)
(* failed and left a variable that has a slot and no value: no operand is  *)
(* missing, no variable is read that was never set, no jump or return goes *)
(* nowhere.                                                                *)
Failed == \E i \in DOMAIN output : output[i] = Error
UndefinedOnlyAfterFailure == status = "undefined" /\ session \notin Faulty => Failed

(* Programs of test_builtin_functions in src/evaluator/evaluator_test.c,   *)
(* lines 282 to 292, with the value expected there.                        *)
Ints(ns) == M!Array([i \in DOMAIN ns |-> M!Int(ns[i])])
BuiltinTests ==
    {[program |-> << M!Ex(M!Apply(M!Id("len"), << Ints(<<1, 2>>) >>)) >>, value |-> 2],
     [program |-> << M!Ex(M!Apply(M!Id("first"), << Ints(<<1, 2>>) >>)) >>, value |-> 1],
     [program |-> << M!Ex(M!Index(M!Apply(M!Id("rest"), << Ints(<<1, 2>>) >>), M!Int(0))) >>, value |-> 2],
     [program |-> << M!Ex(M!Apply(M!Id("len"), << M!Apply(M!Id("rest"), << Ints(<<1, 2, 3, 4>>) >>) >>)) >>,
      value |-> 3],
     [program |-> << M!Let("a", Ints(<<1>>)), M!Let("b", M!Apply(M!Id("push"), <<M!Id("a"), M!Int(5)>>)),
                     M!Ex(M!Apply(M!Id("last"), <<M!Id("b")>>)) >>, value |-> 5]}
BuiltinSessions == {<<test.program>> : test \in BuiltinTests}

(* The machine prints what the test of the evaluator expects of the same   *)
(* program: the two engines are two ways to run one language.              *)
ValuesAsTested ==
    \A test \in BuiltinTests :
        (session = <<test.program>> /\ output # << >>) => output = << Integer(test.value) >>
=============================================================================
