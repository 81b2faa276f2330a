----------------------------- MODULE MCCompiler -----------------------------
(* Instances of Compiler for TLC; the programs are those of MonkeyPrograms. *)
EXTENDS Compiler, Functions

M == INSTANCE MonkeyPrograms
BalancedPrograms == M!Balanced
MNames == M!Identifiers
MPrefixFree == M!PrefixFree
MBuiltinIndex == M!BuiltinPositions
Texts == INSTANCE Inspector WITH MAX_STMT_STR_LEN <- 100, INSPECT_STR_LEN <- 1024
MHasText(o) == Texts!Inspectable(o)

(* The programs are such as the proofs about the compiler speak of.        *)
MTrees == M!Within(UNION {Range(p) : p \in BalancedPrograms})
ASSUME ProgramsAssumption ==
    HoldsParts(MTrees) /\ Balanced(MTrees) /\ BalancedPrograms \subseteq ProgramsOf(MTrees)

(* 127 statements that take two bytes each: 254 bytes.  One more statement *)
(* fills the byte in which the length of the code is kept.                 *)
Flood(n) == [i \in 1..n |-> M!Ex(M!Bool(TRUE))]
FloodPrograms == {Flood(n) : n \in {127, 128}}
=============================================================================
