--------------------------- MODULE MCSymbolTable ----------------------------
(* Small instances of SymbolTable for TLC. *)
EXTENDS SymbolTable

CONSTANTS a, ab, len

(* No name extends another one.                                            *)
PrefixFree == [n \in Names |-> {}]

(* The identifier a is a proper prefix of the identifier ab.               *)
AExtendedByAb == [n \in Names |-> IF n = a THEN {ab} ELSE {}]

LenIsBuiltin == [n \in Names |-> IF n = len THEN 0 ELSE NULL]
=============================================================================
