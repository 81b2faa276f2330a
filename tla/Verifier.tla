------------------------------ MODULE Verifier ------------------------------
(***************************************************************************)
(* When is a stream of bytecode safe to run?  vm.c checks nothing: it      *)
(* reads operands past the end of the stream if it is cut there, jumps     *)
(* wherever a jump says, and pops whatever is below an empty stack.  Code  *)
(* is safe when it can be cut into whole instructions, every jump lands on *)
(* one of them, and every instruction is always reached with the same      *)
(* number of operands on the stack, which is enough for it.                *)
(*                                                                         *)
(* These are definitions for the properties of the compiler and of the     *)
(* machine; they model no code of the repository.                          *)
(***************************************************************************)
EXTENDS Bytecode, FiniteSets

Ends == {OP.RETURN, OP.RETURN_VALUE}
Jumps == {OP.JUMP, OP.JUMP_NOT_TRUTHY}
Loads == {OP.CONSTANT, OP.TRUE, OP.FALSE, OP.NULL, OP.GET_GLOBAL, OP.GET_LOCAL,
          OP.GET_BUILTIN, OP.CURRENT_CLOSURE, OP.GET_FREE}
BinaryOps == {OP.ADD, OP.SUB, OP.MUL, OP.DIV, OP.EQUAL, OP.NOT_EQUAL, OP.GREATER_THAN,
              OP.INDEX}

Operands(code, p) == ReadOperands(ByteAt(code, p), code, p)

(* What the instruction at p takes off the stack of its frame ...          *)
Pops(code, p) ==
    LET op == ByteAt(code, p)
    IN  CASE op \in Loads \cup {OP.JUMP, OP.RETURN} -> 0
          [] op \in BinaryOps -> 2
          [] op \in {OP.ARRAY, OP.HASH} -> Operands(code, p)[1]
          [] op = OP.CALL -> Operands(code, p)[1] + 1
          [] op = OP.CLOSURE -> Operands(code, p)[2]
          [] OTHER -> 1

(* ... and what it leaves there.                                           *)
Pushes(code, p) ==
    IF ByteAt(code, p) \in {OP.POP, OP.SET_GLOBAL, OP.SET_LOCAL} \cup Jumps \cup Ends THEN 0 ELSE 1

(* The offsets at which instructions begin, reading from the first byte.   *)
Starts(code) ==
    LET from[p \in Nat] ==
          IF p < Len(code) /\ ByteAt(code, p) \in OpCode
          THEN {p} \cup from[p + InstructionLength(ByteAt(code, p))]
          ELSE {p}
    IN  from[0]

(* Where the instruction at p continues.                                   *)
Successors(code, p) ==
    LET op == ByteAt(code, p)
        next == {p + InstructionLength(op)}
    IN  CASE op \in Ends -> {}
          [] op = OP.JUMP -> {Operands(code, p)[1]}
          [] op = OP.JUMP_NOT_TRUTHY -> next \cup {Operands(code, p)[1]}
          [] OTHER -> next

(* What running the instruction at p adds to the places that are reached.  *)
Forward(code, before, p) ==
    before \cup {<<q, r[2] - Pops(code, p) + Pushes(code, p)>> :
                    q \in Successors(code, p), r \in {s \in before : s[1] = p}}

(* The offsets that can be reached, each with the number of operands on    *)
(* the stack there, given that jumps go forward.                           *)
Reached(code) ==
    LET starts == Starts(code)
        upTo[p \in 0..Len(code)] ==
          IF p = 0 THEN {<<0, 0>>}
          ELSE IF p - 1 \in starts THEN Forward(code, upTo[p-1], p - 1) ELSE upTo[p-1]
    IN  upTo[Len(code)]

(* In a function no path may run off the end; the main program ends there, *)
(* with nothing left on the stack.                                         *)
Verifies(code, isMain) ==
    LET starts == Starts(code)
        reached == Reached(code)
    IN  /\ Len(code) \in starts
        /\ \A p \in starts \ {Len(code)} :
             /\ ByteAt(code, p) \in OpCode
             /\ \A q \in Successors(code, p) : q > p /\ q \in starts
        /\ \A r \in reached :
             /\ \A s \in reached : r[1] = s[1] => r[2] = s[2]
             /\ r[1] # Len(code) => r[2] >= Pops(code, r[1])
             /\ r[1] = Len(code) => isMain /\ r[2] = 0

(* The instructions of a stream.                                           *)
Instrs(code) == {[op |-> ByteAt(code, p), operands |-> Operands(code, p)] :
                    p \in Starts(code) \ {Len(code)}}
=============================================================================
