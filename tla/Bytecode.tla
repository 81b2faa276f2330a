------------------------------ MODULE Bytecode ------------------------------
(***************************************************************************)
(* The instruction set and its encoding, src/code/code.c and code.h.       *)
(*                                                                         *)
(* An instruction is a byte with its opcode and then its operands, each of *)
(* one or two bytes, the high byte first.  Positions in code are offsets   *)
(* from 0, as in the source; a stream of bytes is a TLA+ sequence, so the  *)
(* byte at position p is element p + 1.                                    *)
(***************************************************************************)
EXTENDS Naturals, Integers, Sequences

(* enum OpCodes.                                                           *)
OP == [ CONSTANT |-> 0,  ADD |-> 1,  POP |-> 2,  SUB |-> 3,  MUL |-> 4,  DIV |-> 5,
        TRUE |-> 6,  FALSE |-> 7,  NULL |-> 8,  EQUAL |-> 9,  NOT_EQUAL |-> 10,
        GREATER_THAN |-> 11,  MINUS |-> 12,  BANG |-> 13,  JUMP |-> 14,
        JUMP_NOT_TRUTHY |-> 15,  SET_GLOBAL |-> 16,  GET_GLOBAL |-> 17,
        SET_LOCAL |-> 18,  GET_LOCAL |-> 19,  ARRAY |-> 20,  HASH |-> 21,
        INDEX |-> 22,  CALL |-> 23,  RETURN |-> 24,  RETURN_VALUE |-> 25,
        GET_BUILTIN |-> 26,  CLOSURE |-> 27,  CURRENT_CLOSURE |-> 28,  GET_FREE |-> 29 ]

OpCode == 0..29
Byte == 0..255

(* code_opcode_lookup: the widths of the operands of an opcode.            *)
TwoByteOps == {OP.CONSTANT, OP.SET_GLOBAL, OP.GET_GLOBAL, OP.ARRAY, OP.HASH,
               OP.JUMP, OP.JUMP_NOT_TRUTHY}
OneByteOps == {OP.SET_LOCAL, OP.GET_LOCAL, OP.GET_BUILTIN, OP.CALL, OP.GET_FREE}
Widths(op) ==
    IF op \in TwoByteOps THEN <<2>>
    ELSE IF op \in OneByteOps THEN <<1>>
    ELSE IF op = OP.CLOSURE THEN <<2, 1>>
    ELSE << >>

Width(op, i) == IF i <= Len(Widths(op)) THEN Widths(op)[i] ELSE 0

(* The opcode and its operands: no opcode has more than two.               *)
InstructionLength(op) == 1 + Width(op, 1) + Width(op, 2)

(* code_make: an operand is cut to the bytes its width gives it.           *)
HighByte(n) == (n \div 256) % 256
LowByteUncut(n) == n     \* faulty: the operand is not cut to a byte
LowByte(n) == n % 256
OperandBytes(op, i, operands) ==
    IF Width(op, i) = 2 THEN << HighByte(operands[i]), LowByte(operands[i]) >>
    ELSE IF Width(op, i) = 1 THEN << LowByte(operands[i]) >>
    ELSE << >>
Make(op, operands) == <<op>> \o OperandBytes(op, 1, operands) \o OperandBytes(op, 2, operands)

ByteAt(code, pos) == code[pos + 1]
ReadUint16Swapped(code, pos) ==     \* faulty: the low byte first
    ByteAt(code, pos) + ByteAt(code, pos + 1) * 256
ReadUint16(code, pos) == ByteAt(code, pos) * 256 + ByteAt(code, pos + 1)

(* code_read_operands of the instruction at pos.                           *)
OperandOffset(op, i) == IF i = 1 THEN 1 ELSE 1 + Width(op, 1)
ReadOperands(op, code, pos) ==
    [i \in DOMAIN Widths(op) |->
        IF Width(op, i) = 2 THEN ReadUint16(code, pos + OperandOffset(op, i))
        ELSE ByteAt(code, pos + OperandOffset(op, i))]

(* The operands that code_make keeps whole.                                *)
ByteValues == 256
Limit(width) == IF width = 2 THEN ByteValues * ByteValues ELSE ByteValues
Encodable(op, operands) ==
    /\ operands \in Seq(Nat) /\ Len(operands) = Len(Widths(op))
    /\ \A i \in DOMAIN operands : operands[i] < Limit(Widths(op)[i])
=============================================================================
