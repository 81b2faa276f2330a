----------------------------- MODULE CodeStream -----------------------------
(***************************************************************************)
(* Writing a stream of instructions and listing it again: code_make_nv and *)
(* code_concat_ins, then the walk of instructions_str, src/code/code.c.    *)
(*                                                                         *)
(* A stream is built instruction by instruction; its length is a UInt8     *)
(* (code.h), so a stream that outgrows 255 bytes is cut.  The listing      *)
(* looks at the first byte of what is left, prints a line and moves on by  *)
(* the bytes it read; on a byte that is no opcode it prints an error and   *)
(* does not move.                                                          *)
(***************************************************************************)
EXTENDS Bytecode

CONSTANTS Instructions,     \* the instructions to write: records [op, operands]
          MaxInstructions   \* bound: instructions in a stream

ASSUME InstructionsAssumption ==
    \A ins \in Instructions : ins.op \in OpCode /\ Encodable(ins.op, ins.operands)

VARIABLES stream,   \* the bytes written
          written,  \* history: what was written, with its position
          rest,     \* the position of the first byte not listed yet, or Idle
          listing   \* the lines printed
vars == <<stream, written, rest, listing>>

Idle == -1
UInt8(n) == n % 256

(* The bytes that the length of a concatenation shows.                     *)
Concat(s, t) == SubSeq(s \o t, 1, UInt8(Len(s) + Len(t)))

Init == stream = << >> /\ written = << >> /\ rest = Idle /\ listing = << >>

Write(ins) ==
    /\ rest = Idle /\ Len(written) < MaxInstructions
    /\ stream' = Concat(stream, Make(ins.op, ins.operands))
    /\ written' = Append(written, [pos |-> Len(stream), op |-> ins.op, operands |-> ins.operands])
    /\ UNCHANGED <<rest, listing>>

(* instructions_str is called.                                             *)
Start ==
    /\ rest = Idle /\ listing = << >>
    /\ rest' = 0
    /\ UNCHANGED <<stream, written, listing>>

(* One turn of its loop on a byte that is one of the known opcodes.        *)
ListOne(known) ==
    /\ rest # Idle /\ rest < Len(stream)
    /\ LET op == ByteAt(stream, rest)
       IN  /\ op \in known
           /\ listing' = Append(listing, [pos |-> rest, op |-> op,
                                          operands |-> ReadOperands(op, stream, rest)])
           /\ rest' = rest + InstructionLength(op)
    /\ UNCHANGED <<stream, written>>

(* Faulty: code_opcode_lookup has no case for the last opcode.             *)
ListAllButGetFree == ListOne(OpCode \ {OP.GET_FREE})
ListInstruction == ListOne(OpCode)

Next == (\E ins \in Instructions : Write(ins)) \/ Start \/ ListInstruction
Spec == Init /\ [][Next]_vars /\ WF_vars(ListInstruction)

-----------------------------------------------------------------------------
TypeOK ==
    /\ stream \in Seq(Byte) /\ Len(stream) < 256
    /\ rest \in Nat \cup {Idle}
    /\ \A i \in DOMAIN written : Encodable(written[i].op, written[i].operands)

(* What is listed is what was written: the walk lands on every instruction *)
(* and on nothing else, and reads back the operands that were encoded.     *)
ListingFaithful ==
    /\ Len(listing) <= Len(written)
    /\ \A i \in DOMAIN listing : listing[i] = written[i]

(* The disassembler gets through every stream code_make can build: it      *)
(* never meets a byte that is no opcode and never stops half way.          *)
ListingEnds == (rest = 0) ~> (rest = Len(stream) /\ Len(listing) = Len(written))
=============================================================================
