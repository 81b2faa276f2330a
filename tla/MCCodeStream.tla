--------------------------- MODULE MCCodeStream -----------------------------
(* All the opcodes with the operands at the edges of their ranges. *)
EXTENDS CodeStream

TwoByteEdges == {0, 255, 256, 65535}
OneByteEdges == {0, 2, 255}

AllInstructions ==
    [op : TwoByteOps, operands : {<<n>> : n \in TwoByteEdges}]
    \cup [op : OneByteOps, operands : {<<n>> : n \in OneByteEdges}]
    \cup [op : {OP.CLOSURE}, operands : TwoByteEdges \X OneByteEdges]
    \cup [op : OpCode \ (TwoByteOps \cup OneByteOps \cup {OP.CLOSURE}), operands : {<< >>}]
=============================================================================
