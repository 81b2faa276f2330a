-------------------------- MODULE CodeStreamProofs --------------------------
(***************************************************************************)
(* Proofs about the walk through a stream of instructions: the listing of  *)
(* a stream whose length fits in its byte is what was written.             *)
(***************************************************************************)
EXTENDS CodeStream, Foundations

-----------------------------------------------------------------------------
(* The listing of a stream *)

LEMMA Inside ==
    ASSUME NEW pos \in Nat, NEW length \in 1..4, NEW end \in Nat, pos + length <= end
    PROVE  \A k \in 1..length : pos + k \in 1..end
OBVIOUS

(* No stream outgrows the byte that holds its length.                      *)
NoCut == MaxInstructions \in Nat /\ 4 * MaxInstructions < 256

Line == [pos : Nat, op : OpCode, operands : Seq(Nat)]

(* The position of the i-th instruction, or the end of the stream.         *)
StartOf(i) == IF i <= Len(written) THEN written[i].pos ELSE Len(stream)

StreamTyped == stream \in Seq(Byte) /\ written \in Seq(Line)
StreamShort == Len(written) <= MaxInstructions /\ Len(stream) <= 4 * Len(written)
InstructionsInPlace ==
    \A i \in 1..Len(written) :
        /\ Encodable(written[i].op, written[i].operands)
        /\ Holding(stream, written[i].pos, written[i].op, written[i].operands)
InstructionsAdjoin ==
    /\ StartOf(1) = 0
    /\ \A i \in 1..Len(written) : StartOf(i + 1) = StartOf(i) + InstructionLength(written[i].op)
ListingInStep ==
    /\ listing \in Seq(Line) /\ rest \in Nat \cup {Idle}
    /\ Len(listing) <= Len(written)
    /\ \A i \in 1..Len(listing) : listing[i] = written[i]
    /\ rest = Idle => listing = << >>
    /\ rest # Idle => rest = StartOf(Len(listing) + 1)

(* The walk stands where an instruction was written, and has listed those  *)
(* before it.                                                              *)
StreamInv ==
    StreamTyped /\ StreamShort /\ InstructionsInPlace /\ InstructionsAdjoin /\ ListingInStep

LEMMA Uncut ==
    ASSUME NEW s \in Seq(Byte), NEW t \in Seq(Byte), Len(s) + Len(t) < 256
    PROVE  /\ Concat(s, t) \in Seq(Byte) /\ Len(Concat(s, t)) = Len(s) + Len(t)
           /\ \A i \in 1..Len(s) : Concat(s, t)[i] = s[i]
           /\ \A i \in 1..Len(t) : Concat(s, t)[Len(s) + i] = t[i]
<1>1. UInt8(Len(s) + Len(t)) = Len(s) + Len(t)
  BY Modulo DEF UInt8
<1> DEFINE st == s \o t
<1>2. /\ st \in Seq(Byte) /\ Len(st) = Len(s) + Len(t)
      /\ \A i \in 1..Len(s) : st[i] = s[i]
      /\ \A i \in 1..Len(t) : st[Len(s) + i] = t[i]
  OBVIOUS
<1> HIDE DEF st
<1>3. Concat(s, t) = SubSeq(st, 1, Len(st))
  BY <1>1, <1>2 DEF Concat, st
<1>4. SubSeq(st, 1, Len(st)) = st
  BY <1>2
<1> QED BY <1>2, <1>3, <1>4

LEMMA StreamInvInit == NoCut /\ Init => StreamInv
<1> SUFFICES ASSUME NoCut, Init
             PROVE  StreamInv
  OBVIOUS
<1>1. /\ stream = << >> /\ written = << >> /\ listing = << >> /\ rest = Idle
      /\ Len(stream) = 0 /\ Len(written) = 0 /\ Len(listing) = 0
  BY DEF Init
<1>2. StreamTyped /\ StreamShort
  BY <1>1 DEF StreamTyped, StreamShort, NoCut
<1>3. InstructionsInPlace
  BY <1>1 DEF InstructionsInPlace
<1>4. InstructionsAdjoin
  BY <1>1 DEF InstructionsAdjoin, StartOf
<1>5. ListingInStep
  BY <1>1 DEF ListingInStep
<1> QED BY <1>2, <1>3, <1>4, <1>5 DEF StreamInv

LEMMA WriteKeeps ==
    ASSUME NoCut, StreamInv, NEW ins \in Instructions, Write(ins)
    PROVE  StreamInv'
<1> DEFINE made == Make(ins.op, ins.operands)
           line == [pos |-> Len(stream), op |-> ins.op, operands |-> ins.operands]
<1>1. /\ stream \in Seq(Byte) /\ written \in Seq(Line) /\ Len(written) < MaxInstructions
      /\ Len(stream) <= 4 * Len(written)
  BY DEF StreamInv, StreamTyped, StreamShort, Write
<1>2. ins.op \in OpCode /\ Encodable(ins.op, ins.operands)
  BY InstructionsAssumption
<1>3. made \in Seq(Byte) /\ Len(made) = InstructionLength(ins.op)
  BY <1>2, MadeBytes
<1>4. InstructionLength(ins.op) \in Nat /\ InstructionLength(ins.op) <= 4
  BY LengthOfInstruction
<1>5. line \in Line
  BY <1>1, <1>2 DEF Line, Encodable
<1> HIDE DEF made, line
<1>6. Len(stream) + Len(made) < 256
  BY <1>1, <1>3, <1>4 DEF NoCut
<1>7. stream' = Concat(stream, made) /\ written' = Append(written, line)
      /\ rest = Idle /\ rest' = rest /\ listing' = listing
  BY DEF Write, made, line
<1>8. /\ stream' \in Seq(Byte) /\ Len(stream') = Len(stream) + InstructionLength(ins.op)
      /\ \A i \in 1..Len(stream) : stream'[i] = stream[i]
      /\ \A i \in 1..InstructionLength(ins.op) : stream'[Len(stream) + i] = made[i]
  <2> DEFINE c == Concat(stream, made)
  <2>1. /\ c \in Seq(Byte) /\ Len(c) = Len(stream) + Len(made)
        /\ \A i \in 1..Len(stream) : c[i] = stream[i]
        /\ \A i \in 1..Len(made) : c[Len(stream) + i] = made[i]
    BY <1>1, <1>3, <1>6, Uncut
  <2>2. stream' = c /\ Len(made) = InstructionLength(ins.op)
    BY <1>3, <1>7
  <2> HIDE DEF c
  <2> QED BY <2>1, <2>2
<1>9. /\ written' \in Seq(Line) /\ Len(written') = Len(written) + 1
      /\ \A i \in 1..Len(written) : written'[i] = written[i]
      /\ written'[Len(written) + 1] = line
  BY <1>1, <1>5, <1>7
<1>10. line.pos = Len(stream) /\ line.op = ins.op /\ line.operands = ins.operands
  BY DEF line
<1>11. StreamTyped'
  BY <1>8, <1>9 DEF StreamTyped
<1>12. StreamShort'
  <2>1. /\ Len(stream) \in Nat /\ Len(written) \in Nat /\ MaxInstructions \in Nat
        /\ Len(written) < MaxInstructions /\ Len(stream) <= 4 * Len(written)
    BY <1>1 DEF NoCut
  <2>2. Len(stream') = Len(stream) + InstructionLength(ins.op) /\ Len(written') = Len(written) + 1
    BY <1>8, <1>9
  <2> QED BY <1>4, <2>1, <2>2 DEF StreamShort
<1>13. InstructionsInPlace'
  <2> SUFFICES ASSUME NEW i \in 1..Len(written')
               PROVE  /\ Encodable(written'[i].op, written'[i].operands)
                      /\ Holding(stream', written'[i].pos, written'[i].op, written'[i].operands)
    BY DEF InstructionsInPlace
  <2>1. CASE i \in 1..Len(written)
    <3> DEFINE w == written[i]
    <3>1. Encodable(w.op, w.operands) /\ Holding(stream, w.pos, w.op, w.operands)
      BY <2>1 DEF StreamInv, InstructionsInPlace
    <3>2. w \in Line /\ written'[i] = w
      BY <1>1, <1>9, <2>1
    <3>3. InstructionLength(w.op) \in 1..4
      BY LengthOfInstruction
    <3> HIDE DEF w
    <3>4. Holding(stream', w.pos, w.op, w.operands)
      <4>1. w.pos \in Nat
        BY <3>2 DEF Line
      <4>2. w.pos + InstructionLength(w.op) <= Len(stream)
        BY <3>1 DEF Holding
      <4>3. ASSUME NEW k \in 1..InstructionLength(w.op)
            PROVE  stream'[w.pos + k] = Make(w.op, w.operands)[k]
        <5>1. Len(stream) \in Nat
          BY <1>1
        <5>2. w.pos + k \in 1..Len(stream)
          BY <3>3, <4>1, <4>2, <5>1, Inside
        <5> QED BY <1>8, <3>1, <5>2 DEF Holding
      <4>4. w.pos + InstructionLength(w.op) <= Len(stream')
        <5>1. Len(stream) \in Nat /\ Len(stream') = Len(stream) + InstructionLength(ins.op)
          BY <1>1, <1>8
        <5>2. InstructionLength(w.op) \in Nat
          BY <3>3
        <5> QED BY <1>4, <4>1, <4>2, <5>1, <5>2
      <4> QED BY <4>3, <4>4 DEF Holding
    <3> QED BY <3>1, <3>2, <3>4
  <2>2. CASE i = Len(written) + 1
    <3>1. Holding(stream', Len(stream), ins.op, ins.operands)
      BY <1>8 DEF Holding, made
    <3> QED BY <1>2, <1>9, <1>10, <2>2, <3>1
  <2> QED BY <1>1, <1>9, <2>1, <2>2
<1>14. InstructionsAdjoin'
  <2>1. \A i \in 1..Len(written) + 1 : StartOf(i)' = StartOf(i)
    BY <1>1, <1>9, <1>10 DEF StartOf
  <2>2. StartOf(Len(written) + 1) = Len(stream)
    BY <1>1 DEF StartOf
  <2>3. StartOf(Len(written) + 2)' = Len(stream')
    BY <1>1, <1>9 DEF StartOf
  <2>4. /\ StartOf(1) = 0
        /\ \A i \in 1..Len(written) : StartOf(i + 1) = StartOf(i) + InstructionLength(written[i].op)
    BY DEF StreamInv, InstructionsAdjoin
  <2>5. StartOf(1)' = 0
    BY <1>1, <2>1, <2>4
  <2>6. ASSUME NEW i \in 1..Len(written')
        PROVE  StartOf(i + 1)' = StartOf(i)' + InstructionLength(written'[i].op)
    <3>1. CASE i \in 1..Len(written)
      <4>1. i \in 1..Len(written) + 1 /\ i + 1 \in 1..Len(written) + 1
        BY <1>1, <3>1
      <4> QED BY <1>9, <2>1, <2>4, <3>1, <4>1
    <3>2. CASE i = Len(written) + 1
      <4>1. StartOf(i)' = Len(stream) /\ StartOf(i + 1)' = Len(stream')
        BY <1>1, <1>9, <1>10, <3>2 DEF StartOf
      <4> QED BY <1>8, <1>9, <1>10, <3>2, <4>1
    <3> QED BY <1>1, <1>9, <3>1, <3>2
  <2> QED BY <2>5, <2>6 DEF InstructionsAdjoin
<1>15. ListingInStep'
  <2>1. listing = << >>
    BY <1>7 DEF StreamInv, ListingInStep
  <2> QED BY <1>1, <1>7, <1>9, <2>1 DEF ListingInStep
<1> QED BY <1>11, <1>12, <1>13, <1>14, <1>15 DEF StreamInv

LEMMA StartKeeps ==
    ASSUME StreamInv, Start
    PROVE  StreamInv'
<1>1. stream' = stream /\ written' = written /\ listing' = listing /\ rest' = 0 /\ listing = << >>
  BY DEF Start
<1>2. StreamTyped' /\ StreamShort' /\ InstructionsInPlace' /\ InstructionsAdjoin'
  BY <1>1 DEF StreamInv, StreamTyped, StreamShort, InstructionsInPlace, InstructionsAdjoin, StartOf
<1>3. StartOf(1)' = 0 /\ Len(listing') = 0
  BY <1>1, <1>2 DEF InstructionsAdjoin
<1>4. ListingInStep'
  BY <1>1, <1>3 DEF StreamInv, ListingInStep, Idle
<1> QED BY <1>2, <1>4 DEF StreamInv

LEMMA ListKeeps ==
    ASSUME StreamInv, ListInstruction
    PROVE  StreamInv'
<1>0. PICK n \in Nat : n = Len(listing) + 1
  BY DEF StreamInv, ListingInStep
<1> DEFINE w == written[n]
<1>1. /\ stream \in Seq(Byte) /\ written \in Seq(Line) /\ listing \in Seq(Line)
      /\ Len(listing) <= Len(written)
      /\ \A i \in 1..Len(listing) : listing[i] = written[i]
      /\ rest \in Nat \cup {Idle} /\ rest # Idle /\ rest = StartOf(n) /\ rest < Len(stream)
  BY <1>0 DEF StreamInv, StreamTyped, ListingInStep, ListInstruction, ListOne
<1>2. n \in 1..Len(written)
  BY <1>0, <1>1 DEF StartOf
<1>3. /\ w \in Line /\ rest = w.pos
      /\ Encodable(w.op, w.operands) /\ Holding(stream, w.pos, w.op, w.operands)
  BY <1>1, <1>2 DEF StartOf, StreamInv, InstructionsInPlace
<1> HIDE DEF w
<1>4. w.op \in OpCode /\ w.pos \in Nat
  BY <1>3 DEF Line
<1>5. ByteAt(stream, rest) = w.op /\ ReadOperands(w.op, stream, rest) = w.operands
  BY <1>3, <1>4, RoundTrip
<1>6. [pos |-> rest, op |-> w.op, operands |-> w.operands] = w
  BY <1>3 DEF Line
<1>7. /\ listing' = Append(listing, w) /\ rest' = rest + InstructionLength(w.op)
      /\ stream' = stream /\ written' = written
  BY <1>5, <1>6 DEF ListInstruction, ListOne
<1>8. StreamTyped' /\ StreamShort' /\ InstructionsInPlace' /\ InstructionsAdjoin'
  BY <1>7 DEF StreamInv, StreamTyped, StreamShort, InstructionsInPlace, InstructionsAdjoin, StartOf
<1>9. InstructionLength(w.op) \in 1..4
  BY LengthOfInstruction
<1>10. StartOf(n + 1)' = rest'
  <2>1. StartOf(n + 1) = StartOf(n) + InstructionLength(w.op)
    BY <1>2 DEF StreamInv, InstructionsAdjoin, w
  <2>2. StartOf(n + 1)' = StartOf(n + 1)
    BY <1>7 DEF StartOf
  <2> QED BY <1>1, <1>7, <2>1, <2>2
<1>11. /\ listing' \in Seq(Line) /\ Len(listing') = n
       /\ \A i \in 1..Len(listing') : listing'[i] = written[i]
  <2>1. listing' \in Seq(Line) /\ Len(listing') = n
    BY <1>0, <1>1, <1>3, <1>7
  <2>2. \A i \in 1..Len(listing) : listing'[i] = listing[i]
    BY <1>0, <1>1, <1>3, <1>7
  <2>3. listing'[n] = w
    BY <1>0, <1>1, <1>3, <1>7
  <2>4. \A i \in 1..n : i \in 1..Len(listing) \/ i = n
    BY <1>0, <1>1
  <2>5. ASSUME NEW i \in 1..Len(listing')
        PROVE  listing'[i] = written[i]
    BY <1>1, <2>1, <2>2, <2>3, <2>4, <2>5 DEF w
  <2> QED BY <2>1, <2>5
<1>12. ListingInStep'
  <2>1. rest \in Nat
    BY <1>1
  <2>2. rest' \in Nat /\ rest' # Idle
    BY <1>7, <1>9, <2>1 DEF Idle
  <2>3. Len(listing') <= Len(written')
    BY <1>1, <1>2, <1>7, <1>11
  <2>4. rest' = StartOf(Len(listing) + 1)'
    <3>1. Len(listing') + 1 = n + 1
      BY <1>11
    <3> QED BY <1>10, <3>1 DEF StartOf
  <2> QED BY <1>7, <1>11, <2>2, <2>3, <2>4 DEF ListingInStep
<1> QED BY <1>8, <1>12 DEF StreamInv

LEMMA StreamInvStep == NoCut /\ StreamInv /\ [Next]_vars => StreamInv'
<1> SUFFICES ASSUME NoCut, StreamInv, [Next]_vars
             PROVE  StreamInv'
  OBVIOUS
<1>1. CASE UNCHANGED vars
  BY <1>1 DEF vars, StreamInv, StreamTyped, StreamShort, InstructionsInPlace,
              InstructionsAdjoin, ListingInStep, StartOf
<1>2. CASE \E ins \in Instructions : Write(ins)
  BY <1>2, WriteKeeps
<1>3. CASE Start
  BY <1>3, StartKeeps
<1>4. CASE ListInstruction
  BY <1>4, ListKeeps
<1> QED BY <1>1, <1>2, <1>3, <1>4 DEF Next

LEMMA StreamInvImplies == NoCut /\ StreamInv => TypeOK /\ ListingFaithful
<1> SUFFICES ASSUME NoCut, StreamInv
             PROVE  TypeOK /\ ListingFaithful
  OBVIOUS
<1>1. /\ stream \in Seq(Byte) /\ written \in Seq(Line) /\ Len(stream) <= 4 * Len(written)
      /\ Len(written) <= MaxInstructions
  BY DEF StreamInv, StreamTyped, StreamShort
<1>2. Len(stream) < 256
  BY <1>1 DEF NoCut
<1>3. \A i \in DOMAIN written : Encodable(written[i].op, written[i].operands)
  BY <1>1 DEF StreamInv, InstructionsInPlace
<1>4. TypeOK
  BY <1>1, <1>2, <1>3 DEF TypeOK, StreamInv, ListingInStep
<1>5. ListingFaithful
  BY DEF ListingFaithful, StreamInv, ListingInStep
<1> QED BY <1>4, <1>5

LEMMA StreamSafety ==
    ASSUME NoCut
    PROVE  Spec => [](TypeOK /\ ListingFaithful)
<1>1. Init => StreamInv
  BY StreamInvInit
<1>2. StreamInv /\ [Next]_vars => StreamInv'
  BY StreamInvStep
<1>3. StreamInv => TypeOK /\ ListingFaithful
  BY StreamInvImplies
<1> QED BY <1>1, <1>2, <1>3, PTL DEF Spec

(* The bytes and the history stay typed while no stream can outgrow the    *)
(* byte of its length.                                                     *)
THEOREM StreamTypeCorrect ==
    ASSUME NoCut
    PROVE  Spec => []TypeOK
BY StreamSafety, PTL

(* Whatever the instructions, as long as the stream fits in the byte of    *)
(* its length instructions_str prints exactly what was concatenated: it    *)
(* lands on every instruction and on nothing else.                         *)
THEOREM ListingIsFaithful ==
    ASSUME NoCut
    PROVE  Spec => []ListingFaithful
BY StreamSafety, PTL
=============================================================================
