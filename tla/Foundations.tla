----------------------------- MODULE Foundations -----------------------------
(***************************************************************************)
(* What the proofs about several components rest on: induction over        *)
(* numbers, sequences of anything, the encoding of instructions, where an  *)
(* operand that fits is read back as it was written, and what makes a      *)
(* stream of bytecode safe to run, in a form that grows with the stream.   *)
(* Verifies follows the code from its first byte; here the code comes with *)
(* a certificate, the offsets at which its instructions begin and the      *)
(* number of operands on the stack at each.  A certificate is kept when an *)
(* instruction is appended, when the last one is taken back and when a     *)
(* jump is given its target, and code with a certificate verifies.         *)
(***************************************************************************)
EXTENDS Verifier, Objects, SequenceTheorems, WellFoundedInduction, TLAPS

-----------------------------------------------------------------------------
(* A least counterexample is how facts about all numbers are proved here.  *)

LEMMA LessRelation ==
    ASSUME NEW x \in Nat, NEW y \in Nat, y < x
    PROVE  <<y, x>> \in OpToRel(<, Nat)
BY Zenon DEF OpToRel

LEMMA LeastNumber ==
    ASSUME NEW T, T \subseteq Nat, T # {}
    PROVE  \E x \in T : \A y \in T : x <= y
<1>1. IsWellFoundedOn(OpToRel(<, Nat), Nat)
  BY NatLessThanWellFounded, Zenon
<1>2. PICK x \in T : \A y \in T : ~(<<y, x>> \in OpToRel(<, Nat))
  BY <1>1, WFMin, Zenon
<1>3. ASSUME NEW y \in T PROVE ~(y < x)
  BY <1>2, LessRelation, Zenon
<1>4. \A y \in T : x <= y
  BY <1>3
<1> QED BY <1>4

-----------------------------------------------------------------------------
(* Values within values *)

(* Level by level, what a value is made of.                                *)
Levels(o, f, n) == [d \in 0..n |-> IF d = 0 THEN {o} ELSE UNION {Parts(v) : v \in f[d-1]}]
IsLevels(o, f, n) == f = Levels(o, f, n)

LEMMA LevelsExist ==
    ASSUME NEW o, NEW n \in Nat
    PROVE  \E f : IsLevels(o, f, n)
<1> DEFINE Missing == {m \in Nat : ~\E f : IsLevels(o, f, m)}
<1>1. SUFFICES ASSUME Missing # {} PROVE FALSE
  OBVIOUS
<1>2. PICK m \in Missing : \A k \in Missing : m <= k
  <2>1. Missing \subseteq Nat
    OBVIOUS
  <2> QED BY <1>1, <2>1, LeastNumber, Zenon
<1>3. CASE m = 0
  <2> DEFINE f == [d \in 0..0 |-> {o}]
  <2>1. f = Levels(o, f, 0)
    BY DEF Levels
  <2> QED BY <1>2, <1>3, <2>1 DEF IsLevels
<1>4. CASE m # 0
  <2>1. m \in Nat /\ m - 1 \in Nat /\ m - 1 \notin Missing
    BY <1>2, <1>4
  <2>2. PICK g : IsLevels(o, g, m - 1)
    BY <2>1
  <2> DEFINE value(h, d) == IF d = 0 THEN {o} ELSE UNION {Parts(v) : v \in h[d-1]}
             f == [d \in 0..m |-> IF d = m THEN value(g, m) ELSE g[d]]
  <2>3. ASSUME NEW d \in 0..m PROVE f[d] = value(f, d)
    <3>1. CASE d = m
      <4>1. f[m-1] = g[m-1]
        BY <2>1
      <4> QED BY <1>4, <2>1, <3>1, <4>1
    <3>2. CASE d # m
      <4>1. d \in 0..m-1 /\ f[d] = g[d] /\ (d # 0 => f[d-1] = g[d-1])
        BY <2>1, <3>2
      <4>2. g[d] = value(g, d)
        BY <2>2, <4>1 DEF IsLevels, Levels
      <4> QED BY <4>1, <4>2
    <3> QED BY <3>1, <3>2
  <2>4. IsLevels(o, f, m)
    BY <2>3 DEF IsLevels, Levels
  <2> QED BY <1>2, <2>4
<1> QED BY <1>3, <1>4

-----------------------------------------------------------------------------
(* Sequences of anything *)

IsSequence(s) == \E S : s \in Seq(S)

LEMMA SequenceForm ==
    ASSUME NEW s, IsSequence(s)
    PROVE  /\ Len(s) \in Nat /\ DOMAIN s = 1..Len(s)
           /\ s # << >> <=> Len(s) > 0
BY LenProperties, EmptySeq DEF IsSequence

LEMMA SequenceTail ==
    ASSUME NEW s, IsSequence(s), s # << >>
    PROVE  /\ IsSequence(Tail(s)) /\ Len(Tail(s)) = Len(s) - 1
           /\ \A i \in 1..Len(s) - 1 : Tail(s)[i] = s[i+1]
           /\ Head(s) = s[1]
<1>1. PICK S : s \in Seq(S)
  BY DEF IsSequence
<1> QED BY <1>1, HeadTailProperties DEF IsSequence

LEMMA SequenceConcat ==
    ASSUME NEW s, NEW t, IsSequence(s), IsSequence(t)
    PROVE  /\ IsSequence(s \o t) /\ Len(s \o t) = Len(s) + Len(t)
           /\ \A i \in 1..Len(s) + Len(t) :
                (s \o t)[i] = IF i <= Len(s) THEN s[i] ELSE t[i - Len(s)]
<1>1. PICK S : s \in Seq(S)
  BY DEF IsSequence
<1>2. PICK T : t \in Seq(T)
  BY DEF IsSequence
<1>3. s \in Seq(S \cup T) /\ t \in Seq(S \cup T)
  BY <1>1, <1>2, SeqMonotonic
<1> QED BY <1>3, ConcatProperties DEF IsSequence

LEMMA SequenceRegroup ==
    ASSUME NEW s, NEW t, NEW u, IsSequence(s), IsSequence(t), IsSequence(u)
    PROVE  (s \o t) \o u = s \o (t \o u)
<1>1. PICK S : s \in Seq(S)
  BY DEF IsSequence
<1>2. PICK T : t \in Seq(T)
  BY DEF IsSequence
<1>3. PICK U : u \in Seq(U)
  BY DEF IsSequence
<1>4. /\ s \in Seq(S \cup T \cup U) /\ t \in Seq(S \cup T \cup U)
      /\ u \in Seq(S \cup T \cup U)
  BY <1>1, <1>2, <1>3, SeqMonotonic
<1> QED BY <1>4, ConcatAssociative

LEMMA SequenceAppend ==
    ASSUME NEW s, IsSequence(s), NEW e
    PROVE  /\ IsSequence(Append(s, e)) /\ Len(Append(s, e)) = Len(s) + 1
           /\ \A i \in 1..Len(s) : Append(s, e)[i] = s[i]
           /\ Append(s, e)[Len(s) + 1] = e
<1>1. PICK S : s \in Seq(S)
  BY DEF IsSequence
<1>2. s \in Seq(S \cup {e})
  BY <1>1, SeqMonotonic
<1>3. Append(s, e) \in Seq(S \cup {e})
  BY <1>2
<1> QED BY <1>2, <1>3 DEF IsSequence

LEMMA SequenceExcept ==
    ASSUME NEW s, IsSequence(s), NEW n \in 1..Len(s), NEW e
    PROVE  /\ IsSequence([s EXCEPT ![n] = e]) /\ Len([s EXCEPT ![n] = e]) = Len(s)
           /\ \A i \in 1..Len(s) : [s EXCEPT ![n] = e][i] = IF i = n THEN e ELSE s[i]
<1>1. PICK S : s \in Seq(S)
  BY DEF IsSequence
<1>2. s \in Seq(S \cup {e})
  BY <1>1, SeqMonotonic
<1> QED BY <1>2, ExceptSeq DEF IsSequence

LEMMA SequenceFront ==
    ASSUME NEW s, IsSequence(s), Len(s) > 0
    PROVE  LET front == SubSeq(s, 1, Len(s) - 1)
           IN  /\ IsSequence(front) /\ Len(front) = Len(s) - 1
               /\ \A i \in 1..Len(s) - 1 : front[i] = s[i]
<1>1. PICK S : s \in Seq(S)
  BY DEF IsSequence
<1> DEFINE n == Len(s) - 1
<1>2. n \in Int /\ n >= 0 /\ \A i \in 1..n : s[i] \in S
  BY <1>1
<1>3. /\ SubSeq(s, 1, n) \in Seq(S)
      /\ Len(SubSeq(s, 1, n)) = n
      /\ \A i \in 1..n : SubSeq(s, 1, n)[i] = s[i]
  <2> HIDE DEF n
  <2> QED BY <1>2, SubSeqProperties
<1> QED BY <1>3 DEF IsSequence

LEMMA SequenceOfOne ==
    ASSUME NEW e
    PROVE  IsSequence(<< e >>) /\ Len(<< e >>) = 1 /\ << e >>[1] = e
<1>1. << e >> \in Seq({e})
  OBVIOUS
<1> QED BY <1>1 DEF IsSequence

(* Short sequences, joined                                                 *)
LEMMA PairJoined ==
    ASSUME NEW x, NEW y
    PROVE  << x >> \o << y >> = << x, y >>
<1>1. << x >> \in Seq({x, y}) /\ << y >> \in Seq({x, y}) /\ << x, y >> \in Seq({x, y})
  OBVIOUS
<1> DEFINE both == << x >> \o << y >>
<1>2. both \in Seq({x, y}) /\ Len(both) = 2 /\ both[1] = x /\ both[2] = y
  BY <1>1, ConcatProperties
<1> HIDE DEF both
<1>3. << x, y >> = both
  BY <1>1, <1>2, SeqEqual
<1> QED BY <1>3 DEF both

LEMMA ThreeJoined ==
    ASSUME NEW x, NEW y, NEW z
    PROVE  (<< x >> \o << y >>) \o << z >> = << x, y, z >>
<1>1. /\ << x, y >> \in Seq({x, y, z}) /\ << z >> \in Seq({x, y, z})
      /\ << x, y, z >> \in Seq({x, y, z})
  OBVIOUS
<1>2. << x, y, z >> = << x, y >> \o << z >>
  BY <1>1
<1>3. << x >> \o << y >> = << x, y >>
  BY PairJoined
<1> QED BY <1>2, <1>3, Zenon

(* A function on 1..n is a sequence of length n.                           *)
LEMMA SequenceMade ==
    ASSUME NEW S, NEW n \in Nat, NEW f \in [1..n -> S]
    PROVE  f \in Seq(S) /\ Len(f) = n
BY SeqDef

-----------------------------------------------------------------------------
(* Numbers of one and of two bytes *)

LEMMA Modulo == \A n \in 0..255 : n % 256 = n
OBVIOUS

LEMMA OneByte ==
    ASSUME NEW n \in Nat, n < Limit(1)
    PROVE  LowByte(n) = n /\ LowByte(n) \in Byte
<1>1. n \in 0..255
  <2>1. n < ByteValues
    BY DEF Limit
  <2> QED BY <2>1 DEF ByteValues
<1>2. n % 256 = n
  BY <1>1, Modulo
<1> QED BY <1>1, <1>2 DEF LowByte, Byte

LEMMA TwoBytes ==
    ASSUME NEW n \in Nat, n < Limit(2)
    PROVE  /\ HighByte(n) \in Byte /\ LowByte(n) \in Byte
           /\ (HighByte(n) * 256) + LowByte(n) = n
<1>0. n < 256 * 256
  <2>1. n < ByteValues * ByteValues
    BY DEF Limit
  <2> QED BY <2>1 DEF ByteValues
<1>1. n \div 256 \in Int /\ n % 256 \in 0..255 /\ n = (256 * (n \div 256)) + (n % 256)
  <2>1. n \div 256 \in Int
    OBVIOUS
  <2>2. n % 256 \in 0..255
    OBVIOUS
  <2>3. n = (256 * (n \div 256)) + (n % 256)
    OBVIOUS
  <2> QED BY <2>1, <2>2, <2>3
<1> DEFINE q == n \div 256
           r == n % 256
<1>2. q \in 0..255
  <2>1. q \in Int /\ r \in 0..255 /\ n = (256 * q) + r
    BY <1>1
  <2> HIDE DEF q, r
  <2> QED BY <1>0, <2>1, SMTT(30)
<1>3. HighByte(n) = n \div 256
  <2> HIDE DEF q
  <2>1. q % 256 = q
    BY <1>2, Modulo
  <2> QED BY <2>1 DEF HighByte, q
<1> QED BY <1>1, <1>2, <1>3 DEF LowByte, Byte

-----------------------------------------------------------------------------
(* Encoding one instruction *)

(* There are four shapes of instructions.                                  *)
LEMMA Shapes ==
    ASSUME NEW op
    PROVE  \/ /\ DOMAIN Widths(op) = {} /\ Len(Widths(op)) = 0
              /\ Width(op, 1) = 0 /\ Width(op, 2) = 0
           \/ /\ DOMAIN Widths(op) = {1} /\ Len(Widths(op)) = 1 /\ Widths(op)[1] = 1
              /\ Width(op, 1) = 1 /\ Width(op, 2) = 0
           \/ /\ DOMAIN Widths(op) = {1} /\ Len(Widths(op)) = 1 /\ Widths(op)[1] = 2
              /\ Width(op, 1) = 2 /\ Width(op, 2) = 0
           \/ /\ DOMAIN Widths(op) = {1, 2} /\ Len(Widths(op)) = 2
              /\ Widths(op)[1] = 2 /\ Widths(op)[2] = 1
              /\ Width(op, 1) = 2 /\ Width(op, 2) = 1
<1>1. Widths(op) \in {<< >>, <<1>>, <<2>>, <<2, 1>>}
  BY DEF Widths
<1>2. CASE Widths(op) = << >>
  BY <1>2 DEF Width
<1>3. CASE Widths(op) = <<1>>
  BY <1>3 DEF Width
<1>4. CASE Widths(op) = <<2>>
  BY <1>4 DEF Width
<1>5. CASE Widths(op) = <<2, 1>>
  BY <1>5 DEF Width
<1> QED BY <1>1, <1>2, <1>3, <1>4, <1>5

LEMMA LengthOfInstruction ==
    ASSUME NEW op
    PROVE  InstructionLength(op) \in 1..4
BY Shapes DEF InstructionLength

LEMMA Joined ==
    ASSUME NEW a \in Byte, NEW b \in Byte, NEW c \in Byte, NEW d \in Byte
    PROVE  /\ LET s == <<a>> \o << >> \o << >>
              IN  s \in Seq(Byte) /\ Len(s) = 1 /\ s[1] = a
           /\ LET s == <<a>> \o <<b>> \o << >>
              IN  s \in Seq(Byte) /\ Len(s) = 2 /\ s[1] = a /\ s[2] = b
           /\ LET s == <<a>> \o <<b, c>> \o << >>
              IN  s \in Seq(Byte) /\ Len(s) = 3 /\ s[1] = a /\ s[2] = b /\ s[3] = c
           /\ LET s == <<a>> \o <<b, c>> \o <<d>>
              IN  s \in Seq(Byte) /\ Len(s) = 4 /\ s[1] = a /\ s[2] = b /\ s[3] = c /\ s[4] = d
<1>1. LET s == <<a>> \o << >> \o << >>
      IN  s \in Seq(Byte) /\ Len(s) = 1 /\ s[1] = a
  OBVIOUS
<1>2. LET s == <<a>> \o <<b>> \o << >>
      IN  s \in Seq(Byte) /\ Len(s) = 2 /\ s[1] = a /\ s[2] = b
  OBVIOUS
<1>3. LET s == <<a>> \o <<b, c>> \o << >>
      IN  s \in Seq(Byte) /\ Len(s) = 3 /\ s[1] = a /\ s[2] = b /\ s[3] = c
  OBVIOUS
<1>4. LET s == <<a>> \o <<b, c>> \o <<d>>
      IN  s \in Seq(Byte) /\ Len(s) = 4 /\ s[1] = a /\ s[2] = b /\ s[3] = c /\ s[4] = d
  OBVIOUS
<1> QED BY <1>1, <1>2, <1>3, <1>4

(* The operands of an instruction of each shape are in range.              *)
LEMMA OperandsInRange ==
    ASSUME NEW op, NEW xs, Encodable(op, xs)
    PROVE  /\ xs \in Seq(Nat) /\ Len(xs) = Len(Widths(op))
           /\ Width(op, 1) = 1 => xs[1] \in Nat /\ xs[1] < Limit(1)
           /\ Width(op, 1) = 2 => xs[1] \in Nat /\ xs[1] < Limit(2)
           /\ Width(op, 2) = 1 => xs[2] \in Nat /\ xs[2] < Limit(1)
<1>1. /\ xs \in Seq(Nat) /\ Len(xs) = Len(Widths(op))
      /\ \A i \in DOMAIN xs : xs[i] \in Nat /\ xs[i] < Limit(Widths(op)[i])
  BY DEF Encodable
<1>2. DOMAIN xs = 1..Len(Widths(op))
  BY <1>1
<1>3. CASE Width(op, 1) = 0
  BY <1>1, <1>3, Shapes
<1>4. CASE Width(op, 1) = 1
  <2>1. Width(op, 2) = 0 /\ Len(Widths(op)) = 1 /\ Widths(op)[1] = 1
    BY <1>4, Shapes
  <2> QED BY <1>1, <1>2, <1>4, <2>1
<1>5. CASE Width(op, 1) = 2 /\ Width(op, 2) = 0
  <2>1. Len(Widths(op)) = 1 /\ Widths(op)[1] = 2
    BY <1>5, Shapes
  <2> QED BY <1>1, <1>2, <1>5, <2>1
<1>6. CASE Width(op, 1) = 2 /\ Width(op, 2) = 1
  <2>1. Len(Widths(op)) = 2 /\ Widths(op)[1] = 2 /\ Widths(op)[2] = 1
    BY <1>6, Shapes
  <2> QED BY <1>1, <1>2, <1>6, <2>1
<1> QED BY <1>3, <1>4, <1>5, <1>6, Shapes

(* The bytes that code_make lays down, for each shape.                     *)
LEMMA MadeBytes ==
    ASSUME NEW op \in OpCode, NEW xs, Encodable(op, xs)
    PROVE  /\ Make(op, xs) \in Seq(Byte)
           /\ Len(Make(op, xs)) = InstructionLength(op)
           /\ Make(op, xs)[1] = op
           /\ Width(op, 1) = 1 => Make(op, xs)[2] = xs[1]
           /\ Width(op, 1) = 2 => (Make(op, xs)[2] * 256) + Make(op, xs)[3] = xs[1]
           /\ Width(op, 2) = 1 => Make(op, xs)[4] = xs[2]
<1>0. op \in Byte
  BY DEF OpCode, Byte
<1>a. /\ Width(op, 1) = 1 => xs[1] \in Nat /\ xs[1] < Limit(1)
      /\ Width(op, 1) = 2 => xs[1] \in Nat /\ xs[1] < Limit(2)
      /\ Width(op, 2) = 1 => xs[2] \in Nat /\ xs[2] < Limit(1)
  BY OperandsInRange
<1>1. CASE Width(op, 1) = 0 /\ Width(op, 2) = 0
  <2>1. OperandBytes(op, 1, xs) = << >> /\ OperandBytes(op, 2, xs) = << >>
    BY <1>1 DEF OperandBytes
  <2>2. Make(op, xs) = <<op>> \o << >> \o << >>
    BY <2>1, Zenon DEF Make
  <2> QED BY <1>0, <1>1, <2>2, Joined DEF InstructionLength
<1>2. CASE Width(op, 1) = 1 /\ Width(op, 2) = 0
  <2>1. Make(op, xs) = <<op>> \o << LowByte(xs[1]) >> \o << >>
    BY <1>2 DEF Make, OperandBytes
  <2>2. LowByte(xs[1]) = xs[1] /\ LowByte(xs[1]) \in Byte
    BY <1>2, <1>a, OneByte
  <2> QED BY <1>0, <1>2, <2>1, <2>2, Joined DEF InstructionLength
<1>3. CASE Width(op, 1) = 2 /\ Width(op, 2) = 0
  <2>1. Make(op, xs) = <<op>> \o << HighByte(xs[1]), LowByte(xs[1]) >> \o << >>
    BY <1>3 DEF Make, OperandBytes
  <2>2. /\ HighByte(xs[1]) \in Byte /\ LowByte(xs[1]) \in Byte
        /\ (HighByte(xs[1]) * 256) + LowByte(xs[1]) = xs[1]
    BY <1>3, <1>a, TwoBytes
  <2> QED BY <1>0, <1>3, <2>1, <2>2, Joined DEF InstructionLength
<1>4. CASE Width(op, 1) = 2 /\ Width(op, 2) = 1
  <2>1. Make(op, xs) = <<op>> \o << HighByte(xs[1]), LowByte(xs[1]) >> \o << LowByte(xs[2]) >>
    BY <1>4 DEF Make, OperandBytes
  <2>2. /\ HighByte(xs[1]) \in Byte /\ LowByte(xs[1]) \in Byte
        /\ (HighByte(xs[1]) * 256) + LowByte(xs[1]) = xs[1]
    BY <1>4, <1>a, TwoBytes
  <2>3. LowByte(xs[2]) = xs[2] /\ LowByte(xs[2]) \in Byte
    BY <1>4, <1>a, OneByte
  <2> QED BY <1>0, <1>4, <2>1, <2>2, <2>3, Joined DEF InstructionLength
<1> QED BY <1>1, <1>2, <1>3, <1>4, Shapes

(* The bytes from pos + 1 on are those of an instruction.                  *)
Holding(code, pos, op, xs) ==
    /\ pos + InstructionLength(op) <= Len(code)
    /\ \A k \in 1..InstructionLength(op) : code[pos + k] = Make(op, xs)[k]

(* code_read_operands undoes code_make, wherever in a stream the           *)
(* instruction lies: for operands that fit, in one byte or in two, what is *)
(* read is what was written.                                               *)
THEOREM RoundTrip ==
    ASSUME NEW op \in OpCode, NEW xs, Encodable(op, xs),
           NEW code, NEW pos \in Nat, Holding(code, pos, op, xs)
    PROVE  ByteAt(code, pos) = op /\ ReadOperands(op, code, pos) = xs
<1> DEFINE made == Make(op, xs)
           read == ReadOperands(op, code, pos)
<1>1. /\ InstructionLength(op) = 1 + Width(op, 1) + Width(op, 2)
      /\ \A k \in 1..InstructionLength(op) : code[pos + k] = made[k]
  BY DEF Holding, InstructionLength
<1>2. /\ made[1] = op
      /\ Width(op, 1) = 1 => made[2] = xs[1]
      /\ Width(op, 1) = 2 => (made[2] * 256) + made[3] = xs[1]
      /\ Width(op, 2) = 1 => made[4] = xs[2]
  BY MadeBytes
<1>3. xs \in Seq(Nat) /\ Len(xs) = Len(Widths(op))
  BY OperandsInRange
<1> HIDE DEF made
<1>4. Width(op, 1) \in 0..2 /\ Width(op, 2) \in 0..2
  BY Shapes
<1>5. ByteAt(code, pos) = op
  BY <1>1, <1>2, <1>4 DEF ByteAt
<1>6. CASE DOMAIN Widths(op) = {} /\ Len(Widths(op)) = 0
  <2>1. DOMAIN xs = {} /\ DOMAIN read = {}
    BY <1>3, <1>6 DEF ReadOperands
  <2>2. read = [i \in {} |-> xs[i]] /\ xs = [i \in {} |-> xs[i]]
    BY <1>3, <1>6, <2>1 DEF ReadOperands
  <2> QED BY <1>5, <2>2
<1>7. CASE DOMAIN Widths(op) = {1} /\ Len(Widths(op)) = 1 /\ Width(op, 1) = 1 /\ Width(op, 2) = 0
  <2>1. ByteAt(code, pos + 1) = xs[1]
    BY <1>1, <1>2, <1>7 DEF ByteAt
  <2>2. read = [i \in {1} |-> xs[1]]
    BY <1>7, <2>1 DEF ReadOperands, OperandOffset
  <2>3. xs = [i \in {1} |-> xs[1]]
    BY <1>3, <1>7
  <2> QED BY <1>5, <2>2, <2>3
<1>8. CASE DOMAIN Widths(op) = {1} /\ Len(Widths(op)) = 1 /\ Width(op, 1) = 2 /\ Width(op, 2) = 0
  <2>1. ReadUint16(code, pos + 1) = xs[1]
    BY <1>1, <1>2, <1>8 DEF ByteAt, ReadUint16
  <2>2. read = [i \in {1} |-> xs[1]]
    BY <1>8, <2>1 DEF ReadOperands, OperandOffset
  <2>3. xs = [i \in {1} |-> xs[1]]
    BY <1>3, <1>8
  <2> QED BY <1>5, <2>2, <2>3
<1>9. CASE DOMAIN Widths(op) = {1, 2} /\ Len(Widths(op)) = 2 /\ Width(op, 1) = 2 /\ Width(op, 2) = 1
  <2>1. ReadUint16(code, pos + 1) = xs[1]
    BY <1>1, <1>2, <1>9 DEF ByteAt, ReadUint16
  <2>2. ByteAt(code, pos + 3) = xs[2]
    BY <1>1, <1>2, <1>9 DEF ByteAt
  <2>3. read = [i \in {1, 2} |-> xs[i]]
    BY <1>9, <2>1, <2>2 DEF ReadOperands, OperandOffset
  <2>4. xs = [i \in {1, 2} |-> xs[i]]
    BY <1>3, <1>9
  <2> QED BY <1>5, <2>3, <2>4
<1> QED BY <1>6, <1>7, <1>8, <1>9, Shapes

-----------------------------------------------------------------------------
(* One instruction *)

(* Operands of the right number ...                                        *)
Takes(op, xs) == op \in OpCode /\ xs \in Seq(Nat) /\ Len(xs) = Len(Widths(op))

(* ... of which those that count values on the stack are read back.        *)
Counts(op, xs) ==
    /\ op \in {OP.ARRAY, OP.HASH} => xs[1] < 65536
    /\ op = OP.CALL => xs[1] < 256
    /\ op = OP.CLOSURE => xs[2] < 256

(* What an instruction takes off the stack and what it leaves there.       *)
Needs(op, xs) ==
    CASE op \in Loads \cup {OP.JUMP, OP.RETURN} -> 0
      [] op \in BinaryOps -> 2
      [] op \in {OP.ARRAY, OP.HASH} -> xs[1]
      [] op = OP.CALL -> xs[1] + 1
      [] op = OP.CLOSURE -> xs[2]
      [] OTHER -> 1
Leaves(op) ==
    IF op \in {OP.POP, OP.SET_GLOBAL, OP.SET_LOCAL} \cup Jumps \cup Ends THEN 0 ELSE 1

LEMMA Opcodes ==
    /\ OP.CONSTANT = 0 /\ OP.ADD = 1 /\ OP.POP = 2 /\ OP.SUB = 3 /\ OP.MUL = 4 /\ OP.DIV = 5
    /\ OP.TRUE = 6 /\ OP.FALSE = 7 /\ OP.NULL = 8 /\ OP.EQUAL = 9 /\ OP.NOT_EQUAL = 10
    /\ OP.GREATER_THAN = 11 /\ OP.MINUS = 12 /\ OP.BANG = 13 /\ OP.JUMP = 14
    /\ OP.JUMP_NOT_TRUTHY = 15 /\ OP.SET_GLOBAL = 16 /\ OP.GET_GLOBAL = 17
    /\ OP.SET_LOCAL = 18 /\ OP.GET_LOCAL = 19 /\ OP.ARRAY = 20 /\ OP.HASH = 21
    /\ OP.INDEX = 22 /\ OP.CALL = 23 /\ OP.RETURN = 24 /\ OP.RETURN_VALUE = 25
    /\ OP.GET_BUILTIN = 26 /\ OP.CLOSURE = 27 /\ OP.CURRENT_CLOSURE = 28 /\ OP.GET_FREE = 29
BY DEF OP

LEMMA WidthsOf ==
    ASSUME NEW op
    PROVE  /\ op \in TwoByteOps => Width(op, 1) = 2 /\ Width(op, 2) = 0
           /\ op \in OneByteOps => Width(op, 1) = 1 /\ Width(op, 2) = 0
           /\ op = OP.CLOSURE => Width(op, 1) = 2 /\ Width(op, 2) = 1
           /\ op \notin TwoByteOps \cup OneByteOps \cup {OP.CLOSURE} =>
                Width(op, 1) = 0 /\ Width(op, 2) = 0
<1>1. /\ \A o \in TwoByteOps : o \notin OneByteOps /\ o # OP.CLOSURE
      /\ \A o \in OneByteOps : o # OP.CLOSURE
  BY Opcodes DEF TwoByteOps, OneByteOps
<1>2. /\ op \in TwoByteOps => Widths(op) = <<2>>
      /\ op \in OneByteOps => Widths(op) = <<1>>
      /\ op = OP.CLOSURE => Widths(op) = <<2, 1>>
      /\ op \notin TwoByteOps \cup OneByteOps \cup {OP.CLOSURE} => Widths(op) = << >>
  BY <1>1, Zenon DEF Widths
<1>3. Widths(op) = <<2>> => Width(op, 1) = 2 /\ Width(op, 2) = 0
  BY DEF Width
<1>4. Widths(op) = <<1>> => Width(op, 1) = 1 /\ Width(op, 2) = 0
  BY DEF Width
<1>5. Widths(op) = <<2, 1>> => Width(op, 1) = 2 /\ Width(op, 2) = 1
  BY DEF Width
<1>6. Widths(op) = << >> => Width(op, 1) = 0 /\ Width(op, 2) = 0
  BY DEF Width
<1> QED BY <1>2, <1>3, <1>4, <1>5, <1>6

LEMMA LowByteIsByte ==
    ASSUME NEW n \in Nat
    PROVE  LowByte(n) \in Byte /\ HighByte(n) \in Byte
<1>1. \A k \in Nat : k % 256 \in 0..255
  OBVIOUS
<1>2. n \div 256 \in Nat
  OBVIOUS
<1>3. (n \div 256) % 256 \in 0..255
  <2> DEFINE q == n \div 256
  <2>1. q \in Nat
    BY <1>2
  <2> HIDE DEF q
  <2>2. q % 256 \in 0..255
    BY <1>1, <2>1
  <2> QED BY <2>2 DEF q
<1> QED BY <1>1, <1>3 DEF LowByte, HighByte, Byte

(* The bytes that code_make lays down, whether the operands fit or not.    *)
LEMMA LaidBytes ==
    ASSUME NEW op, NEW xs, Takes(op, xs)
    PROVE  /\ Make(op, xs) \in Seq(Byte)
           /\ Len(Make(op, xs)) = InstructionLength(op)
           /\ Make(op, xs)[1] = op
           /\ Width(op, 1) = 1 => Make(op, xs)[2] = LowByte(xs[1])
           /\ Width(op, 1) = 2 => /\ Make(op, xs)[2] = HighByte(xs[1])
                                  /\ Make(op, xs)[3] = LowByte(xs[1])
           /\ Width(op, 2) = 1 => Make(op, xs)[4] = LowByte(xs[2])
<1>0. op \in Byte /\ xs \in Seq(Nat) /\ Len(xs) = Len(Widths(op))
  BY DEF OpCode, Byte, Takes
<1>1. CASE Width(op, 1) = 0 /\ Width(op, 2) = 0
  <2>1. OperandBytes(op, 1, xs) = << >> /\ OperandBytes(op, 2, xs) = << >>
    BY <1>1 DEF OperandBytes
  <2>2. Make(op, xs) = <<op>> \o << >> \o << >>
    BY <2>1, Zenon DEF Make
  <2> QED BY <1>0, <1>1, <2>2, Joined DEF InstructionLength
<1>2. CASE Width(op, 1) = 1 /\ Width(op, 2) = 0
  <2>1. Make(op, xs) = <<op>> \o << LowByte(xs[1]) >> \o << >>
    BY <1>2 DEF Make, OperandBytes
  <2>2. xs[1] \in Nat
    BY <1>0, <1>2, Shapes
  <2>3. LowByte(xs[1]) \in Byte
    BY <2>2, LowByteIsByte
  <2> QED BY <1>0, <1>2, <2>1, <2>3, Joined DEF InstructionLength
<1>3. CASE Width(op, 1) = 2 /\ Width(op, 2) = 0
  <2>1. Make(op, xs) = <<op>> \o << HighByte(xs[1]), LowByte(xs[1]) >> \o << >>
    BY <1>3 DEF Make, OperandBytes
  <2>2. xs[1] \in Nat
    BY <1>0, <1>3, Shapes
  <2>3. LowByte(xs[1]) \in Byte /\ HighByte(xs[1]) \in Byte
    BY <2>2, LowByteIsByte
  <2> QED BY <1>0, <1>3, <2>1, <2>3, Joined DEF InstructionLength
<1>4. CASE Width(op, 1) = 2 /\ Width(op, 2) = 1
  <2>1. Make(op, xs) = <<op>> \o << HighByte(xs[1]), LowByte(xs[1]) >> \o << LowByte(xs[2]) >>
    BY <1>4 DEF Make, OperandBytes
  <2>2. xs[1] \in Nat /\ xs[2] \in Nat
    BY <1>0, <1>4, Shapes
  <2>3. LowByte(xs[1]) \in Byte /\ HighByte(xs[1]) \in Byte /\ LowByte(xs[2]) \in Byte
    BY <2>2, LowByteIsByte
  <2> QED BY <1>0, <1>4, <2>1, <2>3, Joined DEF InstructionLength
<1> QED BY <1>1, <1>2, <1>3, <1>4, Shapes

(* What is read where the instruction lies.                                *)
LEMMA LaidOperands ==
    ASSUME NEW op, NEW xs, Takes(op, xs), NEW code, NEW pos \in Nat, Holding(code, pos, op, xs)
    PROVE  /\ ByteAt(code, pos) = op
           /\ Width(op, 1) = 1 /\ xs[1] < 256 => Operands(code, pos)[1] = xs[1]
           /\ Width(op, 1) = 2 /\ xs[1] < 65536 => Operands(code, pos)[1] = xs[1]
           /\ Width(op, 2) = 1 /\ xs[2] < 256 => Operands(code, pos)[2] = xs[2]
<1> DEFINE made == Make(op, xs)
<1>0. xs \in Seq(Nat) /\ Len(xs) = Len(Widths(op))
  BY DEF Takes
<1>1. /\ InstructionLength(op) = 1 + Width(op, 1) + Width(op, 2)
      /\ \A k \in 1..InstructionLength(op) : code[pos + k] = made[k]
  BY DEF Holding, InstructionLength
<1>2. /\ made[1] = op
      /\ Width(op, 1) = 1 => made[2] = LowByte(xs[1])
      /\ Width(op, 1) = 2 => made[2] = HighByte(xs[1]) /\ made[3] = LowByte(xs[1])
      /\ Width(op, 2) = 1 => made[4] = LowByte(xs[2])
  BY LaidBytes
<1> HIDE DEF made
<1>3. Width(op, 1) \in 0..2 /\ Width(op, 2) \in 0..2
  BY Shapes
<1>4. ByteAt(code, pos) = op
  BY <1>1, <1>2, <1>3 DEF ByteAt
<1> DEFINE read == [i \in DOMAIN Widths(op) |->
                    IF Width(op, i) = 2 THEN ReadUint16(code, pos + OperandOffset(op, i))
                    ELSE ByteAt(code, pos + OperandOffset(op, i))]
<1>r. Operands(code, pos) = read
  BY <1>4 DEF Operands, ReadOperands
<1>5. ASSUME Width(op, 1) = 1, xs[1] < 256 PROVE Operands(code, pos)[1] = xs[1]
  <2>0. DOMAIN Widths(op) = {1} /\ Len(Widths(op)) = 1
    BY <1>5, Shapes
  <2>a. Len(xs) = 1
    BY <1>0, <2>0
  <2>1. xs[1] \in Nat
    BY <1>0, <2>a, ElementOfSeq
  <2>2. LowByte(xs[1]) = xs[1]
    BY <1>5, <2>1, OneByte DEF Limit, ByteValues
  <2>3. ByteAt(code, pos + 1) = xs[1]
    BY <1>1, <1>2, <1>3, <1>5, <2>2 DEF ByteAt
  <2>4. read[1] = ByteAt(code, pos + 1)
    BY <1>5, <2>0 DEF OperandOffset
  <2> QED BY <1>r, <2>3, <2>4
<1>6. ASSUME Width(op, 1) = 2, xs[1] < 65536 PROVE Operands(code, pos)[1] = xs[1]
  <2>1. 1 \in DOMAIN Widths(op) /\ xs[1] \in Nat
    BY <1>0, <1>6, Shapes
  <2>2. (HighByte(xs[1]) * 256) + LowByte(xs[1]) = xs[1]
    BY <1>6, <2>1, TwoBytes DEF Limit, ByteValues
  <2>3. ReadUint16(code, pos + 1) = xs[1]
    BY <1>1, <1>2, <1>3, <1>6, <2>2 DEF ByteAt, ReadUint16
  <2>4. read[1] = ReadUint16(code, pos + 1)
    BY <1>6, <2>1 DEF OperandOffset
  <2> QED BY <1>r, <2>3, <2>4
<1>7. ASSUME Width(op, 2) = 1, xs[2] < 256 PROVE Operands(code, pos)[2] = xs[2]
  <2>0. DOMAIN Widths(op) = {1, 2} /\ Len(Widths(op)) = 2 /\ Width(op, 1) = 2
    BY <1>7, Shapes
  <2>a. Len(xs) = 2
    BY <1>0, <2>0
  <2>1. xs[2] \in Nat
    <3>1. xs \in Seq(Nat) /\ 2 \in 1..Len(xs)
      BY <1>0, <2>a
    <3> QED BY <3>1, ElementOfSeq
  <2>2. LowByte(xs[2]) = xs[2]
    BY <1>7, <2>1, OneByte DEF Limit, ByteValues
  <2>3. ByteAt(code, pos + 3) = xs[2]
    <3>1. Width(op, 1) = 2
      BY <2>0
    <3> QED BY <1>1, <1>2, <1>7, <2>2, <3>1 DEF ByteAt
  <2>4. read[2] = ByteAt(code, pos + 3)
    BY <1>7, <2>0 DEF OperandOffset
  <2> QED BY <1>r, <2>3, <2>4
<1> QED BY <1>4, <1>5, <1>6, <1>7

(* Pops of an instruction is what it needs.                                *)
LEMMA LaidNeeds ==
    ASSUME NEW op, NEW xs, Takes(op, xs), Counts(op, xs),
           NEW code, NEW pos \in Nat, Holding(code, pos, op, xs)
    PROVE  Pops(code, pos) = Needs(op, xs) /\ Pushes(code, pos) = Leaves(op)
<1>1. ByteAt(code, pos) = op
  BY LaidOperands
<1>2. CASE op \in {OP.ARRAY, OP.HASH}
  <2>1. Width(op, 1) = 2
    BY <1>2, WidthsOf DEF TwoByteOps
  <2>2. Operands(code, pos)[1] = xs[1]
    BY <1>2, <2>1, LaidOperands DEF Counts
  <2>3. Pops(code, pos) = Operands(code, pos)[1] /\ Needs(op, xs) = xs[1]
    BY <1>1, <1>2, Opcodes DEF Pops, Needs, Loads, BinaryOps
  <2> QED BY <1>1, <2>2, <2>3 DEF Pushes, Leaves
<1>3. CASE op = OP.CALL
  <2>1. Width(op, 1) = 1
    BY <1>3, WidthsOf DEF OneByteOps
  <2>2. Operands(code, pos)[1] = xs[1]
    BY <1>3, <2>1, LaidOperands DEF Counts
  <2>3. Pops(code, pos) = Operands(code, pos)[1] + 1 /\ Needs(op, xs) = xs[1] + 1
    BY <1>1, <1>3, Opcodes DEF Pops, Needs, Loads, BinaryOps
  <2> QED BY <1>1, <2>2, <2>3 DEF Pushes, Leaves
<1>4. CASE op = OP.CLOSURE
  <2>1. Width(op, 2) = 1
    BY <1>4, WidthsOf
  <2>2. Operands(code, pos)[2] = xs[2]
    BY <1>4, <2>1, LaidOperands DEF Counts
  <2>3. Pops(code, pos) = Operands(code, pos)[2] /\ Needs(op, xs) = xs[2]
    BY <1>1, <1>4, Opcodes DEF Pops, Needs, Loads, BinaryOps
  <2> QED BY <1>1, <2>2, <2>3 DEF Pushes, Leaves
<1>5. CASE op \notin {OP.ARRAY, OP.HASH, OP.CALL, OP.CLOSURE}
  <2>1. Pops(code, pos) = Needs(op, xs)
    BY <1>1, <1>5, SMT DEF Pops, Needs
  <2> QED BY <1>1, <2>1 DEF Pushes, Leaves
<1> QED BY <1>2, <1>3, <1>4, <1>5

(* What an instruction does depends on its own bytes only.                 *)
SameAt(code, other, p) ==
    \A k \in 1..InstructionLength(ByteAt(code, p)) : other[p + k] = code[p + k]

LEMMA SameInstruction ==
    ASSUME NEW code, NEW other, NEW p \in Nat, SameAt(code, other, p)
    PROVE  /\ ByteAt(other, p) = ByteAt(code, p)
           /\ Operands(other, p) = Operands(code, p)
           /\ Pops(other, p) = Pops(code, p) /\ Pushes(other, p) = Pushes(code, p)
<1> DEFINE op == ByteAt(code, p)
           value(c, i) == IF Width(op, i) = 2 THEN ReadUint16(c, p + OperandOffset(op, i))
                          ELSE ByteAt(c, p + OperandOffset(op, i))
<1>1. InstructionLength(op) = 1 + Width(op, 1) + Width(op, 2)
  BY DEF InstructionLength
<1>2. \A k \in 1..InstructionLength(op) : other[p + k] = code[p + k]
  BY DEF SameAt
<1> HIDE DEF op
<1>3. InstructionLength(op) \in 1..4
  BY LengthOfInstruction
<1>4. ByteAt(other, p) = op
  BY <1>2, <1>3 DEF ByteAt, op
<1>5. ASSUME NEW i \in DOMAIN Widths(op) PROVE value(other, i) = value(code, i)
  <2>1. CASE i = 1 /\ Width(op, 1) = 1
    <3>1. ByteAt(other, p + 1) = ByteAt(code, p + 1)
      BY <1>1, <1>2, <1>3, <2>1, Shapes DEF ByteAt
    <3> QED BY <2>1, <3>1 DEF OperandOffset
  <2>2. CASE i = 1 /\ Width(op, 1) = 2
    <3>1. ReadUint16(other, p + 1) = ReadUint16(code, p + 1)
      <4>1. Width(op, 2) \in 0..2
        BY Shapes
      <4> QED BY <1>1, <1>2, <1>3, <2>2, <4>1 DEF ByteAt, ReadUint16
    <3> QED BY <2>2, <3>1 DEF OperandOffset
  <2>3. CASE i = 2
    <3>1. Width(op, 1) = 2 /\ Width(op, 2) = 1
      BY <2>3, Shapes
    <3>2. ByteAt(other, p + 3) = ByteAt(code, p + 3)
      BY <1>1, <1>2, <1>3, <3>1 DEF ByteAt
    <3> QED BY <2>3, <3>1, <3>2 DEF OperandOffset
  <2> QED BY <2>1, <2>2, <2>3, Shapes
<1>6. Operands(other, p) = [i \in DOMAIN Widths(op) |-> value(other, i)]
  BY <1>4 DEF Operands, ReadOperands
<1>7. Operands(code, p) = [i \in DOMAIN Widths(op) |-> value(code, i)]
  BY DEF Operands, ReadOperands, op
<1> HIDE DEF value
<1>8. Operands(other, p) = Operands(code, p)
  BY <1>5, <1>6, <1>7
<1>9. Pops(other, p) = Pops(code, p)
  BY <1>4, <1>8, Zenon DEF Pops, op
<1>10. Pushes(other, p) = Pushes(code, p)
  BY <1>4, Zenon DEF Pushes, op
<1> QED BY <1>4, <1>8, <1>9, <1>10 DEF op

-----------------------------------------------------------------------------
(* Certificates *)

(* The instruction at p with a certificate D: the numbers of operands      *)
(* before it and where it continues agree, except at the target of a jump  *)
(* that is still open.                                                     *)
Certified(code, D, open, p) ==
    LET op == ByteAt(code, p)
        next == p + InstructionLength(op)
        target == Operands(code, p)[1]
    IN  /\ op \in OpCode /\ next \in DOMAIN D
        /\ Pops(code, p) \in Nat /\ Pops(code, p) <= D[p]
        /\ op \notin Ends \cup {OP.JUMP} => D[next] = D[p] - Pops(code, p) + Pushes(code, p)
        /\ op \in Jumps /\ p \notin open =>
             target \in DOMAIN D /\ target > p /\ D[target] = D[p] - Pops(code, p)

(* A certificate for code whose jumps in open have no target yet.  No      *)
(* instruction begins within another one, and none leaves more than one    *)
(* value.                                                                  *)
Sound(code, D, open) ==
    /\ code \in Seq(Byte)
    /\ DOMAIN D \subseteq 0..Len(code) /\ 0 \in DOMAIN D /\ Len(code) \in DOMAIN D
    /\ \A p \in DOMAIN D : D[p] \in 0..p
    /\ \A p, q \in DOMAIN D : p < q => p + InstructionLength(ByteAt(code, p)) <= q
    /\ \A p \in DOMAIN D \ {Len(code)} : Certified(code, D, open, p)

TargetsUpTo(code, D, open, m) ==
    \A p \in DOMAIN D \ {Len(code)} :
        ByteAt(code, p) \in Jumps /\ p \notin open => Operands(code, p)[1] <= m

(* Other code with another certificate has the same jumps, if more.        *)
Keeps(code, D, other, E) ==
    \A p \in DOMAIN D :
        p < Len(code) /\ ByteAt(code, p) \in Jumps =>
            /\ p \in DOMAIN E /\ p < Len(other)
            /\ ByteAt(other, p) = ByteAt(code, p) /\ E[p] = D[p]

Extend(D, n, h) == [p \in DOMAIN D \cup {n} |-> IF p = n THEN h ELSE D[p]]

LEMMA KeepsTwice ==
    ASSUME NEW code, NEW D, NEW other, NEW E, NEW last, NEW F,
           Keeps(code, D, other, E), Keeps(other, E, last, F)
    PROVE  Keeps(code, D, last, F)
BY Zenon DEF Keeps

LEMMA KeepsItself ==
    ASSUME NEW code, NEW D
    PROVE  Keeps(code, D, code, D)
BY DEF Keeps

LEMMA SoundOpen ==
    ASSUME NEW code, NEW D, NEW J, Sound(code, D, J), NEW K, J \subseteq K
    PROVE  Sound(code, D, K)
<1>1. ASSUME NEW p, Certified(code, D, J, p) PROVE Certified(code, D, K, p)
  BY <1>1, Zenon DEF Certified
<1> QED BY <1>1, Zenon DEF Sound

LEMMA CertifiedStill ==
    ASSUME NEW code, NEW D, NEW J, NEW p \in Nat, Certified(code, D, J, p),
           NEW other, SameAt(code, other, p), NEW E, NEW K,
           E[p] = D[p], p + InstructionLength(ByteAt(code, p)) \in DOMAIN E,
           ByteAt(code, p) \notin Ends \cup {OP.JUMP} =>
              E[p + InstructionLength(ByteAt(code, p))]
                = D[p + InstructionLength(ByteAt(code, p))],
           ByteAt(code, p) \in Jumps /\ p \notin K =>
              /\ p \notin J /\ Operands(code, p)[1] \in DOMAIN E
              /\ E[Operands(code, p)[1]] = D[Operands(code, p)[1]]
    PROVE  Certified(other, E, K, p)
<1>1. /\ ByteAt(other, p) = ByteAt(code, p)
      /\ Operands(other, p) = Operands(code, p)
      /\ Pops(other, p) = Pops(code, p) /\ Pushes(other, p) = Pushes(code, p)
  BY SameInstruction
<1> QED BY <1>1, Zenon DEF Certified

LEMMA NeedsNumber ==
    ASSUME NEW op, NEW xs, Takes(op, xs)
    PROVE  Needs(op, xs) \in Nat /\ Leaves(op) \in {0, 1}
<1>1. xs \in Seq(Nat) /\ Len(xs) = Len(Widths(op))
  BY DEF Takes
<1>2. Len(xs) > 0 => xs[1] \in Nat
  BY <1>1, ElementOfSeq
<1>3. Len(xs) > 1 => xs[2] \in Nat
  BY <1>1, ElementOfSeq
<1>4. ASSUME op \in {OP.ARRAY, OP.HASH, OP.CALL} PROVE Len(xs) > 0
  <2>1. op \in TwoByteOps \cup OneByteOps
    BY <1>4, Zenon DEF TwoByteOps, OneByteOps
  <2>2. Width(op, 1) # 0
    BY <2>1, WidthsOf
  <2>3. Len(Widths(op)) \in {1, 2}
    BY <2>2, Shapes
  <2> QED BY <1>1, <2>3
<1>5. ASSUME op = OP.CLOSURE PROVE Len(xs) > 1
  <2>1. Width(op, 2) = 1
    BY <1>5, WidthsOf
  <2>2. Len(Widths(op)) = 2
    BY <2>1, Shapes
  <2> QED BY <1>1, <2>2
<1>6. Leaves(op) \in {0, 1}
  BY DEF Leaves
<1>7. CASE op \in {OP.ARRAY, OP.HASH}
  <2>1. Needs(op, xs) = xs[1]
    BY <1>7, Opcodes DEF Needs, Loads, BinaryOps
  <2> QED BY <1>2, <1>4, <1>6, <1>7, <2>1
<1>8. CASE op = OP.CALL
  <2>1. Needs(op, xs) = xs[1] + 1
    BY <1>8, Opcodes DEF Needs, Loads, BinaryOps
  <2> QED BY <1>2, <1>4, <1>6, <1>8, <2>1
<1>9. CASE op = OP.CLOSURE
  <2>1. Needs(op, xs) = xs[2]
    BY <1>9, Opcodes DEF Needs, Loads, BinaryOps
  <2> QED BY <1>3, <1>5, <1>6, <1>9, <2>1
<1>10. CASE op \notin {OP.ARRAY, OP.HASH, OP.CALL, OP.CLOSURE}
  BY <1>6, <1>10, SMT DEF Needs
<1> QED BY <1>7, <1>8, <1>9, <1>10

LEMMA SameBelow ==
    ASSUME NEW code, NEW p \in Nat, NEW n \in Nat,
           p + InstructionLength(ByteAt(code, p)) <= n,
           NEW other, \A i \in 1..n : other[i] = code[i]
    PROVE  SameAt(code, other, p)
<1> DEFINE length == InstructionLength(ByteAt(code, p))
<1>1. length \in 1..4 /\ p + length <= n
  BY LengthOfInstruction
<1> HIDE DEF length
<1>2. \A k \in 1..length : p + k \in 1..n
  BY <1>1
<1> QED BY <1>2 DEF SameAt, length

(* Bytes that are appended.                                                *)
LEMMA CodeAppended ==
    ASSUME NEW code \in Seq(Byte), NEW op, NEW xs, Takes(op, xs)
    PROVE  LET new == code \o Make(op, xs)
           IN  /\ new \in Seq(Byte) /\ Len(new) = Len(code) + InstructionLength(op)
               /\ \A i \in 1..Len(code) : new[i] = code[i]
               /\ Holding(new, Len(code), op, xs)
<1> DEFINE made == Make(op, xs)
           n == InstructionLength(op)
           new == code \o made
<1>1. made \in Seq(Byte) /\ Len(made) = n /\ n \in 1..4
  BY LaidBytes, LengthOfInstruction
<1> HIDE DEF made, n
<1>2. /\ new \in Seq(Byte) /\ Len(new) = Len(code) + n
      /\ \A i \in 1..Len(code) : new[i] = code[i]
      /\ \A i \in 1..n : new[Len(code) + i] = made[i]
  BY <1>1
<1> HIDE DEF new
<1>3. Holding(new, Len(code), op, xs)
  BY <1>1, <1>2 DEF Holding, made, n
<1> QED BY <1>2, <1>3 DEF new, made, n

(* An instruction is appended: it has its operands, and h is the number    *)
(* behind it, which is free behind an instruction that goes elsewhere.     *)
MayFollow(code, D, op, xs, h) ==
    /\ Needs(op, xs) <= D[Len(code)]
    /\ op \in Ends \cup {OP.JUMP} => h \in 0..Len(code) + 1
    /\ op \notin Ends \cup {OP.JUMP} => h = D[Len(code)] - Needs(op, xs) + Leaves(op)

Follows(code, D, op, h, new, E, K) ==
    /\ Sound(new, E, K) /\ Keeps(code, D, new, E)
    /\ Len(new) = Len(code) + InstructionLength(op) /\ E[Len(new)] = h
    /\ ByteAt(new, Len(code)) = op
    /\ Len(code) \in DOMAIN E /\ E[Len(code)] = D[Len(code)]
    /\ TargetsUpTo(new, E, K, Len(code))

LEMMA SoundAppend ==
    ASSUME NEW code, NEW D, NEW J, Sound(code, D, J),
           NEW op, NEW xs, Takes(op, xs), Counts(op, xs), NEW h, MayFollow(code, D, op, xs, h),
           NEW K, J \subseteq K, op \in Jumps => Len(code) \in K
    PROVE  LET new == code \o Make(op, xs)
           IN  Follows(code, D, op, h, new, Extend(D, Len(new), h), K)
<1> DEFINE n == Len(code)
           new == code \o Make(op, xs)
           E == Extend(D, Len(new), h)
<1>1. /\ code \in Seq(Byte) /\ n \in Nat
      /\ DOMAIN D \subseteq 0..n /\ 0 \in DOMAIN D /\ n \in DOMAIN D
      /\ \A p \in DOMAIN D : D[p] \in 0..p
      /\ \A p, q \in DOMAIN D : p < q => p + InstructionLength(ByteAt(code, p)) <= q
      /\ \A p \in DOMAIN D \ {n} : Certified(code, D, J, p)
  BY DEF Sound
<1>m. /\ Needs(op, xs) <= D[n]
      /\ op \in Ends \cup {OP.JUMP} => h \in 0..n + 1
      /\ op \notin Ends \cup {OP.JUMP} => h = D[n] - Needs(op, xs) + Leaves(op)
  BY DEF MayFollow
<1>2. /\ new \in Seq(Byte) /\ Len(new) = n + InstructionLength(op)
      /\ \A i \in 1..n : new[i] = code[i]
      /\ Holding(new, n, op, xs)
  BY <1>1, CodeAppended
<1>3. InstructionLength(op) \in 1..4 /\ Needs(op, xs) \in Nat /\ Leaves(op) \in {0, 1}
  BY LengthOfInstruction, NeedsNumber
<1>4. ByteAt(new, n) = op /\ Pops(new, n) = Needs(op, xs) /\ Pushes(new, n) = Leaves(op)
  BY <1>1, <1>2, LaidOperands, LaidNeeds
<1> HIDE DEF new
<1>5. /\ DOMAIN E = DOMAIN D \cup {Len(new)} /\ E[Len(new)] = h
      /\ \A p \in DOMAIN D : E[p] = D[p]
  <2>1. Len(new) \notin DOMAIN D
    BY <1>1, <1>2, <1>3
  <2> QED BY <2>1 DEF Extend
<1> HIDE DEF E, n
<1>6. h \in 0..Len(new)
  <2>1. D[n] \in 0..n
    BY <1>1
  <2> QED BY <1>1, <1>2, <1>3, <1>m, <2>1
<1>7. ASSUME NEW p \in DOMAIN D, p # n
      PROVE  /\ p \in Nat /\ p < n /\ p + InstructionLength(ByteAt(code, p)) \in DOMAIN D
             /\ p + InstructionLength(ByteAt(code, p)) <= n
             /\ SameAt(code, new, p) /\ Certified(code, D, J, p)
             /\ ByteAt(code, p) \in Jumps /\ p \notin J => Operands(code, p)[1] \in DOMAIN D
  <2>1. Certified(code, D, J, p)
    BY <1>1, <1>7
  <2>2. p + InstructionLength(ByteAt(code, p)) \in DOMAIN D
    BY <2>1, Zenon DEF Certified
  <2>3. ByteAt(code, p) \in Jumps /\ p \notin J => Operands(code, p)[1] \in DOMAIN D
    BY <2>1, Zenon DEF Certified
  <2>4. InstructionLength(ByteAt(code, p)) \in 1..4
    BY LengthOfInstruction
  <2>5. p \in Nat /\ p < n /\ p + InstructionLength(ByteAt(code, p)) <= n
    BY <1>1, <1>7, <2>2
  <2>6. SameAt(code, new, p)
    BY <1>1, <1>2, <2>5, SameBelow
  <2> QED BY <2>1, <2>2, <2>3, <2>5, <2>6
<1>8. ASSUME NEW p \in DOMAIN E \ {Len(new)} PROVE Certified(new, E, K, p)
  <2>1. CASE p = n
    <3>1. n + InstructionLength(op) \in DOMAIN E
      BY <1>2, <1>5
    <3>2. E[n] = D[n] /\ E[n + InstructionLength(op)] = h
      BY <1>1, <1>2, <1>5
    <3>3. op \in Jumps => n \in K
      BY DEF n
    <3>4. op \in OpCode
      BY DEF Takes
    <3> QED BY <1>3, <1>4, <1>m, <2>1, <3>1, <3>2, <3>3, <3>4, Zenon DEF Certified
  <2>2. CASE p # n
    <3>1. p \in DOMAIN D
      BY <1>5
    <3>2. E[p] = D[p] /\ \A q \in DOMAIN D : q \in DOMAIN E /\ E[q] = D[q]
      BY <1>5, <3>1
    <3> QED BY <1>7, <2>2, <3>1, <3>2, CertifiedStill
  <2> QED BY <2>1, <2>2
<1>9. ASSUME NEW p \in DOMAIN E, NEW q \in DOMAIN E, p < q
      PROVE  p + InstructionLength(ByteAt(new, p)) <= q
  <2>1. CASE p = n
    BY <1>1, <1>2, <1>3, <1>4, <1>5, <1>9, <2>1
  <2>2. CASE p # n /\ p \in DOMAIN D
    <3>1. ByteAt(new, p) = ByteAt(code, p)
      BY <1>7, <2>2, SameInstruction
    <3>2. CASE q \in DOMAIN D
      BY <1>1, <1>9, <2>2, <3>1, <3>2
    <3>3. CASE q = Len(new)
      <4>1. p + InstructionLength(ByteAt(code, p)) <= n
        BY <1>7, <2>2
      <4>2. InstructionLength(ByteAt(code, p)) \in 1..4 /\ p \in Nat
        BY <1>7, <2>2, LengthOfInstruction
      <4> QED BY <1>1, <1>2, <1>3, <3>1, <3>3, <4>1, <4>2
    <3> QED BY <1>5, <3>2, <3>3
  <2>3. CASE p = Len(new)
    BY <1>1, <1>2, <1>3, <1>5, <1>9, <2>3
  <2> QED BY <1>5, <2>1, <2>2, <2>3
<1>10. Sound(new, E, K)
  <2>1. DOMAIN E \subseteq 0..Len(new) /\ 0 \in DOMAIN E /\ Len(new) \in DOMAIN E
    BY <1>1, <1>2, <1>3, <1>5
  <2>2. \A p \in DOMAIN E : E[p] \in 0..p
    BY <1>1, <1>5, <1>6
  <2> QED BY <1>2, <1>8, <1>9, <2>1, <2>2, Zenon DEF Sound
<1>11. Keeps(code, D, new, E)
  <2>1. ASSUME NEW p \in DOMAIN D, p < Len(code)
        PROVE  p \in DOMAIN E /\ p < Len(new) /\ ByteAt(new, p) = ByteAt(code, p) /\ E[p] = D[p]
    <3>1. p # n /\ p < n
      BY <1>1, <2>1 DEF n
    <3>2. p \in Nat /\ SameAt(code, new, p)
      BY <1>7, <3>1
    <3> QED BY <1>1, <1>2, <1>3, <1>5, <3>1, <3>2, SameInstruction
  <2> QED BY <2>1 DEF Keeps
<1>12. TargetsUpTo(new, E, K, n)
  <2>1. ASSUME NEW p \in DOMAIN E \ {Len(new)}, ByteAt(new, p) \in Jumps, p \notin K
        PROVE  Operands(new, p)[1] <= n
    <3>1. p # n
      BY <1>4, <2>1 DEF n
    <3>2. p \in DOMAIN D /\ p \notin J
      BY <1>5, <2>1
    <3>3. ByteAt(new, p) = ByteAt(code, p) /\ Operands(new, p) = Operands(code, p)
      BY <1>7, <3>1, <3>2, SameInstruction
    <3>4. Operands(code, p)[1] \in DOMAIN D
      BY <1>7, <2>1, <3>1, <3>2, <3>3
    <3> QED BY <1>1, <3>3, <3>4
  <2> QED BY <2>1 DEF TargetsUpTo
<1> QED BY <1>1, <1>2, <1>4, <1>5, <1>10, <1>11, <1>12 DEF Follows, E, new, n

(* The last instruction is taken back: no jump goes beyond it.             *)
MayEndAt(code, D, J, m) ==
    /\ m \in DOMAIN D /\ m < Len(code) /\ TargetsUpTo(code, D, J, m)
    /\ m + InstructionLength(ByteAt(code, m)) = Len(code) /\ ByteAt(code, m) \notin Jumps

UpTo(D, m) == [p \in DOMAIN D \cap (0..m) |-> D[p]]

EndsAt(code, D, J, m, new, E) ==
    Sound(new, E, J) /\ Keeps(code, D, new, E) /\ Len(new) = m /\ E[m] = D[m]

LEMMA SoundTruncate ==
    ASSUME NEW code, NEW D, NEW J, Sound(code, D, J), NEW m, MayEndAt(code, D, J, m)
    PROVE  EndsAt(code, D, J, m, SubSeq(code, 1, m), UpTo(D, m))
<1> SUFFICES ASSUME m \in DOMAIN D, m < Len(code), TargetsUpTo(code, D, J, m),
                      m + InstructionLength(ByteAt(code, m)) = Len(code),
                      ByteAt(code, m) \notin Jumps
               PROVE  EndsAt(code, D, J, m, SubSeq(code, 1, m), UpTo(D, m))
  BY DEF MayEndAt
<1> DEFINE n == Len(code)
           new == SubSeq(code, 1, m)
           E == [p \in DOMAIN D \cap (0..m) |-> D[p]]
<1>1. /\ code \in Seq(Byte) /\ n \in Nat
      /\ DOMAIN D \subseteq 0..n /\ 0 \in DOMAIN D /\ n \in DOMAIN D
      /\ \A p \in DOMAIN D : D[p] \in 0..p
      /\ \A p, q \in DOMAIN D : p < q => p + InstructionLength(ByteAt(code, p)) <= q
      /\ \A p \in DOMAIN D \ {n} : Certified(code, D, J, p)
  BY DEF Sound
<1>2. m \in 0..n /\ m < n
  BY <1>1
<1>3. new \in Seq(Byte) /\ Len(new) = m /\ \A i \in 1..m : new[i] = code[i]
  BY <1>1, <1>2
<1>4. /\ DOMAIN E = DOMAIN D \cap (0..m) /\ \A p \in DOMAIN E : E[p] = D[p]
      /\ m \in DOMAIN E
  BY <1>2
<1> HIDE DEF new, E, n
<1>5. ASSUME NEW p \in DOMAIN D, p # m, p <= m
      PROVE  /\ p \in Nat /\ p < m /\ p # n /\ SameAt(code, new, p)
             /\ p + InstructionLength(ByteAt(code, p)) \in DOMAIN E
             /\ Certified(code, D, J, p)
  <2>1. p \in Nat /\ p < m /\ p # n
    BY <1>1, <1>2, <1>5
  <2>2. Certified(code, D, J, p)
    BY <1>1, <2>1
  <2>3. p + InstructionLength(ByteAt(code, p)) \in DOMAIN D
    BY <2>2, Zenon DEF Certified
  <2>4. p + InstructionLength(ByteAt(code, p)) <= m
    BY <1>1, <2>1
  <2>5. p + InstructionLength(ByteAt(code, p)) \in DOMAIN E
    BY <1>1, <1>4, <2>3, <2>4
  <2>6. SameAt(code, new, p)
    BY <1>2, <1>3, <2>1, <2>4, SameBelow
  <2> QED BY <2>1, <2>2, <2>5, <2>6
<1>6. ASSUME NEW p \in DOMAIN E \ {m} PROVE Certified(new, E, J, p)
  <2>1. p \in DOMAIN D /\ p # m /\ p <= m
    BY <1>4
  <2>2. ASSUME ByteAt(code, p) \in Jumps, p \notin J
        PROVE  Operands(code, p)[1] \in DOMAIN E
    <3>1. Operands(code, p)[1] \in DOMAIN D
      BY <1>5, <2>1, <2>2, Zenon DEF Certified
    <3>2. Operands(code, p)[1] <= m
      BY <1>5, <2>1, <2>2 DEF TargetsUpTo, n
    <3> QED BY <1>1, <1>2, <1>4, <3>1, <3>2
  <2> QED BY <1>4, <1>5, <2>1, <2>2, CertifiedStill
<1>7. ASSUME NEW p \in DOMAIN E, NEW q \in DOMAIN E, p < q
      PROVE  p + InstructionLength(ByteAt(new, p)) <= q
  <2>1. p \in DOMAIN D /\ q \in DOMAIN D /\ p # m /\ p <= m
    BY <1>2, <1>4, <1>7
  <2>2. ByteAt(new, p) = ByteAt(code, p)
    BY <1>5, <2>1, SameInstruction
  <2> QED BY <1>1, <1>7, <2>1, <2>2
<1>8. Sound(new, E, J)
  <2>1. DOMAIN E \subseteq 0..m /\ 0 \in DOMAIN E
    BY <1>1, <1>2, <1>4
  <2>2. \A p \in DOMAIN E : E[p] \in 0..p
    BY <1>1, <1>4
  <2> QED BY <1>3, <1>4, <1>6, <1>7, <2>1, <2>2, Zenon DEF Sound
<1>9. Keeps(code, D, new, E)
  <2>1. ASSUME NEW p \in DOMAIN D, p < n, ByteAt(code, p) \in Jumps
        PROVE  p \in DOMAIN E /\ p < m /\ ByteAt(new, p) = ByteAt(code, p) /\ E[p] = D[p]
    <3>1. p # m
      BY <2>1
    <3>2. p < m
      <4>1. m < p => m + InstructionLength(ByteAt(code, m)) <= p
        BY <1>1
      <4> QED BY <1>1, <1>2, <2>1, <3>1, <4>1 DEF n
    <3>3. SameAt(code, new, p) /\ p \in Nat /\ p \in DOMAIN E
      BY <1>1, <1>2, <1>4, <1>5, <3>1, <3>2
    <3> QED BY <1>4, <3>2, <3>3, SameInstruction
  <2> QED BY <1>3, <2>1 DEF Keeps, n
<1> QED BY <1>3, <1>4, <1>8, <1>9 DEF new, E, UpTo, EndsAt

(* The bytes of one instruction are overwritten by another one.            *)
Overwritten(code, p, new) ==
    SubSeq(code, 1, p) \o new \o SubSeq(code, p + Len(new) + 1, Len(code))

LEMMA CodeOverwritten ==
    ASSUME NEW code \in Seq(Byte), NEW p \in Nat, NEW op, NEW xs, Takes(op, xs),
           p + InstructionLength(op) <= Len(code)
    PROVE  LET new == Overwritten(code, p, Make(op, xs))
           IN  /\ new \in Seq(Byte) /\ Len(new) = Len(code)
               /\ Holding(new, p, op, xs)
               /\ \A i \in 1..p : new[i] = code[i]
               /\ \A i \in p + InstructionLength(op) + 1..Len(code) : new[i] = code[i]
<1> DEFINE n == Len(code)
           length == InstructionLength(op)
           made == Make(op, xs)
           before == SubSeq(code, 1, p)
           after == SubSeq(code, p + length + 1, n)
<1>1. made \in Seq(Byte) /\ Len(made) = length /\ length \in 1..4 /\ n \in Nat /\ p + length <= n
  BY LaidBytes, LengthOfInstruction
<1> HIDE DEF made, length
<1>2. before \in Seq(Byte) /\ Len(before) = p /\ \A i \in 1..p : before[i] = code[i]
  BY <1>1
<1>3. /\ after \in Seq(Byte) /\ Len(after) = n - (p + length)
      /\ \A i \in 1..n - (p + length) : after[i] = code[p + length + i]
  BY <1>1
<1> HIDE DEF before, after, n
<1> DEFINE half == before \o made
           new == half \o after
<1>4. /\ half \in Seq(Byte) /\ Len(half) = p + length
      /\ \A i \in 1..p : half[i] = before[i]
      /\ \A i \in 1..length : half[p + i] = made[i]
  BY <1>1, <1>2
<1> HIDE DEF half
<1>5. /\ new \in Seq(Byte) /\ Len(new) = n
      /\ \A i \in 1..p + length : new[i] = half[i]
      /\ \A i \in p + length + 1..n : new[i] = after[i - (p + length)]
  <2> DEFINE mid == p + length
  <2>1. half \in Seq(Byte) /\ Len(half) = mid /\ mid \in Nat /\ mid <= n
    BY <1>1, <1>4
  <2>2. after \in Seq(Byte) /\ Len(after) = n - mid
    BY <1>3
  <2> HIDE DEF mid
  <2>3. /\ new \in Seq(Byte) /\ Len(new) = Len(half) + Len(after)
        /\ \A i \in 1..Len(new) : new[i] = IF i <= Len(half) THEN half[i] ELSE after[i - Len(half)]
    BY <2>1, <2>2, ConcatProperties
  <2> HIDE DEF new
  <2>4. Len(new) = n
    BY <1>1, <2>1, <2>2, <2>3
  <2>5. \A i \in 1..mid : new[i] = half[i]
    BY <1>1, <2>1, <2>3, <2>4
  <2>6. \A i \in mid + 1..n : new[i] = after[i - mid]
    BY <1>1, <2>1, <2>3, <2>4
  <2> QED BY <2>3, <2>4, <2>5, <2>6 DEF mid
<1> HIDE DEF new
<1>6. \A i \in 1..p : new[i] = code[i]
  <2>1. ASSUME NEW i \in 1..p PROVE new[i] = code[i]
    <3>1. i \in 1..p + length
      BY <1>1
    <3>2. new[i] = half[i] /\ half[i] = before[i] /\ before[i] = code[i]
      BY <1>2, <1>4, <1>5, <3>1
    <3> QED BY <3>2
  <2> QED BY <2>1
<1>7. ASSUME NEW k \in 1..length PROVE new[p + k] = made[k]
  BY <1>1, <1>4, <1>5
<1>8. ASSUME NEW i \in p + length + 1..n PROVE new[i] = code[i]
  <2>1. i - (p + length) \in 1..n - (p + length) /\ p + length + (i - (p + length)) = i
    BY <1>1
  <2>2. after[i - (p + length)] = code[p + length + (i - (p + length))]
    BY <1>3, <2>1
  <2> QED BY <1>5, <2>1, <2>2
<1>9. Holding(new, p, op, xs)
  BY <1>1, <1>5, <1>7 DEF Holding, made, length
<1>10. new = Overwritten(code, p, made)
  BY <1>1 DEF Overwritten, new, half, before, after, n
<1> QED BY <1>5, <1>6, <1>8, <1>9, <1>10 DEF made, length, n

(* The other instructions are not touched ...                              *)
LEMMA Elsewhere ==
    ASSUME NEW code, NEW D, NEW J, Sound(code, D, J), NEW p \in DOMAIN D, p < Len(code),
           NEW op, NEW xs, Takes(op, xs),
           InstructionLength(op) = InstructionLength(ByteAt(code, p))
    PROVE  LET new == Overwritten(code, p, Make(op, xs))
           IN  /\ new \in Seq(Byte) /\ Len(new) = Len(code) /\ Holding(new, p, op, xs)
               /\ \A q \in DOMAIN D \ {p, Len(code)} : q \in Nat /\ SameAt(code, new, q)
<1> DEFINE new == Overwritten(code, p, Make(op, xs))
           n == Len(code)
           length == InstructionLength(op)
<1>1. /\ code \in Seq(Byte) /\ n \in Nat /\ n \in DOMAIN D
      /\ DOMAIN D \subseteq 0..n
      /\ \A x, y \in DOMAIN D : x < y => x + InstructionLength(ByteAt(code, x)) <= y
  BY DEF Sound
<1>2. p \in Nat /\ p < n /\ p + length <= n
  BY <1>1
<1>3. /\ new \in Seq(Byte) /\ Len(new) = n /\ Holding(new, p, op, xs)
      /\ \A i \in 1..p : new[i] = code[i]
      /\ \A i \in p + length + 1..n : new[i] = code[i]
  BY <1>1, <1>2, CodeOverwritten
<1> HIDE DEF new, n, length
<1>4. ASSUME NEW q \in DOMAIN D, q # p, q # n PROVE q \in Nat /\ SameAt(code, new, q)
  <2> DEFINE size == InstructionLength(ByteAt(code, q))
  <2>1. q \in Nat /\ q < n /\ q + size <= n /\ size \in 1..4
    BY <1>1, <1>4, LengthOfInstruction
  <2>2. CASE q < p
    <3>1. q + size <= p
      BY <1>1, <2>2
    <3> QED BY <1>2, <1>3, <2>1, <3>1, SameBelow
  <2>3. CASE p < q
    <3>1. p + length <= q
      BY <1>1, <2>3 DEF length
    <3> HIDE DEF size
    <3>2. length \in 1..4
      BY LengthOfInstruction DEF length
    <3>3. \A k \in 1..size : q + k \in p + length + 1..n
      BY <1>1, <1>2, <2>1, <3>1, <3>2
    <3> QED BY <1>3, <2>1, <3>3 DEF SameAt, size
  <2> QED BY <1>1, <1>2, <1>4, <2>1, <2>2, <2>3
<1> QED BY <1>3, <1>4 DEF new, n

(* ... when one is replaced.                                               *)
LEMMA SoundReplaced ==
    ASSUME NEW code, NEW D, NEW J, Sound(code, D, J), NEW p \in DOMAIN D, p < Len(code),
           NEW op, NEW xs, Takes(op, xs),
           InstructionLength(op) = InstructionLength(ByteAt(code, p)),
           NEW K, J \subseteq K \cup {p},
           Certified(Overwritten(code, p, Make(op, xs)), D, K, p)
    PROVE  LET new == Overwritten(code, p, Make(op, xs))
           IN  /\ Sound(new, D, K) /\ Len(new) = Len(code)
               /\ ByteAt(new, p) = op
               /\ \A q \in DOMAIN D \ {p, Len(code)} :
                    ByteAt(new, q) = ByteAt(code, q) /\ Operands(new, q) = Operands(code, q)
<1> DEFINE new == Overwritten(code, p, Make(op, xs))
           n == Len(code)
<1>1. /\ code \in Seq(Byte) /\ n \in Nat
      /\ DOMAIN D \subseteq 0..n /\ 0 \in DOMAIN D /\ n \in DOMAIN D
      /\ \A x \in DOMAIN D : D[x] \in 0..x
      /\ \A x, y \in DOMAIN D : x < y => x + InstructionLength(ByteAt(code, x)) <= y
      /\ \A x \in DOMAIN D \ {n} : Certified(code, D, J, x)
  BY DEF Sound
<1>2. /\ new \in Seq(Byte) /\ Len(new) = n /\ Holding(new, p, op, xs)
      /\ \A q \in DOMAIN D \ {p, n} : q \in Nat /\ SameAt(code, new, q)
  BY Elsewhere
<1>3. ByteAt(new, p) = op
  BY <1>1, <1>2, LaidOperands
<1>4. Certified(new, D, K, p)
  OBVIOUS
<1> HIDE DEF new, n
<1>5. \A q \in DOMAIN D \ {p, n} :
        ByteAt(new, q) = ByteAt(code, q) /\ Operands(new, q) = Operands(code, q)
  BY <1>2, SameInstruction
<1>6. ASSUME NEW q \in DOMAIN D \ {p, n} PROVE Certified(new, D, K, q)
  <2>1. Certified(code, D, J, q) /\ q \in Nat /\ SameAt(code, new, q) /\ (q \notin K => q \notin J)
    BY <1>1, <1>2
  <2>2. /\ q + InstructionLength(ByteAt(code, q)) \in DOMAIN D
        /\ ByteAt(code, q) \in Jumps /\ q \notin J => Operands(code, q)[1] \in DOMAIN D
    BY <2>1, Zenon DEF Certified
  <2> QED BY <2>1, <2>2, CertifiedStill
<1>7. ASSUME NEW x \in DOMAIN D, NEW y \in DOMAIN D, x < y
      PROVE  x + InstructionLength(ByteAt(new, x)) <= y
  <2>1. x # n
    BY <1>1, <1>7
  <2>2. InstructionLength(ByteAt(new, x)) = InstructionLength(ByteAt(code, x))
    BY <1>3, <1>5, <2>1
  <2> QED BY <1>1, <1>7, <2>2
<1>8. Sound(new, D, K)
  BY <1>1, <1>2, <1>4, <1>6, <1>7, Zenon DEF Sound
<1> QED BY <1>2, <1>3, <1>5, <1>8 DEF new, n

(* The opcodes that are written over an instruction that is already there. *)
LEMMA JumpShape ==
    ASSUME NEW op \in Jumps
    PROVE  /\ op \in OpCode /\ op \notin Ends /\ Leaves(op) = 0
           /\ op \notin {OP.ARRAY, OP.HASH, OP.CALL, OP.CLOSURE}
           /\ Width(op, 1) = 2 /\ Width(op, 2) = 0 /\ Len(Widths(op)) = 1
           /\ InstructionLength(op) = 3
<1>1. op \in TwoByteOps /\ Leaves(op) = 0
  BY Zenon DEF TwoByteOps, Jumps, Leaves
<1>2. Width(op, 1) = 2 /\ Width(op, 2) = 0
  BY <1>1, WidthsOf
<1>3. Len(Widths(op)) = 1
  BY <1>2, Shapes
<1>4. /\ op \in OpCode /\ op \notin Ends
      /\ op \notin {OP.ARRAY, OP.HASH, OP.CALL, OP.CLOSURE}
  BY Opcodes DEF Jumps, Ends, OpCode
<1>5. InstructionLength(op) = 3
  BY <1>2 DEF InstructionLength
<1> QED BY <1>1, <1>2, <1>3, <1>4, <1>5

LEMMA PopShape ==
    ASSUME NEW op \in {OP.POP, OP.RETURN_VALUE}
    PROVE  /\ op \in OpCode /\ op \notin Jumps
           /\ op \notin {OP.ARRAY, OP.HASH, OP.CALL, OP.CLOSURE}
           /\ Width(op, 1) = 0 /\ Width(op, 2) = 0 /\ Len(Widths(op)) = 0
           /\ InstructionLength(op) = 1 /\ Needs(op, << >>) = 1
<1>1. op \notin TwoByteOps \cup OneByteOps \cup {OP.CLOSURE}
  BY Opcodes DEF TwoByteOps, OneByteOps
<1>2. Width(op, 1) = 0 /\ Width(op, 2) = 0
  BY <1>1, WidthsOf
<1>3. Len(Widths(op)) = 0
  BY <1>2, Shapes
<1>4. /\ op \in OpCode /\ op \notin Jumps
      /\ op \notin {OP.ARRAY, OP.HASH, OP.CALL, OP.CLOSURE}
      /\ op \notin Loads \cup {OP.JUMP, OP.RETURN} /\ op \notin BinaryOps
  BY Opcodes DEF OpCode, Jumps, Loads, BinaryOps
<1>5. Needs(op, << >>) = 1
  BY <1>4, Zenon DEF Needs
<1>6. InstructionLength(op) = 1
  BY <1>2 DEF InstructionLength
<1> QED BY <1>2, <1>3, <1>4, <1>5, <1>6

LEMMA NeedsAlone ==
    ASSUME NEW op, op \notin {OP.ARRAY, OP.HASH, OP.CALL, OP.CLOSURE}
    PROVE  /\ \A xs : Needs(op, xs) = Needs(op, << >>) /\ Counts(op, xs)
           /\ \A code, p : ByteAt(code, p) = op =>
                Pops(code, p) = Needs(op, << >>) /\ Pushes(code, p) = Leaves(op)
<1>1. \A xs : Needs(op, xs) = Needs(op, << >>)
  BY SMT DEF Needs
<1>2. \A xs : Counts(op, xs)
  BY DEF Counts
<1>3. \A code, p : ByteAt(code, p) = op => Pops(code, p) = Needs(op, << >>)
  BY SMT DEF Pops, Needs
<1>4. \A code, p : ByteAt(code, p) = op => Pushes(code, p) = Leaves(op)
  BY Zenon DEF Pushes, Leaves
<1> QED BY <1>1, <1>2, <1>3, <1>4

LEMMA CertifiedBy ==
    ASSUME NEW code, NEW D, NEW open, NEW p, NEW op, ByteAt(code, p) = op, op \in OpCode,
           p + InstructionLength(op) \in DOMAIN D,
           NEW pops \in Nat, Pops(code, p) = pops, pops <= D[p],
           op \notin Ends \cup {OP.JUMP} =>
              D[p + InstructionLength(op)] = D[p] - pops + Pushes(code, p),
           NEW t, op \in Jumps /\ p \notin open =>
              Operands(code, p)[1] = t /\ t \in DOMAIN D /\ t > p /\ D[t] = D[p] - pops
    PROVE  Certified(code, D, open, p)
BY Zenon DEF Certified

LEMMA CertifiedMeans ==
    ASSUME NEW code, NEW D, NEW open, NEW p, NEW op, ByteAt(code, p) = op,
           Certified(code, D, open, p)
    PROVE  /\ op \in OpCode /\ p + InstructionLength(op) \in DOMAIN D
           /\ Pops(code, p) \in Nat /\ Pops(code, p) <= D[p]
           /\ op \notin Ends \cup {OP.JUMP} =>
                D[p + InstructionLength(op)] = D[p] - Pops(code, p) + Pushes(code, p)
           /\ op \in Jumps /\ p \notin open =>
                /\ Operands(code, p)[1] \in DOMAIN D /\ Operands(code, p)[1] > p
                /\ D[Operands(code, p)[1]] = D[p] - Pops(code, p)
BY Zenon DEF Certified

(* A jump is given its target.                                             *)
MayTarget(code, D, p, op, t) ==
    /\ p \in DOMAIN D /\ p < Len(code) /\ op \in Jumps /\ ByteAt(code, p) = op
    /\ t \in DOMAIN D /\ t > p /\ t < 65536 /\ D[t] = D[p] - Needs(op, << >>)

Targeted(code, D, J, p, new) ==
    /\ Sound(new, D, J \ {p}) /\ Len(new) = Len(code)
    /\ \A q \in DOMAIN D \ {Len(code)} : ByteAt(new, q) = ByteAt(code, q)

LEMMA SoundPatch ==
    ASSUME NEW code, NEW D, NEW J, Sound(code, D, J), NEW p, NEW op, NEW t,
           MayTarget(code, D, p, op, t)
    PROVE  Targeted(code, D, J, p, Overwritten(code, p, Make(op, <<t>>)))
<1> SUFFICES ASSUME p \in DOMAIN D, p < Len(code), op \in Jumps, ByteAt(code, p) = op,
                      t \in DOMAIN D, t > p, t < 65536, D[t] = D[p] - Needs(op, << >>)
               PROVE  Targeted(code, D, J, p, Overwritten(code, p, Make(op, <<t>>)))
  BY DEF MayTarget
<1> DEFINE new == Overwritten(code, p, Make(op, <<t>>))
           n == Len(code)
           xs == <<t>>
<1>1. DOMAIN D \subseteq 0..n /\ n \in Nat /\ n \in DOMAIN D /\ Certified(code, D, J, p)
  BY DEF Sound
<1>2. t \in Nat /\ p \in Nat
  BY <1>1
<1>3. xs \in Seq(Nat) /\ Len(xs) = 1 /\ xs[1] = t
  BY <1>2
<1>n. new = Overwritten(code, p, Make(op, xs))
  OBVIOUS
<1> HIDE DEF new, xs, n
<1>4. /\ op \in OpCode /\ op \notin Ends /\ Leaves(op) = 0 /\ Width(op, 1) = 2
      /\ op \notin {OP.ARRAY, OP.HASH, OP.CALL, OP.CLOSURE} /\ Len(Widths(op)) = 1
  BY JumpShape
<1>5. Takes(op, xs) /\ Counts(op, xs) /\ Needs(op, xs) = Needs(op, << >>)
  <2>1. Counts(op, xs) /\ Needs(op, xs) = Needs(op, << >>)
    BY <1>4, NeedsAlone
  <2> QED BY <1>3, <1>4, <2>1 DEF Takes
<1>6. InstructionLength(op) = InstructionLength(ByteAt(code, p))
  OBVIOUS
<1>7. Holding(new, p, op, xs)
  BY <1>5, <1>6, <1>n, Elsewhere DEF n
<1>8. /\ ByteAt(new, p) = op
      /\ Pops(new, p) = Needs(op, << >>) /\ Pushes(new, p) = 0
  BY <1>2, <1>4, <1>5, <1>7, LaidOperands, LaidNeeds
<1>9. Operands(new, p)[1] = t
  BY <1>2, <1>3, <1>4, <1>5, <1>7, LaidOperands
<1>10. Pops(code, p) = Needs(op, << >>) /\ Pushes(code, p) = 0
  BY <1>4, NeedsAlone
<1>11. Certified(new, D, J \ {p}, p)
  <2>1. /\ p + InstructionLength(op) \in DOMAIN D
        /\ Needs(op, << >>) \in Nat /\ Needs(op, << >>) <= D[p]
        /\ op \notin Ends \cup {OP.JUMP} =>
             D[p + InstructionLength(op)] = D[p] - Needs(op, << >>) + 0
    BY <1>1, <1>10, CertifiedMeans
  <2> QED BY <1>4, <1>8, <1>9, <2>1, CertifiedBy
<1>12. J \subseteq (J \ {p}) \cup {p}
  OBVIOUS
<1>13. /\ Sound(new, D, J \ {p}) /\ Len(new) = n /\ ByteAt(new, p) = op
       /\ \A q \in DOMAIN D \ {p, n} :
            ByteAt(new, q) = ByteAt(code, q) /\ Operands(new, q) = Operands(code, q)
  BY <1>5, <1>6, <1>11, <1>12, <1>n, SoundReplaced DEF n
<1>14. ByteAt(code, p) = op
  OBVIOUS
<1> HIDE DEF new, n
<1>15. \A q \in DOMAIN D \ {n} : ByteAt(new, q) = ByteAt(code, q)
  BY <1>13, <1>14
<1> QED BY <1>13, <1>15 DEF new, n, Targeted

(* A pop at the end becomes a return of the value.                         *)
LEMMA SoundReturn ==
    ASSUME NEW code, NEW D, NEW J, Sound(code, D, J), NEW m \in DOMAIN D, m < Len(code),
           ByteAt(code, m) = OP.POP, TargetsUpTo(code, D, J, m)
    PROVE  LET new == Overwritten(code, m, Make(OP.RETURN_VALUE, << >>))
           IN  /\ Sound(new, D, J) /\ Len(new) = Len(code)
               /\ ByteAt(new, m) = OP.RETURN_VALUE
               /\ TargetsUpTo(new, D, J, m)
<1> DEFINE op == OP.RETURN_VALUE
           new == Overwritten(code, m, Make(op, << >>))
           n == Len(code)
<1>1. DOMAIN D \subseteq 0..n /\ n \in Nat /\ Certified(code, D, J, m)
  BY DEF Sound
<1>2. m \in Nat /\ op \in Ends
  BY <1>1 DEF Ends
<1>n. op \in {OP.POP, OP.RETURN_VALUE} /\ new = Overwritten(code, m, Make(op, << >>))
  OBVIOUS
<1> HIDE DEF new, op, n
<1>3. /\ op \in OpCode /\ op \notin Jumps
      /\ op \notin {OP.ARRAY, OP.HASH, OP.CALL, OP.CLOSURE}
      /\ Len(Widths(op)) = 0 /\ InstructionLength(op) = 1 /\ Needs(op, << >>) = 1
  BY <1>n, PopShape
<1>4. InstructionLength(OP.POP) = 1 /\ Needs(OP.POP, << >>) = 1
      /\ OP.POP \notin {OP.ARRAY, OP.HASH, OP.CALL, OP.CLOSURE}
  BY PopShape
<1>5. Takes(op, << >>) /\ Counts(op, << >>)
  BY <1>3, NeedsAlone DEF Takes
<1>6. InstructionLength(op) = InstructionLength(ByteAt(code, m))
  BY <1>3, <1>4
<1>7. Holding(new, m, op, << >>)
  BY <1>5, <1>6, <1>n, Elsewhere DEF n
<1>8. ByteAt(new, m) = op /\ Pops(new, m) = 1
  BY <1>2, <1>3, <1>5, <1>7, LaidOperands, LaidNeeds
<1>9. Pops(code, m) = 1
  BY <1>4, NeedsAlone
<1>10. m + InstructionLength(op) \in DOMAIN D /\ 1 <= D[m]
  BY <1>1, <1>6, <1>9, CertifiedMeans
<1>11. Certified(new, D, J, m)
  BY <1>2, <1>3, <1>8, <1>10, CertifiedBy
<1>12. /\ Sound(new, D, J) /\ Len(new) = n
       /\ \A q \in DOMAIN D \ {m, n} :
            ByteAt(new, q) = ByteAt(code, q) /\ Operands(new, q) = Operands(code, q)
  <2>1. J \subseteq J \cup {m}
    OBVIOUS
  <2> QED BY <1>5, <1>6, <1>11, <1>n, <2>1, SoundReplaced DEF n
<1>13. TargetsUpTo(new, D, J, m)
  BY <1>3, <1>8, <1>12, Zenon DEF TargetsUpTo, n
<1> QED BY <1>8, <1>12, <1>13 DEF new, n, op

(* Behind an instruction that goes nowhere any number may stand.           *)
LEMMA SoundAnew ==
    ASSUME NEW code, NEW D, NEW J, Sound(code, D, J), NEW m \in DOMAIN D, m < Len(code),
           ByteAt(code, m) \in Ends, m + InstructionLength(ByteAt(code, m)) = Len(code),
           TargetsUpTo(code, D, J, m), NEW h \in 0..Len(code)
    PROVE  LET E == Extend(D, Len(code), h)
           IN  /\ Sound(code, E, J) /\ Keeps(code, D, code, E) /\ E[Len(code)] = h
               /\ m \in DOMAIN E
<1> DEFINE n == Len(code)
           E == Extend(D, n, h)
<1>1. /\ code \in Seq(Byte) /\ n \in Nat
      /\ DOMAIN D \subseteq 0..n /\ 0 \in DOMAIN D /\ n \in DOMAIN D
      /\ \A x \in DOMAIN D : D[x] \in 0..x
      /\ \A x, y \in DOMAIN D : x < y => x + InstructionLength(ByteAt(code, x)) <= y
      /\ \A x \in DOMAIN D \ {n} : Certified(code, D, J, x)
  BY DEF Sound
<1>2. /\ DOMAIN E = DOMAIN D /\ E[n] = h
      /\ \A p \in DOMAIN D : p # n => E[p] = D[p]
  BY <1>1 DEF Extend
<1> HIDE DEF E, n
<1>3. ASSUME NEW p \in DOMAIN D, p # n PROVE Certified(code, E, J, p)
  <2>1. Certified(code, D, J, p) /\ p \in Nat /\ SameAt(code, code, p) /\ E[p] = D[p]
    BY <1>1, <1>2, <1>3 DEF SameAt
  <2>2. /\ p + InstructionLength(ByteAt(code, p)) \in DOMAIN D
        /\ ByteAt(code, p) \in Jumps /\ p \notin J => Operands(code, p)[1] \in DOMAIN D
    BY <2>1, Zenon DEF Certified
  <2>3. ASSUME ByteAt(code, p) \notin Ends \cup {OP.JUMP}
        PROVE  p + InstructionLength(ByteAt(code, p)) # n
    <3>1. p # m /\ m < n /\ m \in DOMAIN D
      BY <2>3 DEF n
    <3>2. CASE p < m
      <4>1. p + InstructionLength(ByteAt(code, p)) <= m
        BY <1>1, <3>2
      <4> QED BY <1>1, <2>2, <3>1, <4>1
    <3>3. CASE m < p
      <4>1. m + InstructionLength(ByteAt(code, m)) <= p
        BY <1>1, <3>3
      <4> QED BY <1>1, <1>3, <4>1 DEF n
    <3> QED BY <1>1, <3>1, <3>2, <3>3
  <2>4. ASSUME ByteAt(code, p) \in Jumps, p \notin J
        PROVE  Operands(code, p)[1] # n
    <3>1. Operands(code, p)[1] <= m /\ m < n
      BY <1>3, <2>4 DEF TargetsUpTo, n
    <3> QED BY <1>1, <2>2, <2>4, <3>1
  <2> QED BY <1>2, <2>1, <2>2, <2>3, <2>4, CertifiedStill
<1>4. \A x \in DOMAIN E : E[x] \in 0..x
  BY <1>1, <1>2 DEF n
<1>5. Sound(code, E, J)
  BY <1>1, <1>2, <1>3, <1>4, Zenon DEF Sound, n
<1>6. Keeps(code, D, code, E)
  <2>1. ASSUME NEW p \in DOMAIN D, p < n PROVE p # n
    BY <1>1, <2>1
  <2> QED BY <1>2, <2>1 DEF Keeps, n
<1> QED BY <1>2, <1>5, <1>6 DEF E, n

-----------------------------------------------------------------------------
(* Code with a certificate verifies *)

(* The certificate's offsets are those found reading from the first byte.  *)
Cut(code, f) ==
    [p \in Nat |-> IF p < Len(code) /\ ByteAt(code, p) \in OpCode
                   THEN {p} \cup f[p + InstructionLength(ByteAt(code, p))]
                   ELSE {p}]
IsCut(code, f) == f = Cut(code, f)

LEMMA CutExists ==
    ASSUME NEW code
    PROVE  \E f : IsCut(code, f)
<1> DEFINE next(p) == p + InstructionLength(ByteAt(code, p))
           goes(p) == p < Len(code) /\ ByteAt(code, p) \in OpCode
           closed(S) == \A q \in S : goes(q) => next(q) \in S
           f == [p \in Nat |-> {q \in Nat : \A S \in SUBSET Nat :
                                               p \in S /\ closed(S) => q \in S}]
<1>1. ASSUME NEW p \in Nat PROVE next(p) \in Nat
  BY LengthOfInstruction
<1> HIDE DEF next, goes
<1>2. ASSUME NEW p \in Nat
      PROVE  /\ f[p] \in SUBSET Nat /\ p \in f[p] /\ closed(f[p])
             /\ \A S \in SUBSET Nat : p \in S /\ closed(S) => f[p] \subseteq S
  BY <1>1
<1> HIDE DEF f
<1>3. ASSUME NEW p \in Nat, goes(p) PROVE f[p] = {p} \cup f[next(p)]
  <2>1. next(p) \in f[p]
    BY <1>2, <1>3
  <2>2. f[next(p)] \subseteq f[p]
    BY <1>1, <1>2, <2>1
  <2> DEFINE S == {p} \cup f[next(p)]
  <2>3. S \in SUBSET Nat /\ p \in S /\ closed(S)
    BY <1>1, <1>2
  <2>4. f[p] \subseteq S
    BY <1>2, <2>3
  <2> QED BY <1>2, <2>2, <2>4
<1>4. ASSUME NEW p \in Nat, ~goes(p) PROVE f[p] = {p}
  <2>1. {p} \in SUBSET Nat /\ p \in {p} /\ closed({p})
    BY <1>4
  <2>2. f[p] \subseteq {p}
    BY <1>2, <2>1
  <2> QED BY <1>2, <2>2
<1>5. f = [p \in Nat |-> f[p]]
  BY DEF f
<1>6. f = Cut(code, f)
  BY <1>3, <1>4, <1>5 DEF Cut, next, goes
<1> QED BY <1>6 DEF IsCut

LEMMA StartsCut ==
    ASSUME NEW code
    PROVE  \E f : IsCut(code, f) /\ Starts(code) = f[0]
<1> DEFINE f == CHOOSE g : IsCut(code, g)
<1>1. IsCut(code, f)
  BY CutExists, Zenon
<1>2. Starts(code) = f[0]
  BY Zenon DEF Starts, IsCut, Cut
<1> QED BY <1>1, <1>2

LEMMA StartsOfSound ==
    ASSUME NEW code, NEW D, NEW J, Sound(code, D, J)
    PROVE  Starts(code) = DOMAIN D
<1> DEFINE n == Len(code)
           From(p) == {q \in DOMAIN D : p <= q}
<1>1. /\ n \in Nat /\ DOMAIN D \subseteq 0..n /\ 0 \in DOMAIN D /\ n \in DOMAIN D
      /\ \A p, q \in DOMAIN D : p < q => p + InstructionLength(ByteAt(code, p)) <= q
      /\ \A p \in DOMAIN D \ {n} : Certified(code, D, J, p)
  BY DEF Sound
<1>2. PICK f : IsCut(code, f) /\ Starts(code) = f[0]
  BY StartsCut
<1>3. \A p \in Nat : f[p] = IF p < n /\ ByteAt(code, p) \in OpCode
                            THEN {p} \cup f[p + InstructionLength(ByteAt(code, p))]
                            ELSE {p}
  BY <1>2 DEF IsCut, Cut
<1>a. ASSUME NEW p \in Nat, p < n, ByteAt(code, p) \in OpCode
      PROVE  f[p] = {p} \cup f[p + InstructionLength(ByteAt(code, p))]
  BY <1>3, <1>a, Zenon
<1>b. ASSUME NEW p \in Nat, ~(p < n) PROVE f[p] = {p}
  BY <1>3, <1>b, Zenon
<1> HIDE DEF n
<1> DEFINE Wrong == {k \in 0..n : \E p \in DOMAIN D : k = n - p /\ f[p] # From(p)}
<1>4. ASSUME Wrong # {} PROVE FALSE
  <2>1. PICK k \in Wrong : \A j \in Wrong : k <= j
    <3>1. Wrong \subseteq Nat
      OBVIOUS
    <3> QED BY <1>4, <3>1, LeastNumber, Zenon
  <2>2. PICK p \in DOMAIN D : k = n - p /\ f[p] # From(p)
    BY <2>1
  <2>3. p \in Nat /\ p <= n
    BY <1>1
  <2>4. p # n
    <3>1. ASSUME p = n PROVE f[p] = {p}
      BY <1>b, <2>3, <3>1
    <3>2. ASSUME p = n PROVE From(p) = {p}
      BY <1>1, <3>2
    <3> QED BY <2>2, <3>1, <3>2
  <2> DEFINE next == p + InstructionLength(ByteAt(code, p))
  <2>5. next \in DOMAIN D /\ ByteAt(code, p) \in OpCode
    BY <1>1, <2>4, CertifiedMeans
  <2>6. f[p] = {p} \cup f[next]
    <3>1. p < n
      BY <1>1, <2>3, <2>4
    <3> QED BY <1>a, <2>3, <2>5, <3>1
  <2>7. next > p /\ next \in Nat /\ next <= n
    <3>1. InstructionLength(ByteAt(code, p)) \in 1..4
      BY LengthOfInstruction
    <3> QED BY <1>1, <2>3, <2>5, <3>1
  <2>8. \A q \in DOMAIN D : p < q => next <= q
    BY <1>1
  <2> HIDE DEF next
  <2>9. n - next \notin Wrong
    BY <1>1, <2>1, <2>2, <2>3, <2>7
  <2>10. f[next] = From(next)
    BY <1>1, <2>5, <2>7, <2>9
  <2>11. From(p) = {p} \cup From(next)
    BY <1>1, <2>3, <2>7, <2>8
  <2> QED BY <2>2, <2>6, <2>10, <2>11
<1>5. n - 0 \notin Wrong /\ n - 0 \in 0..n
  BY <1>1, <1>4
<1>6. f[0] = From(0)
  BY <1>1, <1>5
<1>7. From(0) = DOMAIN D
  BY <1>1
<1> QED BY <1>2, <1>6, <1>7

(* Running forward from every offset in turn.                              *)
Pass(code, f, n) ==
    [p \in 0..n |->
        IF p = 0 THEN {<<0, 0>>}
        ELSE IF p - 1 \in Starts(code) THEN Forward(code, f[p-1], p - 1) ELSE f[p-1]]
IsPass(code, f, n) == f = Pass(code, f, n)

LEMMA PassExists ==
    ASSUME NEW code, NEW n \in Nat
    PROVE  \E f : IsPass(code, f, n)
<1> DEFINE Missing == {m \in Nat : ~\E f : IsPass(code, f, m)}
<1>1. SUFFICES ASSUME Missing # {} PROVE FALSE
  OBVIOUS
<1>2. PICK m \in Missing : \A k \in Missing : m <= k
  <2>1. Missing \subseteq Nat
    OBVIOUS
  <2> QED BY <1>1, <2>1, LeastNumber, Zenon
<1>3. CASE m = 0
  <2> DEFINE f == [i \in 0..0 |-> {<<0, 0>>}]
  <2>1. f = Pass(code, f, 0)
    BY DEF Pass
  <2> QED BY <1>2, <1>3, <2>1 DEF IsPass
<1>4. CASE m # 0
  <2>1. m \in Nat /\ m - 1 \in Nat /\ m - 1 \notin Missing
    BY <1>2, <1>4
  <2>2. PICK g : IsPass(code, g, m - 1)
    BY <2>1
  <2> DEFINE value(h, i) == IF i = 0 THEN {<<0, 0>>}
                            ELSE IF i - 1 \in Starts(code) THEN Forward(code, h[i-1], i - 1)
                            ELSE h[i-1]
             f == [i \in 0..m |-> IF i = m THEN value(g, m) ELSE g[i]]
  <2>3. ASSUME NEW i \in 0..m PROVE f[i] = value(f, i)
    <3>1. CASE i = m
      <4>1. f[m-1] = g[m-1]
        BY <2>1
      <4> QED BY <1>4, <2>1, <3>1, <4>1
    <3>2. CASE i # m
      <4>1. i \in 0..m-1 /\ f[i] = g[i] /\ (i # 0 => f[i-1] = g[i-1])
        BY <2>1, <3>2
      <4>2. g[i] = value(g, i)
        BY <2>2, <4>1 DEF IsPass, Pass
      <4> QED BY <4>1, <4>2
    <3> QED BY <3>1, <3>2
  <2>4. IsPass(code, f, m)
    BY <2>3 DEF IsPass, Pass
  <2> QED BY <1>2, <2>4
<1> QED BY <1>3, <1>4

LEMMA ReachedPass ==
    ASSUME NEW code, Len(code) \in Nat
    PROVE  \E f : IsPass(code, f, Len(code)) /\ Reached(code) = f[Len(code)]
<1> DEFINE f == CHOOSE g : IsPass(code, g, Len(code))
<1>1. IsPass(code, f, Len(code))
  BY PassExists, Zenon
<1>2. Reached(code) = f[Len(code)]
  BY Zenon DEF Reached, IsPass, Pass
<1> QED BY <1>1, <1>2

(* No path runs off the end: the last instruction goes nowhere and no jump *)
(* passes it.                                                              *)
Closed(code, D) ==
    \E m \in DOMAIN D : /\ m < Len(code) /\ ByteAt(code, m) \in Ends
                        /\ m + InstructionLength(ByteAt(code, m)) = Len(code)
                        /\ TargetsUpTo(code, D, {}, m)

LEMMA Goes ==
    ASSUME NEW code, NEW D, Sound(code, D, {}), NEW p \in DOMAIN D, p # Len(code),
           NEW q \in Successors(code, p)
    PROVE  /\ q \in DOMAIN D /\ q > p
           /\ D[p] - Pops(code, p) + Pushes(code, p) = D[q]
           /\ Closed(code, D) => q # Len(code)
<1> DEFINE n == Len(code)
           op == ByteAt(code, p)
           next == p + InstructionLength(op)
           target == Operands(code, p)[1]
           pops == Pops(code, p)
           pushes == Pushes(code, p)
<1>1. /\ n \in Nat /\ DOMAIN D \subseteq 0..n /\ n \in DOMAIN D
      /\ \A x \in DOMAIN D : D[x] \in 0..x
      /\ \A x, y \in DOMAIN D : x < y => x + InstructionLength(ByteAt(code, x)) <= y
      /\ Certified(code, D, {}, p)
  BY DEF Sound
<1>2. /\ op \in OpCode /\ next \in DOMAIN D /\ pops \in Nat /\ pops <= D[p]
      /\ op \notin Ends \cup {OP.JUMP} => D[next] = D[p] - pops + pushes
      /\ op \in Jumps => target \in DOMAIN D /\ target > p /\ D[target] = D[p] - pops
  BY <1>1, CertifiedMeans
<1>3. InstructionLength(op) \in 1..4
  BY LengthOfInstruction
<1>4. /\ op \in Jumps => op \notin Ends /\ pushes = 0
      /\ q = next \/ q = target
      /\ q = next \/ op \in Jumps
      /\ op \notin Ends
      /\ op = OP.JUMP => q = target
  <2>1. op \in Jumps => op \notin Ends
    BY JumpShape
  <2>2. op \in Jumps => pushes = 0
    BY DEF Pushes
  <2>3. OP.JUMP \in Jumps /\ OP.JUMP_NOT_TRUTHY \in Jumps /\ OP.JUMP # OP.JUMP_NOT_TRUTHY
    BY Opcodes DEF Jumps
  <2>4. q \in IF op \in Ends THEN {}
             ELSE IF op = OP.JUMP THEN {target}
             ELSE IF op = OP.JUMP_NOT_TRUTHY THEN {next} \cup {target}
             ELSE {next}
    <3>1. op = OP.JUMP => op \notin Ends
      BY <2>1, <2>3
    <3>2. op = OP.JUMP_NOT_TRUTHY => op \notin Ends /\ op # OP.JUMP
      BY <2>1, <2>3
    <3> QED BY <3>1, <3>2, Zenon DEF Successors
  <2> HIDE DEF op, next, target, pushes
  <2> QED BY <2>1, <2>2, <2>3, <2>4
<1>5. ASSUME NEW m \in DOMAIN D, m < n, ByteAt(code, m) \in Ends,
             m + InstructionLength(ByteAt(code, m)) = n, TargetsUpTo(code, D, {}, m)
      PROVE  q # n
  <2>1. CASE op \in Jumps /\ q = target
    <3>1. target <= m
      BY <1>5, <2>1 DEF TargetsUpTo
    <3> QED BY <1>1, <1>2, <1>5, <2>1, <3>1
  <2>2. CASE q = next
    <3>1. p # m
      BY <1>4, <1>5
    <3>2. CASE p < m
      <4>1. next <= m
        BY <1>1, <3>2
      <4> QED BY <1>1, <1>2, <1>5, <2>2, <4>1
    <3>3. CASE m < p
      <4>1. n <= p
        BY <1>1, <1>5, <3>3
      <4> QED BY <1>1, <4>1
    <3> QED BY <1>1, <3>1, <3>2, <3>3
  <2> QED BY <1>4, <2>1, <2>2
<1> HIDE DEF n, op, next, target, pops, pushes
<1>6. q \in DOMAIN D /\ q > p
  BY <1>1, <1>2, <1>3, <1>4 DEF next
<1>7. D[p] - pops + pushes = D[q]
  <2>1. p \in Nat /\ D[p] \in Nat
    BY <1>1
  <2>2. CASE op \in Jumps /\ q = target
    <3>1. D[q] = D[p] - pops /\ pushes = 0
      BY <1>2, <1>4, <2>2
    <3> QED BY <1>2, <2>1, <3>1
  <2>3. CASE q = next /\ op # OP.JUMP
    BY <1>2, <1>4, <2>3
  <2> QED BY <1>4, <2>2, <2>3 DEF Jumps
<1> QED BY <1>5, <1>6, <1>7 DEF Closed, n, pops, pushes

LEMMA ReachedOfSound ==
    ASSUME NEW code, NEW D, Sound(code, D, {}), NEW T,
           T = {q \in DOMAIN D : Closed(code, D) => q # Len(code)}
    PROVE  \A r \in Reached(code) : r[1] \in T /\ r[2] = D[r[1]]
<1> DEFINE n == Len(code)
           Within(s) == \A r \in s : r[1] \in T /\ r[2] = D[r[1]]
<1>1. /\ n \in Nat /\ DOMAIN D \subseteq 0..n /\ 0 \in DOMAIN D
      /\ \A x \in DOMAIN D : D[x] \in 0..x
  BY DEF Sound
<1>2. PICK f : IsPass(code, f, n) /\ Reached(code) = f[n]
  BY <1>1, ReachedPass
<1>3. Starts(code) = DOMAIN D
  BY StartsOfSound
<1>4. \A p \in 0..n : f[p] = IF p = 0 THEN {<<0, 0>>}
                             ELSE IF p - 1 \in DOMAIN D THEN Forward(code, f[p-1], p - 1)
                             ELSE f[p-1]
  BY <1>2, <1>3 DEF IsPass, Pass
<1>5. f[0] = {<<0, 0>>}
  BY <1>1, <1>4
<1>6. Within({<<0, 0>>})
  <2>1. D[0] = 0
    BY <1>1
  <2>2. Closed(code, D) => 0 # n
    BY <1>1 DEF Closed
  <2> QED BY <1>1, <2>1, <2>2
<1>7. ASSUME NEW p \in DOMAIN D, p # n, NEW before, Within(before)
      PROVE  Within(Forward(code, before, p))
  <2>1. SUFFICES ASSUME NEW q \in Successors(code, p), NEW s \in before, s[1] = p
                 PROVE  q \in T /\ s[2] - Pops(code, p) + Pushes(code, p) = D[q]
    BY <1>7 DEF Forward
  <2>2. s[2] = D[p]
    BY <1>7, <2>1
  <2>3. /\ q \in DOMAIN D /\ D[p] - Pops(code, p) + Pushes(code, p) = D[q]
        /\ Closed(code, D) => q # n
    BY <1>7, Goes
  <2> QED BY <2>2, <2>3
<1> HIDE DEF Within, n
<1> DEFINE Wrong == {p \in 0..n : ~Within(f[p])}
<1>8. ASSUME Wrong # {} PROVE FALSE
  <2>1. PICK m \in Wrong : \A k \in Wrong : m <= k
    <3>1. Wrong \subseteq Nat
      OBVIOUS
    <3> QED BY <1>8, <3>1, LeastNumber, Zenon
  <2>2. m # 0
    BY <1>5, <1>6, <2>1
  <2>3. m \in 1..n /\ m - 1 \in 0..n /\ m - 1 \notin Wrong /\ m - 1 # n
    BY <1>1, <2>1, <2>2
  <2>4. Within(f[m-1])
    BY <2>3
  <2>5. f[m] = IF m - 1 \in DOMAIN D THEN Forward(code, f[m-1], m - 1) ELSE f[m-1]
    BY <1>4, <2>2, <2>3
  <2>6. Within(f[m])
    BY <1>7, <2>3, <2>4, <2>5
  <2> QED BY <2>1, <2>6
<1>9. Within(f[n])
  BY <1>1, <1>8
<1> QED BY <1>2, <1>9 DEF Within

(* So code whose jumps are all in place verifies: the main program when    *)
(* nothing is left on its stack, a function when no path runs off its end. *)
THEOREM SoundVerifies ==
    ASSUME NEW code, NEW D, Sound(code, D, {}), NEW isMain \in BOOLEAN,
           isMain => D[Len(code)] = 0, ~isMain => Closed(code, D)
    PROVE  Verifies(code, isMain)
<1> DEFINE n == Len(code)
           T == {q \in DOMAIN D : Closed(code, D) => q # n}
<1>1. /\ n \in DOMAIN D
      /\ \A p \in DOMAIN D \ {n} : Certified(code, D, {}, p)
  BY DEF Sound
<1>2. Starts(code) = DOMAIN D
  BY StartsOfSound
<1>3. \A r \in Reached(code) : r[1] \in T /\ r[2] = D[r[1]]
  BY ReachedOfSound
<1>4. \A p \in DOMAIN D \ {n} :
        /\ ByteAt(code, p) \in OpCode
        /\ \A q \in Successors(code, p) : q > p /\ q \in DOMAIN D
  BY <1>1, CertifiedMeans, Goes
<1>5. ASSUME NEW r \in Reached(code)
      PROVE  /\ \A s \in Reached(code) : r[1] = s[1] => r[2] = s[2]
             /\ r[1] # n => r[2] >= Pops(code, r[1])
             /\ r[1] = n => isMain /\ r[2] = 0
  <2>1. r[1] \in DOMAIN D /\ r[2] = D[r[1]] /\ (Closed(code, D) => r[1] # n)
    BY <1>3
  <2>2. r[1] # n => Pops(code, r[1]) \in Nat /\ Pops(code, r[1]) <= D[r[1]]
    BY <1>1, <2>1, CertifiedMeans
  <2>3. r[1] # n => r[2] \in Int
    BY <2>1 DEF Sound
  <2>4. r[1] # n => r[2] >= Pops(code, r[1])
    BY <2>1, <2>2, <2>3
  <2>5. \A s \in Reached(code) : r[1] = s[1] => r[2] = s[2]
    BY <1>3
  <2>6. r[1] = n => isMain /\ r[2] = 0
    BY <2>1
  <2> QED BY <2>4, <2>5, <2>6
<1> HIDE DEF n
<1>6. /\ n \in Starts(code)
      /\ \A p \in Starts(code) \ {n} :
           /\ ByteAt(code, p) \in OpCode
           /\ \A q \in Successors(code, p) : q > p /\ q \in Starts(code)
  BY <1>1, <1>2, <1>4
<1> QED BY <1>5, <1>6, Zenon DEF Verifies, n

=============================================================================
