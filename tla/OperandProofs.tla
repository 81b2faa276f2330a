--------------------------- MODULE OperandProofs ----------------------------
(***************************************************************************)
(* Proofs that everything an instruction refers to exists: the constant in *)
(* the pool, the slot in the globals or in the frame, the captured value   *)
(* in the closure.  The code of every open scope refers to what its table  *)
(* and the tables around it have counted so far, and these only grow.      *)
(***************************************************************************)
EXTENDS CompilerProofs

-----------------------------------------------------------------------------
(* Code cut into instructions *)

(* The offsets at which the instructions of a stream begin, and its end.   *)
Tiled(code, S) ==
    /\ code \in Seq(Byte)
    /\ S \subseteq 0..Len(code) /\ 0 \in S /\ Len(code) \in S
    /\ \A p \in S \ {Len(code)} : /\ ByteAt(code, p) \in OpCode
                                  /\ p + InstructionLength(ByteAt(code, p)) \in S
    /\ \A p, q \in S : p < q => p + InstructionLength(ByteAt(code, p)) <= q

LEMMA TiledOfSound ==
    ASSUME NEW code, NEW D, NEW J, Sound(code, D, J)
    PROVE  Tiled(code, DOMAIN D)
<1>1. /\ code \in Seq(Byte)
      /\ DOMAIN D \subseteq 0..Len(code) /\ 0 \in DOMAIN D /\ Len(code) \in DOMAIN D
      /\ \A p, q \in DOMAIN D : p < q => p + InstructionLength(ByteAt(code, p)) <= q
      /\ \A p \in DOMAIN D \ {Len(code)} : Certified(code, D, J, p)
  BY DEF Sound
<1>2. ASSUME NEW p \in DOMAIN D \ {Len(code)}
      PROVE  /\ ByteAt(code, p) \in OpCode
             /\ p + InstructionLength(ByteAt(code, p)) \in DOMAIN D
  BY <1>1, CertifiedMeans
<1> QED BY <1>1, <1>2 DEF Tiled

(* There is one way to cut it.                                             *)
LEMMA StartsOfTiled ==
    ASSUME NEW code, NEW S, Tiled(code, S)
    PROVE  Starts(code) = S
<1> DEFINE n == Len(code)
           From(p) == {q \in S : p <= q}
<1>1. /\ n \in Nat /\ S \subseteq 0..n /\ 0 \in S /\ n \in S
      /\ \A p, q \in S : p < q => p + InstructionLength(ByteAt(code, p)) <= q
      /\ \A p \in S \ {n} : /\ ByteAt(code, p) \in OpCode
                            /\ p + InstructionLength(ByteAt(code, p)) \in S
  BY DEF Tiled
<1>s. \A q \in S : q \in Nat /\ q <= n
  BY <1>1
<1>2. PICK f : IsCut(code, f) /\ Starts(code) = f[0]
  BY StartsCut
<1>3. \A p \in Nat : f[p] = IF p < n /\ ByteAt(code, p) \in OpCode
                            THEN {p} \cup f[p + InstructionLength(ByteAt(code, p))]
                            ELSE {p}
  BY <1>2 DEF IsCut, Cut
<1>a. ASSUME NEW p \in Nat, p < n, ByteAt(code, p) \in OpCode
      PROVE  f[p] = {p} \cup f[p + InstructionLength(ByteAt(code, p))]
  BY <1>3, <1>a, Zenon
<1>b. ASSUME NEW p \in Nat, ~(p < n) PROVE f[p] = {p}
  BY <1>3, <1>b, Zenon
<1> HIDE DEF n
<1> DEFINE Wrong == {k \in 0..n : \E p \in S : k = n - p /\ f[p] # From(p)}
<1>4. ASSUME Wrong # {} PROVE FALSE
  <2>1. PICK k \in Wrong : \A j \in Wrong : k <= j
    <3>1. Wrong \subseteq Nat
      OBVIOUS
    <3> QED BY <1>4, <3>1, LeastNumber, Zenon
  <2>2. PICK p \in S : k = n - p /\ f[p] # From(p)
    BY <2>1
  <2>3. p \in Nat /\ p <= n
    BY <1>1
  <2>4. p # n
    <3>1. ASSUME p = n PROVE f[p] = {p}
      BY <1>b, <2>3, <3>1
    <3>2. ASSUME p = n PROVE From(p) = {p}
      <4>1. \A q \in S : n <= q <=> q = n
        BY <1>1, <1>s
      <4> QED BY <3>2, <4>1
    <3> QED BY <2>2, <3>1, <3>2
  <2> DEFINE next == p + InstructionLength(ByteAt(code, p))
  <2>5. next \in S /\ ByteAt(code, p) \in OpCode
    BY <1>1, <2>4
  <2>6. f[p] = {p} \cup f[next]
    <3>1. p < n
      BY <1>1, <2>3, <2>4
    <3> QED BY <1>a, <2>3, <2>5, <3>1
  <2>7. next > p /\ next \in Nat /\ next <= n
    <3>1. InstructionLength(ByteAt(code, p)) \in 1..4
      BY LengthOfInstruction
    <3> QED BY <1>1, <2>3, <2>5, <3>1
  <2>8. \A q \in S : p < q => next <= q
    BY <1>1
  <2> HIDE DEF next
  <2>9. n - next \notin Wrong
    BY <1>1, <2>1, <2>2, <2>3, <2>7
  <2>10. f[next] = From(next)
    BY <1>1, <2>5, <2>7, <2>9
  <2>11. From(p) = {p} \cup From(next)
    <3>1. \A q \in S : p <= q <=> q = p \/ next <= q
      BY <1>s, <2>3, <2>7, <2>8
    <3> QED BY <3>1
  <2> QED BY <2>2, <2>6, <2>10, <2>11
<1>5. Wrong = {} /\ n - 0 \in 0..n
  <2>1. n - 0 \in 0..n
    BY <1>1
  <2> QED BY <1>4, <2>1
<1>6. f[0] = From(0)
  BY <1>1, <1>5
<1>7. From(0) = S
  <2>1. \A q \in S : 0 <= q
    BY <1>s
  <2> QED BY <2>1
<1> QED BY <1>2, <1>6, <1>7

(* An instruction is appended ...                                          *)
LEMMA TiledAppend ==
    ASSUME NEW code, NEW S, Tiled(code, S), NEW op, NEW xs, Takes(op, xs)
    PROVE  LET new == code \o Make(op, xs)
           IN  /\ Tiled(new, S \cup {Len(new)}) /\ Len(new) = Len(code) + InstructionLength(op)
               /\ Holding(new, Len(code), op, xs)
               /\ \A p \in S \ {Len(code)} : p \in Nat /\ SameAt(code, new, p)
<1> DEFINE n == Len(code)
           new == code \o Make(op, xs)
           T == S \cup {Len(new)}
           size == InstructionLength(op)
<1>1. /\ code \in Seq(Byte) /\ n \in Nat /\ S \subseteq 0..n /\ 0 \in S /\ n \in S
      /\ \A p, q \in S : p < q => p + InstructionLength(ByteAt(code, p)) <= q
      /\ \A p \in S \ {n} : /\ ByteAt(code, p) \in OpCode
                            /\ p + InstructionLength(ByteAt(code, p)) \in S
  BY DEF Tiled
<1>2. /\ new \in Seq(Byte) /\ Len(new) = n + size
      /\ \A i \in 1..n : new[i] = code[i]
      /\ Holding(new, n, op, xs)
  BY <1>1, CodeAppended
<1>3. size \in 1..4 /\ op \in OpCode
  BY LengthOfInstruction DEF Takes
<1>4. ByteAt(new, n) = op
  BY <1>1, <1>2, LaidOperands
<1> HIDE DEF new, n
<1>5. ASSUME NEW p \in S, p # n
      PROVE  /\ p \in Nat /\ p < n /\ SameAt(code, new, p) /\ ByteAt(new, p) = ByteAt(code, p)
             /\ p + InstructionLength(ByteAt(code, p)) <= n
  <2>1. p \in Nat /\ p < n
    BY <1>1, <1>5
  <2>2. p + InstructionLength(ByteAt(code, p)) <= n
    BY <1>1, <2>1
  <2>3. SameAt(code, new, p)
    BY <1>1, <1>2, <2>1, <2>2, SameBelow
  <2> QED BY <2>1, <2>2, <2>3, SameInstruction
<1>6. ASSUME NEW p \in T, p # Len(new)
      PROVE  ByteAt(new, p) \in OpCode /\ p + InstructionLength(ByteAt(new, p)) \in T
  <2>1. CASE p = n
    BY <1>2, <1>3, <1>4, <2>1
  <2>2. CASE p # n
    <3>1. p \in S
      BY <1>6
    <3> QED BY <1>1, <1>5, <2>2, <3>1
  <2> QED BY <2>1, <2>2
<1>7. ASSUME NEW p \in T, NEW q \in T, p < q
      PROVE  p + InstructionLength(ByteAt(new, p)) <= q
  <2>1. CASE p = n
    <3>1. q = Len(new)
      BY <1>1, <1>2, <1>3, <1>7, <2>1
    <3> QED BY <1>2, <1>4, <2>1, <3>1
  <2>2. CASE p = Len(new)
    BY <1>1, <1>2, <1>3, <1>7, <2>2
  <2>3. CASE p # n /\ p # Len(new)
    <3>1. p \in S
      BY <2>3
    <3>2. ByteAt(new, p) = ByteAt(code, p) /\ p + InstructionLength(ByteAt(code, p)) <= n /\ p \in Nat
      BY <1>5, <2>3, <3>1
    <3>3. CASE q \in S
      BY <1>1, <1>7, <3>1, <3>2, <3>3
    <3>4. CASE q = Len(new)
      <4>1. InstructionLength(ByteAt(code, p)) \in 1..4
        BY LengthOfInstruction
      <4> QED BY <1>1, <1>2, <1>3, <3>2, <3>4, <4>1
    <3> QED BY <3>3, <3>4
  <2> QED BY <2>1, <2>2, <2>3
<1>8. T \subseteq 0..Len(new) /\ 0 \in T /\ Len(new) \in T
  <2>1. \A q \in S : q \in 0..n
    BY <1>1
  <2>2. Len(new) \in Nat /\ n <= Len(new)
    BY <1>1, <1>2, <1>3
  <2>3. \A q \in S : q \in 0..Len(new)
    BY <1>1, <2>1, <2>2
  <2>4. \A q \in T : q \in 0..Len(new)
    BY <2>2, <2>3
  <2>5. 0 \in S
    BY <1>1
  <2> QED BY <2>4, <2>5, Zenon
<1>9. Tiled(new, T)
  BY <1>2, <1>6, <1>7, <1>8 DEF Tiled
<1> QED BY <1>2, <1>5, <1>9 DEF new, n

(* ... the last one is taken back ...                                      *)
LEMMA TiledFront ==
    ASSUME NEW code, NEW S, Tiled(code, S), NEW m \in S,
           m + InstructionLength(ByteAt(code, m)) = Len(code)
    PROVE  LET new == SubSeq(code, 1, m)
           IN  /\ Tiled(new, S \ {Len(code)}) /\ Len(new) = m
               /\ \A p \in S \ {m, Len(code)} : p \in Nat /\ p < m /\ SameAt(code, new, p)
<1> DEFINE n == Len(code)
           new == SubSeq(code, 1, m)
           T == S \ {n}
<1>1. /\ code \in Seq(Byte) /\ n \in Nat /\ S \subseteq 0..n /\ 0 \in S /\ n \in S
      /\ \A p, q \in S : p < q => p + InstructionLength(ByteAt(code, p)) <= q
      /\ \A p \in S \ {n} : /\ ByteAt(code, p) \in OpCode
                            /\ p + InstructionLength(ByteAt(code, p)) \in S
  BY DEF Tiled
<1>2. m \in Nat /\ m < n
  <2>1. InstructionLength(ByteAt(code, m)) \in 1..4
    BY LengthOfInstruction
  <2> QED BY <1>1, <2>1
<1>3. new \in Seq(Byte) /\ Len(new) = m /\ \A i \in 1..m : new[i] = code[i]
  BY <1>1, <1>2
<1> HIDE DEF new
<1>4. ASSUME NEW p \in T PROVE p \in Nat /\ p <= m
  <2>1. m < p => m + InstructionLength(ByteAt(code, m)) <= p
    BY <1>1
  <2> QED BY <1>1, <1>2, <2>1
<1> HIDE DEF n
<1>5. ASSUME NEW p \in T, p # m
      PROVE  /\ p \in Nat /\ p < m /\ SameAt(code, new, p) /\ ByteAt(new, p) = ByteAt(code, p)
             /\ p + InstructionLength(ByteAt(code, p)) \in T
  <2>1. p \in Nat /\ p < m /\ p \in S
    BY <1>2, <1>4, <1>5
  <2>2. p + InstructionLength(ByteAt(code, p)) <= m /\ p + InstructionLength(ByteAt(code, p)) \in S
    BY <1>1, <1>2, <1>5, <2>1
  <2>3. SameAt(code, new, p)
    BY <1>2, <1>3, <2>1, <2>2, SameBelow
  <2>4. p + InstructionLength(ByteAt(code, p)) # n
    BY <1>1, <1>2, <2>2
  <2> QED BY <2>1, <2>2, <2>3, <2>4, SameInstruction
<1>6. \A p \in T \ {m} : ByteAt(new, p) \in OpCode /\ p + InstructionLength(ByteAt(new, p)) \in T
  BY <1>1, <1>5
<1>7. ASSUME NEW p \in T, NEW q \in T, p < q
      PROVE  p + InstructionLength(ByteAt(new, p)) <= q
  <2>1. p # m
    BY <1>2, <1>4, <1>7
  <2> QED BY <1>1, <1>5, <1>7, <2>1
<1>8. T \subseteq 0..m /\ 0 \in T /\ m \in T
  BY <1>1, <1>2, <1>4
<1>9. Tiled(new, T)
  BY <1>3, <1>6, <1>7, <1>8 DEF Tiled
<1> QED BY <1>3, <1>5, <1>9 DEF new, n

(* ... one is written over another.                                        *)
LEMMA TiledOver ==
    ASSUME NEW code, NEW S, Tiled(code, S), NEW p \in S, p < Len(code),
           NEW op, NEW xs, Takes(op, xs),
           InstructionLength(op) = InstructionLength(ByteAt(code, p))
    PROVE  LET new == Overwritten(code, p, Make(op, xs))
           IN  /\ Tiled(new, S) /\ Len(new) = Len(code) /\ Holding(new, p, op, xs)
               /\ \A q \in S \ {p, Len(code)} : q \in Nat /\ SameAt(code, new, q)
<1> DEFINE new == Overwritten(code, p, Make(op, xs))
           n == Len(code)
           length == InstructionLength(op)
<1>1. /\ code \in Seq(Byte) /\ n \in Nat /\ S \subseteq 0..n /\ 0 \in S /\ n \in S
      /\ \A x, y \in S : x < y => x + InstructionLength(ByteAt(code, x)) <= y
      /\ \A q \in S \ {n} : /\ ByteAt(code, q) \in OpCode
                            /\ q + InstructionLength(ByteAt(code, q)) \in S
  BY DEF Tiled
<1>2. p \in Nat /\ p < n /\ p + length <= n
  BY <1>1
<1>3. /\ new \in Seq(Byte) /\ Len(new) = n /\ Holding(new, p, op, xs)
      /\ \A i \in 1..p : new[i] = code[i]
      /\ \A i \in p + length + 1..n : new[i] = code[i]
  BY <1>1, <1>2, CodeOverwritten
<1>o. op \in OpCode /\ ByteAt(new, p) = op
  BY <1>2, <1>3, LaidOperands DEF Takes
<1> HIDE DEF new, n, length
<1>4. ASSUME NEW q \in S, q # p, q # n PROVE q \in Nat /\ SameAt(code, new, q)
  <2> DEFINE size == InstructionLength(ByteAt(code, q))
  <2>1. q \in Nat /\ q < n /\ q + size <= n /\ size \in 1..4
    BY <1>1, <1>4, LengthOfInstruction
  <2>2. CASE q < p
    <3>1. q + size <= p
      BY <1>1, <2>2
    <3> QED BY <1>2, <1>3, <2>1, <3>1, SameBelow
  <2>3. CASE p < q
    <3>1. p + length <= q
      BY <1>1, <2>3 DEF length
    <3> HIDE DEF size
    <3>2. length \in 1..4
      BY LengthOfInstruction DEF length
    <3>3. \A k \in 1..size : q + k \in p + length + 1..n
      BY <1>1, <1>2, <2>1, <3>1, <3>2
    <3> QED BY <1>3, <2>1, <3>3 DEF SameAt, size
  <2> QED BY <1>1, <1>2, <1>4, <2>1, <2>2, <2>3
<1>5. ASSUME NEW q \in S \ {n}
      PROVE  /\ ByteAt(new, q) \in OpCode
             /\ InstructionLength(ByteAt(new, q)) = InstructionLength(ByteAt(code, q))
  <2>1. CASE q = p
    BY <1>o, <2>1 DEF length
  <2>2. CASE q # p
    <3>1. ByteAt(new, q) = ByteAt(code, q)
      BY <1>4, <2>2, SameInstruction
    <3> QED BY <1>1, <3>1
  <2> QED BY <2>1, <2>2
<1>6. ASSUME NEW x \in S, NEW y \in S, x < y
      PROVE  x + InstructionLength(ByteAt(new, x)) <= y
  <2>1. x # n
    BY <1>1, <1>6
  <2> QED BY <1>1, <1>5, <1>6, <2>1
<1>7. Tiled(new, S)
  BY <1>1, <1>3, <1>5, <1>6 DEF Tiled
<1> QED BY <1>3, <1>4, <1>7 DEF new, n

-----------------------------------------------------------------------------
(* What an instruction refers to *)

(* What there is to refer to: the constants that are no functions, the     *)
(* functions with the number of values captured that suffices for each,    *)
(* the slots of the globals, of the frame, of the closure, and whether     *)
(* there is a closure at all.                                              *)
Word == {i \in Nat : i < 65536}
Bounds(b) ==
    /\ b.constants \subseteq Word /\ b.closures \subseteq Word \X Byte
    /\ \A set \in {b.globals, b.locals, b.free} :
         set \subseteq Nat /\ \A x \in set : 0..x \subseteq set

Refers(op, xs, b) ==
    /\ op = OP.CONSTANT => xs[1] \in b.constants
    /\ op \in {OP.GET_GLOBAL, OP.SET_GLOBAL} => xs[1] \in b.globals
    /\ op \in {OP.GET_LOCAL, OP.SET_LOCAL} => xs[1] \in b.locals
    /\ op = OP.GET_FREE => xs[1] \in b.free
    /\ op = OP.CURRENT_CLOSURE => b.inside
    /\ op = OP.CLOSURE => <<xs[1], xs[2]>> \in b.closures

Refs(code, S, b) ==
    \A p \in S \ {Len(code)} : Refers(ByteAt(code, p), Operands(code, p), b)

LEMMA LaidWord ==
    ASSUME NEW op, NEW xs, Takes(op, xs), NEW code, NEW pos \in Nat, Holding(code, pos, op, xs)
    PROVE  /\ Width(op, 1) = 2 /\ xs[1] \in Word => Operands(code, pos)[1] = xs[1]
           /\ Width(op, 1) = 1 /\ xs[1] \in Byte => Operands(code, pos)[1] = xs[1]
           /\ Width(op, 2) = 1 /\ xs[2] \in Byte => Operands(code, pos)[2] = xs[2]
<1>1. xs[1] \in Word => xs[1] < 65536
  BY DEF Word
<1>2. (xs[1] \in Byte => xs[1] < 256) /\ (xs[2] \in Byte => xs[2] < 256)
  BY DEF Byte
<1> QED BY <1>1, <1>2, LaidOperands

LEMMA WordMade ==
    ASSUME NEW high \in Byte, NEW low \in Byte
    PROVE  high * 256 + low \in Word
BY DEF Byte, Word

(* Operands that do not fit are cut to smaller ones.                       *)
LEMMA ReadWithin ==
    ASSUME NEW op, NEW xs, Takes(op, xs), NEW code \in Seq(Byte), NEW pos \in Nat,
           Holding(code, pos, op, xs), Width(op, 1) # 0
    PROVE  Operands(code, pos)[1] \in 0..xs[1]
<1> DEFINE read == Operands(code, pos)[1]
           low == ByteAt(code, pos + 1)
           next == ByteAt(code, pos + 2)
<1>1. ByteAt(code, pos) = op /\ 1 \in DOMAIN Widths(op) /\ Width(op, 1) \in {1, 2}
  BY LaidOperands, Shapes
<1>2. xs[1] \in Nat
  <2>1. xs \in Seq(Nat) /\ 1 \in 1..Len(xs)
    BY <1>1, Shapes DEF Takes
  <2> QED BY <2>1, ElementOfSeq
<1>3. InstructionLength(op) = 1 + Width(op, 1) + Width(op, 2) /\ Width(op, 2) \in 0..2
  BY Shapes DEF InstructionLength
<1>4. read = IF Width(op, 1) = 2 THEN ReadUint16(code, pos + 1) ELSE low
  BY <1>1 DEF Operands, ReadOperands, OperandOffset
<1>5. pos + InstructionLength(op) <= Len(code)
  BY DEF Holding
<1>6. low \in Byte /\ (Width(op, 1) = 2 => next \in Byte)
  <2>1. pos + 2 \in 1..Len(code) /\ (Width(op, 1) = 2 => pos + 3 \in 1..Len(code))
    BY <1>1, <1>3, <1>5
  <2>2. code[pos + 2] \in Byte /\ (Width(op, 1) = 2 => code[pos + 3] \in Byte)
    BY <2>1, ElementOfSeq
  <2>3. (pos + 1) + 1 = pos + 2 /\ (pos + 2) + 1 = pos + 3
    OBVIOUS
  <2> QED BY <2>2, <2>3 DEF ByteAt
<1>7. Width(op, 1) = 2 => read \in Word
  <2>1. Width(op, 1) = 2 => read = low * 256 + next
    BY <1>4 DEF ReadUint16
  <2> HIDE DEF read, low, next
  <2> QED BY <1>6, <2>1, WordMade
<1>8. Width(op, 1) = 1 => read \in Byte
  BY <1>4, <1>6
<1> DEFINE x == xs[1]
<1>9. /\ Width(op, 1) = 1 /\ x \in Byte => read = x
      /\ Width(op, 1) = 2 /\ x \in Word => read = x
  BY LaidWord
<1>10. Operands(code, pos)[1] = read /\ x \in Nat
  BY <1>2
<1> HIDE DEF read, low, next, x
<1>11. CASE Width(op, 1) = 1
  <2>1. read \in 0..x
    <3>1. read \in 0..255 /\ (x \in 0..255 => read = x)
      BY <1>8, <1>9, <1>11 DEF Byte
    <3> QED BY <1>10, <3>1
  <2> QED BY <1>10, <2>1 DEF x
<1>12. CASE Width(op, 1) = 2
  <2>1. read \in Nat /\ read < 65536 /\ (x < 65536 => read = x)
    BY <1>7, <1>9, <1>10, <1>12 DEF Word
  <2> QED BY <1>10, <2>1 DEF x
<1> QED BY <1>1, <1>11, <1>12

LEMMA LaidRefers ==
    ASSUME NEW op, NEW xs, Takes(op, xs), NEW code \in Seq(Byte), NEW pos \in Nat,
           Holding(code, pos, op, xs), NEW b, Bounds(b), Refers(op, xs, b)
    PROVE  Refers(ByteAt(code, pos), Operands(code, pos), b)
<1> DEFINE ys == Operands(code, pos)
<1>1. ByteAt(code, pos) = op
  BY LaidOperands
<1>2. ASSUME op \in TwoByteOps \cup OneByteOps
      PROVE  ys[1] \in 0..xs[1]
  <2>1. Width(op, 1) # 0
    BY <1>2, WidthsOf
  <2> QED BY <2>1, ReadWithin
<1>3. \A set \in {b.globals, b.locals, b.free} : \A x \in set : 0..x \subseteq set
  BY DEF Bounds
<1>4. op \in {OP.GET_GLOBAL, OP.SET_GLOBAL, OP.GET_LOCAL, OP.SET_LOCAL, OP.GET_FREE} =>
        op \in TwoByteOps \cup OneByteOps
  BY Zenon DEF TwoByteOps, OneByteOps
<1>5. ASSUME op = OP.CONSTANT PROVE ys[1] \in b.constants
  <2>1. Width(op, 1) = 2
    BY <1>5, WidthsOf DEF TwoByteOps
  <2>2. xs[1] \in Word
    BY <1>5 DEF Refers, Bounds
  <2>3. ys[1] = xs[1]
    BY <2>1, <2>2, LaidWord
  <2> QED BY <1>5, <2>3 DEF Refers
<1>6. ASSUME op = OP.CLOSURE PROVE <<ys[1], ys[2]>> \in b.closures
  <2>1. Width(op, 1) = 2 /\ Width(op, 2) = 1
    BY <1>6, WidthsOf
  <2>2. xs[1] \in Word /\ xs[2] \in Byte
    BY <1>6 DEF Refers, Bounds
  <2>3. ys[1] = xs[1] /\ ys[2] = xs[2]
    BY <2>1, <2>2, LaidWord
  <2> QED BY <1>6, <2>3 DEF Refers
<1>7. op \in {OP.GET_GLOBAL, OP.SET_GLOBAL} => ys[1] \in b.globals
  BY <1>2, <1>3, <1>4 DEF Refers
<1>8. op \in {OP.GET_LOCAL, OP.SET_LOCAL} => ys[1] \in b.locals
  BY <1>2, <1>3, <1>4 DEF Refers
<1>9. op = OP.GET_FREE => ys[1] \in b.free
  BY <1>2, <1>3, <1>4 DEF Refers
<1>10. op = OP.CURRENT_CLOSURE => b.inside
  BY DEF Refers
<1> HIDE DEF ys
<1>11. Refers(op, ys, b)
  BY <1>5, <1>6, <1>7, <1>8, <1>9, <1>10 DEF Refers
<1> QED BY <1>1, <1>11 DEF ys

-----------------------------------------------------------------------------
(* A scope whose code refers to what is there *)

Referring(s, S, b) == IsScope(s) /\ Tiled(Code(s), S) /\ Refs(Code(s), S, b)

(* The note of the latest instruction is true.                             *)
Noticed(s, S) ==
    s.length > 0 => /\ s.last.pos \in S /\ ByteAt(Code(s), s.last.pos) = s.last.op
                    /\ s.last.pos + InstructionLength(s.last.op) = s.length

(* The jumps of a scope are where they were.                               *)
SameJumps(s, S, new, T) ==
    \A p \in S : p < s.length /\ ByteAt(Code(s), p) \in Jumps =>
        p \in T /\ p < new.length /\ ByteAt(Code(new), p) = ByteAt(Code(s), p)

Onward(s, S, new, b) == \E T : Referring(new, T, b) /\ SameJumps(s, S, new, T)

LEMMA SameJumpsTwice ==
    ASSUME NEW s, NEW S, NEW mid, NEW M, SameJumps(s, S, mid, M),
           NEW new, NEW T, SameJumps(mid, M, new, T)
    PROVE  SameJumps(s, S, new, T)
BY DEF SameJumps

LEMMA OnwardTwice ==
    ASSUME NEW s, NEW S, NEW mid, NEW M, SameJumps(s, S, mid, M),
           NEW new, NEW b, Onward(mid, M, new, b)
    PROVE  Onward(s, S, new, b)
BY SameJumpsTwice DEF Onward

LEMMA ReferringScope ==
    ASSUME NEW s, NEW S, NEW b, Referring(s, S, b)
    PROVE  /\ s.length \in Nat /\ s.length <= Len(s.bytes) /\ s.bytes \in Seq(Byte)
           /\ Code(s) \in Seq(Byte) /\ Len(Code(s)) = s.length
           /\ S \subseteq 0..s.length /\ 0 \in S /\ s.length \in S /\ \A p \in S : p \in Nat
<1>1. IsScope(s) /\ Tiled(Code(s), S)
  BY DEF Referring
<1>2. Code(s) \in Seq(Byte) /\ Len(Code(s)) = s.length
  BY <1>1, CodeOfScope
<1> QED BY <1>1, <1>2 DEF Tiled, IsScope, ScopeSet

LEMMA EmitRefers ==
    ASSUME NEW s, NEW S, NEW b, Referring(s, S, b), Bounds(b),
           NEW op, NEW xs, Takes(op, xs), Refers(op, xs, b), Len(Emit(s, op, xs).bytes) < 256
    PROVE  LET new == Emit(s, op, xs)
           IN  /\ Referring(new, S \cup {new.length}, b)
               /\ new.length = s.length + InstructionLength(op)
               /\ SameJumps(s, S, new, S \cup {new.length})
               /\ ByteAt(Code(new), s.length) = op
<1> DEFINE new == Emit(s, op, xs)
           n == s.length
           code == Code(s)
           all == code \o Make(op, xs)
           T == S \cup {Len(all)}
<1>1. IsScope(s) /\ n \in Nat /\ code \in Seq(Byte) /\ Len(code) = n /\ S \subseteq 0..n /\ n \in S
  BY ReferringScope DEF Referring
<1>2. Tiled(code, S) /\ Refs(code, S, b)
  BY DEF Referring
<1>3. InstructionLength(op) \in 1..4
  BY LengthOfInstruction
<1>4. /\ IsScope(new) /\ n + InstructionLength(op) <= Len(new.bytes)
      /\ n + InstructionLength(op) < 256 =>
           new.length = n + InstructionLength(op) /\ Code(new) = all
  BY <1>1, EmitFields
<1>5. /\ Tiled(all, T) /\ Len(all) = n + InstructionLength(op)
      /\ Holding(all, n, op, xs)
      /\ \A p \in S \ {n} : p \in Nat /\ SameAt(code, all, p)
  BY <1>1, <1>2, TiledAppend
<1>6. new.length = n + InstructionLength(op) /\ Code(new) = all
  <2>1. Len(new.bytes) \in Nat /\ Len(new.bytes) < 256
    BY <1>4 DEF IsScope, ScopeSet
  <2> HIDE DEF new, all
  <2> QED BY <1>1, <1>3, <1>4, <2>1
<1> HIDE DEF new, n, code, all
<1>7. all \in Seq(Byte) /\ ByteAt(all, n) = op /\ Refers(ByteAt(all, n), Operands(all, n), b)
  <2>1. all \in Seq(Byte)
    BY <1>5 DEF Tiled
  <2> QED BY <1>1, <1>5, <2>1, LaidRefers, LaidOperands
<1>8. \A p \in S \ {n} : /\ ByteAt(all, p) = ByteAt(code, p)
                        /\ Operands(all, p) = Operands(code, p)
                        /\ Refers(ByteAt(code, p), Operands(code, p), b)
  BY <1>1, <1>2, <1>5, SameInstruction DEF Refs
<1>9. Refs(all, T, b)
  <2>1. ASSUME NEW p \in T \ {Len(all)} PROVE Refers(ByteAt(all, p), Operands(all, p), b)
    BY <1>7, <1>8
  <2> QED BY <2>1 DEF Refs
<1>10. SameJumps(s, S, new, T)
  <2>1. \A p \in S : p < n => p \in T /\ p < new.length /\ p # n
    BY <1>1, <1>3, <1>6
  <2> QED BY <1>6, <1>8, <2>1 DEF SameJumps, n, code
<1>11. Len(all) = new.length
  BY <1>5, <1>6
<1>12. Referring(new, T, b)
  BY <1>4, <1>5, <1>6, <1>9 DEF Referring
<1> QED BY <1>6, <1>7, <1>10, <1>11, <1>12 DEF new, n

LEMMA PopLength == InstructionLength(OP.POP) = 1 /\ OP.POP \notin Jumps
<1>1. OP.POP \notin TwoByteOps \cup OneByteOps \cup {OP.CLOSURE} /\ OP.POP \notin Jumps
  BY Opcodes DEF TwoByteOps, OneByteOps, Jumps
<1> QED BY <1>1, WidthsOf DEF InstructionLength

(* A pop that is taken back.                                               *)
LEMMA PopRefers ==
    ASSUME NEW s, NEW S, NEW b, Referring(s, S, b), Noticed(s, S), Len(s.bytes) < 256
    PROVE  /\ Onward(s, S, WithoutLastPop(s), b)
           /\ WithoutLastPop(s).bytes = s.bytes
<1> DEFINE n == s.length
           m == s.last.pos
           code == Code(s)
           new == RemoveLastPop(s)
           front == SubSeq(code, 1, m)
           T == S \ {n}
<1>1. IsScope(s) /\ n \in Nat /\ n <= Len(s.bytes) /\ code \in Seq(Byte) /\ Len(code) = n
  BY ReferringScope DEF Referring
<1>2. Tiled(code, S) /\ Refs(code, S, b)
  BY DEF Referring
<1>3. CASE ~LastInstructionIs(s, OP.POP)
  <2>1. WithoutLastPop(s) = s
    BY <1>3 DEF WithoutLastPop
  <2>2. SameJumps(s, S, s, S)
    BY DEF SameJumps
  <2> QED BY <2>1, <2>2 DEF Onward
<1>4. CASE LastInstructionIs(s, OP.POP)
  <2>1. n > 0 /\ s.last.op = OP.POP /\ n < 256
    <3>1. Len(s.bytes) \in Nat
      BY <1>1 DEF IsScope, ScopeSet
    <3> QED BY <1>1, <1>4, <3>1 DEF LastInstructionIs
  <2>2. m \in S /\ ByteAt(code, m) = OP.POP /\ m + 1 = n
    BY <2>1, PopLength DEF Noticed
  <2>3. m \in Nat /\ m = n - 1
    <3>1. m \in Nat
      BY <2>2, ReferringScope
    <3> QED BY <1>1, <2>2, <3>1
  <2>4. IsScope(new) /\ new.bytes = s.bytes /\ new.length = m /\ Code(new) = front
    BY <1>1, <2>1, <2>3, RemoveFields
  <2>5. m + InstructionLength(ByteAt(code, m)) = Len(code)
    BY <1>1, <2>2, PopLength
  <2>6. /\ Tiled(front, T) /\ Len(front) = m
        /\ \A p \in S \ {m, n} : p \in Nat /\ p < m /\ SameAt(code, front, p)
    BY <1>1, <1>2, <2>2, <2>5, TiledFront
  <2> HIDE DEF n, m, code, new, front
  <2>7. \A p \in S \ {m, n} : /\ ByteAt(front, p) = ByteAt(code, p)
                             /\ Operands(front, p) = Operands(code, p)
                             /\ Refers(ByteAt(code, p), Operands(code, p), b)
    BY <1>1, <1>2, <2>6, SameInstruction DEF Refs
  <2>8. Refs(front, T, b)
    BY <2>6, <2>7 DEF Refs
  <2>9. Referring(new, T, b)
    BY <2>4, <2>6, <2>8 DEF Referring
  <2>10. SameJumps(s, S, new, T)
    <3>1. ASSUME NEW p \in S, p < n, ByteAt(code, p) \in Jumps
          PROVE  p \in T /\ p < new.length /\ ByteAt(front, p) = ByteAt(code, p)
      <4>1. p # m /\ p # n
        BY <1>1, <2>2, <3>1, PopLength
      <4> QED BY <2>4, <2>6, <2>7, <4>1
    <3> QED BY <2>4, <3>1 DEF SameJumps, n, code
  <2>11. WithoutLastPop(s) = new
    BY <1>4 DEF WithoutLastPop, new
  <2> QED BY <2>4, <2>9, <2>10, <2>11 DEF Onward
<1> QED BY <1>3, <1>4

(* A jump that is given its target.                                        *)
LEMMA PatchRefers ==
    ASSUME NEW s, NEW S, NEW b, Referring(s, S, b), Bounds(b), NEW p \in S, p < s.length,
           ByteAt(Code(s), p) \in Jumps, NEW x \in Nat
    PROVE  LET new == ChangeOperand(s, p, x)
           IN  /\ Referring(new, S, b) /\ SameJumps(s, S, new, S)
               /\ new.length = s.length /\ Len(new.bytes) = Len(s.bytes)
<1> DEFINE n == s.length
           code == Code(s)
           op == ByteAt(code, p)
           xs == << x >>
           new == ChangeOperand(s, p, x)
           all == Overwritten(code, p, Make(op, xs))
<1>1. /\ IsScope(s) /\ n \in Nat /\ n <= Len(s.bytes) /\ s.bytes \in Seq(Byte)
      /\ code \in Seq(Byte) /\ Len(code) = n /\ p \in 0..n
  BY ReferringScope DEF Referring
<1>2. Tiled(code, S) /\ Refs(code, S, b)
  BY DEF Referring
<1>3. op \in OpCode /\ Len(Widths(op)) = 1 /\ InstructionLength(op) = 3
  BY JumpShape
<1>4. p \in Nat /\ p < n /\ p + 3 <= n
  <2>1. p + InstructionLength(op) <= n
    BY <1>1, <1>2 DEF Tiled
  <2> QED BY <1>1, <1>3, <2>1
<1>5. Takes(op, xs)
  BY <1>3 DEF Takes
<1>6. Refers(op, xs, b)
  <2>1. op \notin {OP.CONSTANT, OP.GET_GLOBAL, OP.SET_GLOBAL, OP.GET_LOCAL, OP.SET_LOCAL,
                   OP.GET_FREE, OP.CURRENT_CLOSURE, OP.CLOSURE}
    BY Opcodes DEF Jumps
  <2> HIDE DEF op, xs
  <2> QED BY <2>1 DEF Refers
<1> HIDE DEF xs
<1>7. ByteAt(s.bytes, p) = op
  <2>1. p + 1 \in 1..n
    BY <1>1, <1>4
  <2>2. code[p + 1] = s.bytes[p + 1]
    BY <1>1, <2>1, CodeOfScope
  <2> QED BY <2>2 DEF ByteAt
<1> HIDE DEF n, code, op
<1>8. /\ new \in ScopeSet /\ new.length = n
      /\ new.bytes = WriteAt(s.bytes, p, Make(op, xs))
  <2> DEFINE bytes == WriteAt(s.bytes, p, Make(op, xs))
  <2>1. new = [s EXCEPT !.bytes = bytes]
    BY <1>7, Zenon DEF ChangeOperand, xs
  <2>2. bytes \in Seq(Byte)
    <3>1. Make(op, xs) \in Seq(Byte)
      BY <1>5, LaidBytes
    <3>2. p <= Len(s.bytes)
      BY <1>1, <1>4
    <3> QED BY <1>1, <1>4, <3>1, <3>2, Written
  <2>3. s \in ScopeSet
    BY <1>1 DEF IsScope
  <2> HIDE DEF bytes, new
  <2>4. new \in ScopeSet /\ new.length = s.length /\ new.bytes = bytes
    BY <2>1, <2>2, <2>3 DEF ScopeSet
  <2> QED BY <2>4 DEF bytes, n
<1>9. IsScope(new) /\ Len(new.bytes) = Len(s.bytes) /\ Code(new) = all
  <2>1. p + InstructionLength(op) <= s.length /\ new.length = s.length
    BY <1>3, <1>4, <1>8 DEF n
  <2> HIDE DEF new
  <2> QED BY <1>1, <1>4, <1>5, <1>8, <2>1, WriteFields DEF code
<1> HIDE DEF new
<1>10. /\ Tiled(all, S) /\ Len(all) = n /\ Holding(all, p, op, xs)
       /\ \A q \in S \ {p, n} : q \in Nat /\ SameAt(code, all, q)
  <2>1. InstructionLength(op) = InstructionLength(ByteAt(code, p)) /\ p < Len(code)
    BY <1>1, <1>4 DEF op
  <2> QED BY <1>1, <1>2, <1>5, <2>1, TiledOver
<1> HIDE DEF all
<1>11. ByteAt(all, p) = op /\ Refers(ByteAt(all, p), Operands(all, p), b)
  <2>1. all \in Seq(Byte)
    BY <1>10 DEF Tiled
  <2> QED BY <1>4, <1>5, <1>6, <1>10, <2>1, LaidRefers, LaidOperands
<1>12. \A q \in S \ {p, n} : /\ ByteAt(all, q) = ByteAt(code, q)
                            /\ Operands(all, q) = Operands(code, q)
                            /\ Refers(ByteAt(code, q), Operands(code, q), b)
  BY <1>1, <1>2, <1>10, SameInstruction DEF Refs
<1>13. Refs(all, S, b)
  BY <1>10, <1>11, <1>12 DEF Refs
<1>14. SameJumps(s, S, new, S)
  <2>1. ASSUME NEW q \in S, q < n PROVE ByteAt(all, q) = ByteAt(code, q)
    <3>1. q # n
      BY <1>1, <2>1
    <3> QED BY <1>11, <1>12, <3>1 DEF op
  <2> QED BY <1>8, <1>9, <2>1 DEF SameJumps, n, code
<1> QED BY <1>8, <1>9, <1>10, <1>13, <1>14 DEF Referring, new, n

(* The code of a function that ends.                                       *)
ReferringCode(code, b) == \E S : Tiled(code, S) /\ Refs(code, S, b)

LEMMA PlainRefers ==
    ASSUME NEW op \in Ends, NEW b, NEW xs
    PROVE  Refers(op, xs, b)
<1>1. op \notin {OP.CONSTANT, OP.GET_GLOBAL, OP.SET_GLOBAL, OP.GET_LOCAL, OP.SET_LOCAL,
                 OP.GET_FREE, OP.CURRENT_CLOSURE, OP.CLOSURE}
  BY Opcodes DEF Ends
<1> QED BY <1>1 DEF Refers

LEMMA EndsShape ==
    ASSUME NEW op \in Ends
    PROVE  op \in OpCode /\ InstructionLength(op) = 1 /\ Takes(op, << >>)
<1>1. op \in OpCode /\ op \notin TwoByteOps \cup OneByteOps \cup {OP.CLOSURE}
  BY Opcodes DEF Ends, OpCode, TwoByteOps, OneByteOps
<1>2. Width(op, 1) = 0 /\ Width(op, 2) = 0
  BY <1>1, WidthsOf
<1> QED BY <1>1, <1>2, Shapes DEF InstructionLength, Takes

LEMMA ReturnRefers ==
    ASSUME NEW s, NEW S, NEW b, Referring(s, S, b), Bounds(b), Noticed(s, S), Len(s.bytes) < 255
    PROVE  ReferringCode(Code(Returning(s)), b)
<1> DEFINE n == s.length
           m == s.last.pos
           code == Code(s)
           new == Returning(s)
<1>1. /\ IsScope(s) /\ n \in Nat /\ n <= Len(s.bytes) /\ s.bytes \in Seq(Byte)
      /\ code \in Seq(Byte) /\ Len(code) = n /\ S \subseteq 0..n
  BY ReferringScope DEF Referring
<1>2. Tiled(code, S) /\ Refs(code, S, b)
  BY DEF Referring
<1>3. OP.RETURN \in Ends /\ OP.RETURN_VALUE \in Ends
  BY DEF Ends
<1>4. CASE ~LastInstructionIs(s, OP.POP) /\ LastInstructionIs(s, OP.RETURN_VALUE)
  <2>1. new = s
    BY <1>4, Zenon DEF Returning
  <2> QED BY <1>2, <2>1 DEF ReferringCode
<1>5. CASE ~LastInstructionIs(s, OP.POP) /\ ~LastInstructionIs(s, OP.RETURN_VALUE)
  <2> DEFINE op == OP.RETURN
             all == code \o Make(op, << >>)
             T == S \cup {Len(all)}
  <2>1. new = Emit(s, op, << >>)
    BY <1>5, Zenon DEF Returning
  <2>2. InstructionLength(op) = 1 /\ Takes(op, << >>) /\ op \in Ends
    BY <1>3, EndsShape
  <2> HIDE DEF op
  <2>3. Code(new) = all
    <3>1. s.length + InstructionLength(op) < 256
      BY <1>1, <2>2
    <3> HIDE DEF new
    <3> QED BY <1>1, <2>1, <2>2, <3>1, EmitFields
  <2> HIDE DEF new, n, code
  <2>4. /\ Tiled(all, T) /\ Holding(all, n, op, << >>)
        /\ \A p \in S \ {n} : p \in Nat /\ SameAt(code, all, p)
    BY <1>1, <1>2, <2>2, TiledAppend
  <2> HIDE DEF all
  <2>5. Refers(ByteAt(all, n), Operands(all, n), b)
    <3>1. all \in Seq(Byte) /\ Refers(op, << >>, b)
      BY <2>2, <2>4, PlainRefers DEF Tiled
    <3> QED BY <1>1, <2>2, <2>4, <3>1, LaidRefers
  <2>6. \A p \in S \ {n} : /\ ByteAt(all, p) = ByteAt(code, p)
                          /\ Operands(all, p) = Operands(code, p)
                          /\ Refers(ByteAt(code, p), Operands(code, p), b)
    BY <1>1, <1>2, <2>4, SameInstruction DEF Refs
  <2>7. Refs(all, T, b)
    <3>1. ASSUME NEW p \in T \ {Len(all)} PROVE Refers(ByteAt(all, p), Operands(all, p), b)
      BY <2>5, <2>6
    <3> QED BY <3>1 DEF Refs
  <2> QED BY <2>3, <2>4, <2>7 DEF ReferringCode, new
<1>6. CASE LastInstructionIs(s, OP.POP)
  <2> DEFINE op == OP.RETURN_VALUE
             valued == ReplaceLastPopWithReturn(s)
             all == Overwritten(code, m, Make(op, << >>))
             bytes == WriteAt(s.bytes, m, Make(op, << >>))
  <2>1. InstructionLength(op) = 1 /\ Takes(op, << >>) /\ op \in Ends /\ op \in OpCode
    BY <1>3, EndsShape
  <2>2. n > 0 /\ n # 0 /\ s.last.op = OP.POP
    BY <1>1, <1>6 DEF LastInstructionIs
  <2>3. m \in S /\ ByteAt(code, m) = OP.POP /\ m + 1 = n
    BY <2>2, PopLength DEF Noticed
  <2>4. m \in Nat /\ m < n /\ m + 1 <= n
    <3>1. m \in Nat
      BY <2>3, ReferringScope
    <3> QED BY <1>1, <2>3, <3>1
  <2>5. valued \in ScopeSet /\ valued.length = n /\ valued.last.op = op /\ valued.bytes = bytes
    <3>1. bytes \in Seq(Byte)
      <4>1. Make(op, << >>) \in Seq(Byte)
        BY <2>1, LaidBytes
      <4>2. m <= Len(s.bytes)
        BY <1>1, <2>4
      <4> QED BY <1>1, <2>4, <4>1, <4>2, Written
    <3>2. s \in ScopeSet
      BY <1>1 DEF IsScope
    <3>3. valued = [s EXCEPT !.bytes = bytes, !.last.op = op]
      BY Zenon DEF ReplaceLastPopWithReturn
    <3> HIDE DEF bytes, valued, op
    <3> QED BY <2>1, <3>1, <3>2, <3>3 DEF ScopeSet, Note
  <2>6. new = valued
    <3> HIDE DEF valued, op
    <3>1. LastInstructionIs(valued, op)
      BY <2>2, <2>5, Zenon DEF LastInstructionIs
    <3> QED BY <1>6, <3>1, Zenon DEF Returning, valued, op
  <2> HIDE DEF valued
  <2>7. Code(new) = all
    <3>1. m + InstructionLength(op) <= s.length /\ valued.length = s.length
      BY <2>1, <2>4, <2>5
    <3> HIDE DEF op, new
    <3> QED BY <1>1, <2>1, <2>4, <2>5, <2>6, <3>1, WriteFields
  <2> HIDE DEF op, new, n, m, code
  <2>8. /\ Tiled(all, S) /\ Len(all) = n /\ Holding(all, m, op, << >>)
        /\ \A q \in S \ {m, n} : q \in Nat /\ SameAt(code, all, q)
    <3>1. m < Len(code) /\ InstructionLength(op) = InstructionLength(ByteAt(code, m))
      BY <1>1, <2>1, <2>3, <2>4, PopLength
    <3> QED BY <1>1, <1>2, <2>1, <2>3, <3>1, TiledOver
  <2> HIDE DEF all
  <2>9. Refers(ByteAt(all, m), Operands(all, m), b)
    <3>1. all \in Seq(Byte) /\ Refers(op, << >>, b)
      BY <2>1, <2>8, PlainRefers DEF Tiled
    <3> QED BY <2>1, <2>4, <2>8, <3>1, LaidRefers
  <2>10. \A q \in S \ {m, n} : /\ ByteAt(all, q) = ByteAt(code, q)
                              /\ Operands(all, q) = Operands(code, q)
                              /\ Refers(ByteAt(code, q), Operands(code, q), b)
    BY <1>1, <1>2, <2>8, SameInstruction DEF Refs
  <2>11. Refs(all, S, b)
    BY <2>8, <2>9, <2>10 DEF Refs
  <2> QED BY <2>7, <2>8, <2>11 DEF ReferringCode, new
<1> QED BY <1>4, <1>5, <1>6

(* load_symbol                                                             *)
Loadable(symbol, b) ==
    /\ symbol.scope = "GLOBAL" => symbol.index \in b.globals
    /\ symbol.scope = "LOCAL" => symbol.index \in b.locals
    /\ symbol.scope = "FREE" => symbol.index \in b.free
    /\ symbol.scope = "FUNCTION" => b.inside

LEMMA OneOperandLoads ==
    ASSUME NEW op \in {OP.GET_GLOBAL, OP.GET_LOCAL, OP.GET_BUILTIN, OP.GET_FREE}, NEW x \in Nat
    PROVE  Takes(op, << x >>) /\ op \in Loads
<1>1. op \in TwoByteOps \cup OneByteOps
  BY Zenon DEF TwoByteOps, OneByteOps
<1>2. Width(op, 1) # 0 /\ Width(op, 2) = 0
  BY <1>1, WidthsOf
<1>3. op \in OpCode
  BY Opcodes DEF OpCode
<1>4. op \in Loads
  BY Zenon DEF Loads
<1> QED BY <1>2, <1>3, <1>4, Shapes, FitsOne

LEMMA LoadMeans ==
    ASSUME NEW s, NEW symbol \in Symbols!Symbol, NEW b, Loadable(symbol, b)
    PROVE  \E op, xs : /\ EmitLoad(s, symbol) = Emit(s, op, xs)
                      /\ Takes(op, xs) /\ Refers(op, xs, b)
<1>1. symbol.index \in Nat /\ symbol.scope \in Symbols!SymbolScope
  BY DEF Symbols!Symbol
<1> DEFINE one == << symbol.index >>
<1>2. one[1] = symbol.index
  OBVIOUS
<1>3. /\ symbol.scope = "GLOBAL" => EmitLoad(s, symbol) = Emit(s, OP.GET_GLOBAL, one)
      /\ symbol.scope = "LOCAL" => EmitLoad(s, symbol) = Emit(s, OP.GET_LOCAL, one)
      /\ symbol.scope = "BUILTIN" => EmitLoad(s, symbol) = Emit(s, OP.GET_BUILTIN, one)
      /\ symbol.scope = "FREE" => EmitLoad(s, symbol) = Emit(s, OP.GET_FREE, one)
      /\ symbol.scope = "FUNCTION" => EmitLoad(s, symbol) = Emit(s, OP.CURRENT_CLOSURE, << >>)
  BY DEF EmitLoad
<1>4. \A op \in {OP.GET_GLOBAL, OP.GET_LOCAL, OP.GET_BUILTIN, OP.GET_FREE} : Takes(op, one)
  BY <1>1, OneOperandLoads
<1>5. Takes(OP.CURRENT_CLOSURE, << >>)
  <2>1. /\ OP.CURRENT_CLOSURE \notin TwoByteOps \cup OneByteOps \cup {OP.CLOSURE}
        /\ OP.CURRENT_CLOSURE \in OpCode
    BY Opcodes DEF TwoByteOps, OneByteOps, OpCode
  <2>2. Len(Widths(OP.CURRENT_CLOSURE)) = 0
    BY <2>1, WidthsOf, Shapes
  <2> QED BY <2>1, <2>2, FitsNone
<1> HIDE DEF one
<1>6. symbol.scope = "GLOBAL" => Refers(OP.GET_GLOBAL, one, b)
  BY <1>2, Opcodes DEF Refers, Loadable
<1>7. symbol.scope = "LOCAL" => Refers(OP.GET_LOCAL, one, b)
  BY <1>2, Opcodes DEF Refers, Loadable
<1>8. Refers(OP.GET_BUILTIN, one, b)
  BY Opcodes DEF Refers
<1>9. symbol.scope = "FREE" => Refers(OP.GET_FREE, one, b)
  BY <1>2, Opcodes DEF Refers, Loadable
<1>10. symbol.scope = "FUNCTION" => Refers(OP.CURRENT_CLOSURE, << >>, b)
  BY Opcodes DEF Refers, Loadable
<1>11. symbol.scope \in {"GLOBAL", "LOCAL", "BUILTIN", "FREE", "FUNCTION"}
  BY <1>1 DEF Symbols!SymbolScope
<1>12. Takes(OP.GET_GLOBAL, one) /\ Takes(OP.GET_LOCAL, one) /\ Takes(OP.GET_BUILTIN, one)
       /\ Takes(OP.GET_FREE, one)
  BY <1>4, Zenon
<1> QED BY <1>3, <1>5, <1>6, <1>7, <1>8, <1>9, <1>10, <1>11, <1>12, Zenon

LEMMA LoadRefers ==
    ASSUME NEW s, NEW S, NEW b, Referring(s, S, b), Bounds(b),
           NEW symbol \in Symbols!Symbol, Loadable(symbol, b), Len(EmitLoad(s, symbol).bytes) < 256
    PROVE  /\ Onward(s, S, EmitLoad(s, symbol), b)
           /\ EmitLoad(s, symbol).length \in Nat /\ EmitLoad(s, symbol).length > s.length
<1>1. PICK op, xs : EmitLoad(s, symbol) = Emit(s, op, xs) /\ Takes(op, xs) /\ Refers(op, xs, b)
  BY LoadMeans
<1>2. InstructionLength(op) \in 1..4 /\ s.length \in Nat
  BY LengthOfInstruction, ReferringScope
<1> DEFINE new == Emit(s, op, xs)
<1>3. /\ Referring(new, S \cup {new.length}, b)
      /\ new.length = s.length + InstructionLength(op)
      /\ SameJumps(s, S, new, S \cup {new.length})
  BY <1>1, EmitRefers
<1> HIDE DEF new
<1> QED BY <1>1, <1>2, <1>3 DEF Onward, new

LoadsRefersSo(s, S, b, f, i) ==
    /\ IsScope(f[i])
    /\ Len(f[i].bytes) < 256 =>
         Onward(s, S, f[i], b) /\ f[i].length \in Nat /\ s.length + i <= f[i].length

(* The code that loads what a closure captures.                            *)
LEMMA LoadsRefer ==
    ASSUME NEW s, NEW S, NEW b, Referring(s, S, b), Bounds(b),
           NEW symbols \in Seq(Symbols!Symbol),
           \A i \in 1..Len(symbols) : Loadable(symbols[i], b)
    PROVE  LET new == EmitLoads(s, symbols)
           IN  /\ IsScope(new)
               /\ Len(new.bytes) < 256 => /\ Onward(s, S, new, b) /\ new.length \in Nat
                                          /\ s.length + Len(symbols) <= new.length
<1> DEFINE n == Len(symbols)
           f == CHOOSE g : IsLoading(g, s, symbols, n)
<1>1. IsLoading(f, s, symbols, n)
  <2>1. n \in Nat
    OBVIOUS
  <2> QED BY <2>1, LoadingExists, Zenon
<1>2. EmitLoads(s, symbols) = f[n]
  BY Zenon DEF EmitLoads, IsLoading, Loading
<1>3. n \in Nat /\ \A i \in 1..n : symbols[i] \in Symbols!Symbol /\ Loadable(symbols[i], b)
  OBVIOUS
<1>4. s.length \in Nat /\ IsScope(s)
  BY ReferringScope DEF Referring
<1> HIDE DEF n, f
<1> DEFINE Wrong == {i \in 0..n : ~LoadsRefersSo(s, S, b, f, i)}
<1>5. ASSUME Wrong # {} PROVE FALSE
  <2>1. PICK m \in Wrong : \A k \in Wrong : m <= k
    <3>1. Wrong \subseteq Nat
      OBVIOUS
    <3> QED BY <1>5, <3>1, LeastNumber, Zenon
  <2>2. CASE m = 0
    <3>1. f[0] = s
      BY <1>1, <1>3 DEF IsLoading, Loading
    <3>2. Onward(s, S, s, b)
      BY DEF Onward, SameJumps
    <3> QED BY <1>4, <2>1, <2>2, <3>1, <3>2 DEF LoadsRefersSo
  <2>3. CASE m # 0
    <3>1. m \in 1..n /\ m - 1 \in 0..n /\ m - 1 \notin Wrong
      BY <1>3, <2>1, <2>3
    <3>2. f[m] = EmitLoad(f[m-1], symbols[m])
      BY <1>1, <3>1 DEF IsLoading, Loading
    <3>3. /\ LoadsRefersSo(s, S, b, f, m - 1)
          /\ symbols[m] \in Symbols!Symbol /\ Loadable(symbols[m], b)
      BY <1>3, <3>1
    <3>4. IsScope(f[m]) /\ Len(f[m-1].bytes) <= Len(f[m].bytes)
      BY <3>2, <3>3, LoadScope DEF LoadsRefersSo
    <3>5. ASSUME Len(f[m].bytes) < 256
          PROVE  Onward(s, S, f[m], b) /\ f[m].length \in Nat /\ s.length + m <= f[m].length
      <4>1. Len(f[m-1].bytes) < 256
        BY <3>3, <3>4, <3>5 DEF LoadsRefersSo, IsScope, ScopeSet
      <4>2. Onward(s, S, f[m-1], b) /\ f[m-1].length \in Nat /\ s.length + (m - 1) <= f[m-1].length
        BY <3>3, <4>1 DEF LoadsRefersSo
      <4>3. PICK T : Referring(f[m-1], T, b) /\ SameJumps(s, S, f[m-1], T)
        BY <4>2 DEF Onward
      <4>4. Onward(f[m-1], T, f[m], b) /\ f[m].length \in Nat /\ f[m].length > f[m-1].length
        BY <3>2, <3>3, <3>5, <4>3, LoadRefers
      <4>5. Onward(s, S, f[m], b)
        BY <4>3, <4>4, OnwardTwice
      <4>6. s.length + m <= f[m].length
        BY <1>4, <3>1, <4>2, <4>4
      <4> QED BY <4>4, <4>5, <4>6
    <3> QED BY <2>1, <3>4, <3>5 DEF LoadsRefersSo
  <2> QED BY <2>2, <2>3
<1>6. n \in 0..n
  BY <1>3
<1> QED BY <1>2, <1>5, <1>6 DEF LoadsRefersSo, n

(* With more to refer to, nothing is lost.                                 *)
Within(b, c) ==
    /\ b.constants \subseteq c.constants /\ b.closures \subseteq c.closures
    /\ b.globals \subseteq c.globals /\ b.locals \subseteq c.locals /\ b.free \subseteq c.free
    /\ b.inside => c.inside

LEMMA RefsWithin ==
    ASSUME NEW b, NEW c, Within(b, c), NEW code, NEW S, Refs(code, S, b)
    PROVE  Refs(code, S, c)
<1>1. ASSUME NEW op, NEW xs, Refers(op, xs, b) PROVE Refers(op, xs, c)
  BY <1>1 DEF Refers, Within
<1> QED BY <1>1 DEF Refs

LEMMA ReferringWithin ==
    ASSUME NEW b, NEW c, Within(b, c), NEW s, NEW S, Referring(s, S, b)
    PROVE  Referring(s, S, c)
BY RefsWithin DEF Referring

-----------------------------------------------------------------------------
(* What symbols stand for is there *)

Frees(ts, k) == 0..Len(ts[k].free) - 1

(* A symbol of table k: a slot of the globals or of its own frame, a value *)
(* captured by its closure, or that closure.                               *)
Reaches(ts, k, s) ==
    /\ s.scope = "GLOBAL" => s.index \in Slots(ts, 1)
    /\ s.scope = "LOCAL" => k > 1 /\ s.index \in Slots(ts, k)
    /\ s.scope = "FREE" => k > 1 /\ s.index \in Frees(ts, k)
    /\ s.scope = "FUNCTION" => k > 1

StoreReaches(ts, k) ==
    \A n \in Names : ts[k].store[n] # NULL => Reaches(ts, k, ts[k].store[n])
CapturesReach(ts, k) ==
    k > 1 => \A i \in 1..Len(ts[k].free) : Reaches(ts, k - 1, ts[k].free[i])
TablesReach(ts) == \A k \in 1..Len(ts) : StoreReaches(ts, k) /\ CapturesReach(ts, k)

AreTables(ts) == ts \in Seq(Symbols!Table) /\ ts # << >>

Wider(ts, new, k) == Slots(ts, k) \subseteq Slots(new, k) /\ Frees(ts, k) \subseteq Frees(new, k)

LEMMA ReachesWider ==
    ASSUME NEW ts, NEW new, Wider(ts, new, 1), NEW k, Wider(ts, new, k), NEW s, Reaches(ts, k, s)
    PROVE  Reaches(new, k, s)
BY DEF Wider, Reaches

LEMMA WiderSame ==
    ASSUME NEW ts, NEW new, NEW k, new[k] = ts[k]
    PROVE  Wider(ts, new, k)
BY DEF Wider, Slots, Frees

LEMMA StoresWider ==
    ASSUME NEW ts, NEW new, Wider(ts, new, 1), NEW k, Wider(ts, new, k), StoreReaches(ts, k)
    PROVE  \A n \in Names : ts[k].store[n] # NULL => Reaches(new, k, ts[k].store[n])
BY ReachesWider DEF StoreReaches

LEMMA CapturesWider ==
    ASSUME NEW ts, NEW new, Wider(ts, new, 1), NEW k, k > 1 => Wider(ts, new, k - 1),
           CapturesReach(ts, k)
    PROVE  k > 1 => \A i \in 1..Len(ts[k].free) : Reaches(new, k - 1, ts[k].free[i])
BY ReachesWider DEF CapturesReach

LEMMA NumOfTable ==
    ASSUME NEW ts, AreTables(ts), NEW k \in 1..Len(ts)
    PROVE  /\ ts[k] \in Symbols!Table /\ ts[k].num \in Nat /\ Len(ts[k].free) \in Nat
           /\ ts[k].free \in Seq(Symbols!Symbol)
           /\ 1 \in 1..Len(ts) /\ Len(ts) \in 1..Len(ts) /\ Len(ts) \in Nat
<1>1. ts[k] \in Symbols!Table /\ 1 \in 1..Len(ts) /\ Len(ts) \in 1..Len(ts) /\ Len(ts) \in Nat
  BY DEF AreTables
<1>2. ts[k].num \in Nat /\ ts[k].free \in Seq(Symbols!Symbol)
  BY <1>1, TableFields
<1> QED BY <1>1, <1>2

(* Names put in a store.                                                   *)
LEMMA PutReaches ==
    ASSUME NEW store, NEW symbol, NEW n \in Names, Symbols!Put(store, symbol)[n] # NULL
    PROVE  \/ Symbols!Put(store, symbol)[n] = symbol
           \/ Symbols!Put(store, symbol)[n] = store[n] /\ store[n] # NULL
BY DEF Symbols!Put

LEMMA Replaced ==
    ASSUME NEW S, NEW ts \in Seq(S), NEW n \in 1..Len(ts), NEW t
    PROVE  /\ Len([ts EXCEPT ![n] = t]) = Len(ts) /\ [ts EXCEPT ![n] = t][n] = t
           /\ \A k \in 1..Len(ts) : k # n => [ts EXCEPT ![n] = t][k] = ts[k]
OBVIOUS

(* symbol_table_define                                                     *)
LEMMA DefineReaches ==
    ASSUME NEW ts, AreTables(ts), TablesReach(ts), NEW name \in Names
    PROVE  LET new == Symbols!Define(ts, name)
           IN  /\ TablesReach(new) /\ Len(new) = Len(ts)
               /\ \A k \in 1..Len(ts) : Wider(ts, new, k)
               /\ Reaches(new, Len(ts), Symbols!Defined(ts, name))
<1> DEFINE n == Len(ts)
           t == ts[n]
           symbol == Symbols!Defined(ts, name)
           last == Symbols!DefineSymbol(t, name, Symbols!DefinitionScope(ts))
           new == [ts EXCEPT ![n] = last]
<1>1. n \in 1..n /\ t \in Symbols!Table /\ t.num \in Nat /\ n \in Nat /\ DOMAIN ts = 1..n
  <2>1. n \in 1..n
    BY DEF AreTables
  <2> QED BY <2>1, NumOfTable DEF AreTables
<1>2. Symbols!Define(ts, name) = new
  BY Zenon DEF Symbols!Define
<1>3. last.store = Symbols!Put(t.store, symbol) /\ last.num = t.num + 1 /\ last.free = t.free
  BY DEF Symbols!DefineSymbol, Symbols!Defined
<1>4. /\ symbol.index = t.num
      /\ symbol.scope = IF n = 1 THEN "GLOBAL" ELSE "LOCAL"
  BY DEF Symbols!Defined, Symbols!NewSymbol, Symbols!DefinitionScope
<1> HIDE DEF last, symbol
<1>5. Len(new) = n /\ new[n] = last /\ \A k \in 1..n : k # n => new[k] = ts[k]
  BY <1>1, Replaced DEF AreTables
<1> HIDE DEF new, n
<1>6. Wider(ts, new, n)
  <2>1. new[n].num = ts[n].num + 1 /\ new[n].free = ts[n].free /\ ts[n].num \in Nat
    BY <1>1, <1>3, <1>5
  <2> QED BY <2>1 DEF Wider, Slots, Frees
<1>7. ASSUME NEW k \in 1..n PROVE Wider(ts, new, k)
  BY <1>5, <1>6, WiderSame
<1>8. Reaches(new, n, symbol)
  <2> DEFINE m == t.num
  <2>1. m \in Nat /\ new[n].num = m + 1
    BY <1>1, <1>3, <1>5
  <2> HIDE DEF m
  <2>2. m \in Slots(new, n)
    BY <2>1 DEF Slots
  <2>3. symbol.index = m
    BY <1>4 DEF m
  <2> QED BY <1>1, <1>4, <2>2, <2>3 DEF Reaches
<1>9. Wider(ts, new, 1)
  BY <1>1, <1>7
<1>10. ASSUME NEW k \in 1..n PROVE StoreReaches(new, k) /\ CapturesReach(new, k)
  <2>1. StoreReaches(ts, k) /\ CapturesReach(ts, k) /\ Wider(ts, new, k)
    BY <1>7 DEF TablesReach, n
  <2>2. \A x \in Names : ts[k].store[x] # NULL => Reaches(new, k, ts[k].store[x])
    BY <1>9, <2>1, StoresWider
  <2>3. k > 1 => Wider(ts, new, k - 1)
    BY <1>1, <1>7
  <2>4. k > 1 => \A i \in 1..Len(ts[k].free) : Reaches(new, k - 1, ts[k].free[i])
    BY <1>9, <2>1, <2>3, CapturesWider
  <2>5. new[k].free = ts[k].free
    BY <1>3, <1>5
  <2>6. CapturesReach(new, k)
    BY <2>4, <2>5 DEF CapturesReach
  <2>7. ASSUME NEW x \in Names, new[k].store[x] # NULL PROVE Reaches(new, k, new[k].store[x])
    <3>1. CASE k = n
      BY <1>3, <1>5, <1>8, <2>2, <2>7, <3>1, PutReaches
    <3>2. CASE k # n
      BY <1>5, <2>2, <2>7, <3>2
    <3> QED BY <3>1, <3>2
  <2> QED BY <2>6, <2>7 DEF StoreReaches
<1>11. TablesReach(new)
  BY <1>5, <1>10 DEF TablesReach
<1> QED BY <1>2, <1>5, <1>7, <1>8, <1>11 DEF symbol, n

(* A table that is opened ...                                              *)
LEMMA EnterReaches ==
    ASSUME NEW ts, AreTables(ts), TablesReach(ts), NEW name
    PROVE  LET new == Symbols!EnterTable(ts, name)
           IN  /\ TablesReach(new) /\ Len(new) = Len(ts) + 1
               /\ \A k \in 1..Len(ts) : new[k] = ts[k]
<1> DEFINE n == Len(ts)
           t == IF name = NULL THEN Symbols!EmptyTable
                ELSE Symbols!DefineFnName(Symbols!EmptyTable, name)
           new == Append(ts, t)
<1>1. n \in Nat /\ n > 0
  BY DEF AreTables
<1>2. Symbols!EnterTable(ts, name) = new
  BY Zenon DEF Symbols!EnterTable
<1>3. t.free = << >>
  BY DEF Symbols!EmptyTable, Symbols!DefineFnName
<1>4. \A x \in Names : t.store[x] # NULL => t.store[x].scope = "FUNCTION"
  BY DEF Symbols!EmptyTable, Symbols!DefineFnName, Symbols!Put, Symbols!NewSymbol
<1> HIDE DEF t
<1>5. Len(new) = n + 1 /\ new[n + 1] = t /\ \A k \in 1..n : new[k] = ts[k]
  BY <1>1 DEF AreTables
<1> HIDE DEF new, n
<1>6. ASSUME NEW k \in 1..n PROVE StoreReaches(new, k) /\ CapturesReach(new, k)
  <2>1. StoreReaches(ts, k) /\ CapturesReach(ts, k)
    BY DEF TablesReach, n
  <2>2. Wider(ts, new, 1) /\ Wider(ts, new, k) /\ new[k] = ts[k]
    BY <1>1, <1>5, WiderSame
  <2>3. k > 1 => Wider(ts, new, k - 1)
    BY <1>1, <1>5, WiderSame
  <2>4. \A x \in Names : ts[k].store[x] # NULL => Reaches(new, k, ts[k].store[x])
    BY <2>1, <2>2, StoresWider
  <2>5. k > 1 => \A i \in 1..Len(ts[k].free) : Reaches(new, k - 1, ts[k].free[i])
    BY <2>1, <2>2, <2>3, CapturesWider
  <2> QED BY <2>2, <2>4, <2>5 DEF StoreReaches, CapturesReach
<1>7. StoreReaches(new, n + 1) /\ CapturesReach(new, n + 1)
  <2>1. \A x \in Names : t.store[x] # NULL => Reaches(new, n + 1, t.store[x])
    BY <1>1, <1>4 DEF Reaches
  <2>2. CapturesReach(new, n + 1)
    BY <1>3, <1>5 DEF CapturesReach
  <2> QED BY <1>5, <2>1, <2>2 DEF StoreReaches
<1>8. TablesReach(new)
  <2>1. \A k \in 1..n + 1 : k \in 1..n \/ k = n + 1
    BY <1>1
  <2> QED BY <1>5, <1>6, <1>7, <2>1 DEF TablesReach
<1> QED BY <1>2, <1>5, <1>8 DEF n

(* ... and one that is left.                                               *)
LEMMA LeaveReaches ==
    ASSUME NEW ts, AreTables(ts), TablesReach(ts), Len(ts) > 1
    PROVE  LET new == OuterTables(ts)
           IN  /\ TablesReach(new) /\ Len(new) = Len(ts) - 1
               /\ \A k \in 1..Len(ts) - 1 : new[k] = ts[k]
               /\ \A i \in 1..Len(ts[Len(ts)].free) :
                    Reaches(new, Len(ts) - 1, ts[Len(ts)].free[i])
<1> DEFINE n == Len(ts)
           new == SubSeq(ts, 1, n - 1)
<1>1. n \in Nat /\ n > 1
  BY DEF AreTables
<1>2. OuterTables(ts) = new
  BY DEF OuterTables, Symbols!LeaveTable
<1>3. Len(new) = n - 1 /\ \A k \in 1..n - 1 : new[k] = ts[k]
  BY <1>1 DEF AreTables
<1> HIDE DEF new, n
<1>4. \A k \in 1..n - 1 : Wider(ts, new, k)
  BY <1>3, WiderSame
<1>5. Wider(ts, new, 1)
  BY <1>1, <1>4
<1>6. ASSUME NEW k \in 1..n - 1 PROVE StoreReaches(new, k) /\ CapturesReach(new, k)
  <2>1. StoreReaches(ts, k) /\ CapturesReach(ts, k)
    BY <1>1 DEF TablesReach, n
  <2>2. Wider(ts, new, k) /\ new[k] = ts[k]
    BY <1>3, <1>4
  <2>3. k > 1 => Wider(ts, new, k - 1)
    BY <1>1, <1>4
  <2>4. \A x \in Names : ts[k].store[x] # NULL => Reaches(new, k, ts[k].store[x])
    BY <1>5, <2>1, <2>2, StoresWider
  <2>5. k > 1 => \A i \in 1..Len(ts[k].free) : Reaches(new, k - 1, ts[k].free[i])
    BY <1>5, <2>1, <2>3, CapturesWider
  <2> QED BY <2>2, <2>4, <2>5 DEF StoreReaches, CapturesReach
<1>7. TablesReach(new)
  BY <1>3, <1>6 DEF TablesReach
<1>8. \A i \in 1..Len(ts[n].free) : Reaches(new, n - 1, ts[n].free[i])
  <2>1. CapturesReach(ts, n) /\ n > 1 /\ Wider(ts, new, n - 1)
    BY <1>1, <1>4 DEF TablesReach, n
  <2> QED BY <1>5, <2>1, CapturesWider
<1> QED BY <1>2, <1>3, <1>7, <1>8 DEF n


(* Tables in which everything that was reachable still is.                 *)
Extended(ts, new) ==
    /\ AreTables(new) /\ TablesReach(new) /\ Len(new) = Len(ts)
    /\ \A k \in 1..Len(ts) : Wider(ts, new, k)

LEMMA WiderTwice ==
    ASSUME NEW ts, NEW mid, NEW new, NEW k, Wider(ts, mid, k), Wider(mid, new, k)
    PROVE  Wider(ts, new, k)
BY DEF Wider

LEMMA ExtendedTwice ==
    ASSUME NEW ts, NEW mid, NEW new, Extended(ts, mid), Extended(mid, new)
    PROVE  Extended(ts, new)
BY WiderTwice DEF Extended

LEMMA ExtendedItself ==
    ASSUME NEW ts, AreTables(ts), TablesReach(ts)
    PROVE  Extended(ts, ts)
BY WiderSame DEF Extended

LEMMA DefineExtends ==
    ASSUME NEW ts, AreTables(ts), TablesReach(ts), NEW name \in Names
    PROVE  Extended(ts, Symbols!Define(ts, name))
<1>1. AreTables(Symbols!Define(ts, name))
  BY TablesDefine DEF AreTables
<1> QED BY <1>1, DefineReaches DEF Extended

(* DefineParameters                                                        *)
LEMMA ParametersExtend ==
    ASSUME NEW ts, AreTables(ts), TablesReach(ts), NEW names \in Seq(Names)
    PROVE  Extended(ts, DefineParameters(ts, names))
<1> DEFINE n == Len(names)
           f == CHOOSE g : g = Steps(g, ts, names, n)
           Wrong == {i \in 0..n : ~Extended(ts, f[i])}
<1>0. n \in Nat
  OBVIOUS
<1> HIDE DEF n
<1>1. n \in Nat /\ AreSteps(f, ts, names, n)
  BY <1>0, StepsExist, Zenon DEF AreSteps
<1>2. DefineParameters(ts, names) = f[n]
  BY DEF DefineParameters, Steps, n
<1> HIDE DEF f
<1>3. Wrong = {}
  <2>1. SUFFICES ASSUME Wrong # {} PROVE FALSE
    OBVIOUS
  <2>2. PICK m \in Wrong : \A k \in Wrong : m <= k
    <3>1. Wrong \subseteq Nat
      OBVIOUS
    <3> QED BY <2>1, <3>1, LeastNumber, Zenon
  <2>3. CASE m = 0
    <3>1. f[0] = ts
      BY <1>1 DEF AreSteps, Steps
    <3> QED BY <2>2, <2>3, <3>1, ExtendedItself
  <2>4. CASE m # 0
    <3>1. m \in 1..n /\ m - 1 \in 0..n /\ m - 1 \notin Wrong
      BY <1>1, <2>2, <2>4
    <3>2. f[m] = Symbols!Define(f[m-1], names[m])
      BY <1>1, <3>1 DEF AreSteps, Steps
    <3>3. Extended(ts, f[m-1]) /\ names[m] \in Names
      BY <3>1 DEF n
    <3>4. Extended(f[m-1], f[m])
      BY <3>2, <3>3, DefineExtends DEF Extended
    <3> QED BY <2>2, <3>3, <3>4, ExtendedTwice
  <2> QED BY <2>3, <2>4
<1> QED BY <1>1, <1>2, <1>3

(* symbol_table_resolve                                                    *)
LEMMA FreeIs ==
    ASSUME NEW t, NEW name
    PROVE  /\ Symbols!FreeSymbol(t, name).scope = "FREE"
           /\ Symbols!FreeSymbol(t, name).index = Len(t.free)
BY DEF Symbols!FreeSymbol, Symbols!NewSymbol

AddedFree(t, new, symbol) ==
    /\ new.num = t.num + 1 /\ new.free = Append(t.free, symbol)
    /\ Len(new.free) = Len(t.free) + 1
    /\ \A x \in Names : \/ new.store[x] = NULL \/ new.store[x] = t.store[x]
                        \/ new.store[x] = Symbols!FreeSymbol(t, symbol.name)

LEMMA FreeAdded ==
    ASSUME NEW t, t \in Symbols!Table, NEW symbol, NEW new, new = Symbols!DefineFree(t, symbol)
    PROVE  AddedFree(t, new, symbol)
<1>1. t.free \in Seq(Symbols!Symbol)
  BY TableFields
<1> DEFINE free == Symbols!FreeSymbol(t, symbol.name)
<1>2. /\ new.num = t.num + 1 /\ new.free = Append(t.free, symbol)
      /\ new.store = Symbols!Put(t.store, free)
  BY DEF Symbols!DefineFree
<1>3. Len(new.free) = Len(t.free) + 1
  BY <1>1, <1>2
<1> HIDE DEF free
<1>4. ASSUME NEW x \in Names
      PROVE  new.store[x] = NULL \/ new.store[x] = free \/ new.store[x] = t.store[x]
  BY <1>2, PutReaches
<1> QED BY <1>2, <1>3, <1>4 DEF AddedFree, free

LEMMA FreeWider ==
    ASSUME NEW ts, NEW new, NEW k, ts[k] \in Symbols!Table, NEW symbol,
           new[k] = Symbols!DefineFree(ts[k], symbol)
    PROVE  Wider(ts, new, k) /\ Len(ts[k].free) \in Frees(new, k)
<1> DEFINE i == ts[k].num
           j == Len(ts[k].free)
<1>1. i \in Nat /\ j \in Nat
  BY TableFields
<1>2. new[k].num = i + 1 /\ Len(new[k].free) = j + 1
  BY FreeAdded DEF AddedFree
<1>3. /\ Slots(ts, k) = 0..i - 1 /\ Slots(new, k) = 0..i + 1 - 1
      /\ Frees(ts, k) = 0..j - 1 /\ Frees(new, k) = 0..j + 1 - 1
  <2>1. Slots(ts, k) = 0..i - 1 /\ Frees(ts, k) = 0..j - 1
    BY DEF Slots, Frees
  <2> HIDE DEF i, j
  <2>2. Slots(new, k) = 0..i + 1 - 1
    BY <1>1, <1>2 DEF Slots
  <2>3. Frees(new, k) = 0..j + 1 - 1
    BY <1>1, <1>2 DEF Frees
  <2> QED BY <2>1, <2>2, <2>3
<1> HIDE DEF i, j
<1>4. 0..i - 1 \subseteq 0..i + 1 - 1 /\ 0..j - 1 \subseteq 0..j + 1 - 1 /\ j \in 0..j + 1 - 1
  BY <1>1
<1> QED BY <1>3, <1>4 DEF Wider, j

LEMMA FreeReaches ==
    ASSUME NEW ts, NEW new, NEW k, k > 1, ts[k] \in Symbols!Table, NEW symbol,
           new[k] = Symbols!DefineFree(ts[k], symbol),
           Wider(ts, new, 1), Wider(ts, new, k), StoreReaches(ts, k)
    PROVE  /\ StoreReaches(new, k)
           /\ \A name : Reaches(new, k, Symbols!FreeSymbol(ts[k], name))
<1>1. ASSUME NEW name PROVE Reaches(new, k, Symbols!FreeSymbol(ts[k], name))
  <2> DEFINE free == Symbols!FreeSymbol(ts[k], name)
  <2>1. free.scope = "FREE" /\ free.index = Len(ts[k].free)
    BY FreeIs
  <2>2. Len(ts[k].free) \in Frees(new, k)
    BY FreeWider
  <2> HIDE DEF free
  <2>3. Reaches(new, k, free)
    BY <2>1, <2>2 DEF Reaches
  <2> QED BY <2>3 DEF free
<1>2. \A x \in Names : ts[k].store[x] # NULL => Reaches(new, k, ts[k].store[x])
  BY StoresWider
<1> DEFINE free == Symbols!FreeSymbol(ts[k], symbol.name)
<1>3. \A x \in Names : \/ new[k].store[x] = NULL \/ new[k].store[x] = ts[k].store[x]
                       \/ new[k].store[x] = free
  <2>1. AddedFree(ts[k], new[k], symbol)
    BY FreeAdded
  <2> QED BY <2>1, Zenon DEF AddedFree
<1>4. Reaches(new, k, free)
  BY <1>1
<1> HIDE DEF free
<1>5. StoreReaches(new, k)
  BY <1>2, <1>3, <1>4 DEF StoreReaches
<1> QED BY <1>1, <1>5

LEMMA FreeCaptured ==
    ASSUME NEW ts, NEW new, NEW k, ts[k] \in Symbols!Table, NEW symbol,
           new[k] = Symbols!DefineFree(ts[k], symbol),
           Wider(ts, new, 1), Wider(ts, new, k - 1), CapturesReach(ts, k),
           k > 1 => Reaches(new, k - 1, symbol)
    PROVE  CapturesReach(new, k)
<1> SUFFICES ASSUME k > 1, NEW i \in 1..Len(new[k].free)
             PROVE  Reaches(new, k - 1, new[k].free[i])
  BY DEF CapturesReach
<1> DEFINE free == ts[k].free
           n == Len(free)
<1>1. free \in Seq(Symbols!Symbol) /\ n \in Nat
  BY TableFields
<1>2. new[k].free = Append(free, symbol) /\ Len(new[k].free) = n + 1
  BY FreeAdded DEF AddedFree
<1>3. \A j \in 1..n : Reaches(new, k - 1, free[j])
  BY CapturesWider
<1> HIDE DEF free
<1>4. CASE i \in 1..n
  BY <1>1, <1>2, <1>3, <1>4
<1>5. CASE i = n + 1
  BY <1>1, <1>2, <1>5
<1> QED BY <1>1, <1>2, <1>4, <1>5

LEMMA ResolveReaches ==
    ASSUME NEW ts, AreTables(ts), TablesReach(ts), NEW name \in Names, NEW d \in DOMAIN ts,
           Symbols!FoundAt(ts, name, d)
    PROVE  LET new == Symbols!AfterResolve(ts, name, d)
           IN  /\ Extended(ts, new)
               /\ Reaches(new, Len(ts), Symbols!Resolved(ts, name, d))
<1> DEFINE n == Len(ts)
           s == ts[d].store[name]
           captured(k) == IF k = d + 1 THEN s ELSE Symbols!FreeSymbol(ts[k-1], name)
           new == [k \in 1..n |-> IF k <= d THEN ts[k] ELSE Symbols!DefineFree(ts[k], captured(k))]
<1>1. /\ n \in Nat /\ n > 0 /\ DOMAIN ts = 1..n /\ d \in 1..n /\ d \in Nat
      /\ \A k \in 1..n : ts[k] \in Symbols!Table
  BY DEF AreTables
<1>2. s # NULL /\ Reaches(ts, d, s) /\ \A e \in d+1..n : ts[e].store[name] = NULL
  BY <1>1 DEF Symbols!FoundAt, TablesReach, StoreReaches
<1>3. s \in Symbols!Symbol /\ s.name \in Names
  <2>1. ts[d] \in Symbols!Table
    BY <1>1
  <2>2. ts[d].store \in Symbols!Store
    BY <2>1, TableFields
  <2> QED BY <1>2, <2>2 DEF Symbols!Store, Symbols!Symbol
<1>4. CASE ~Symbols!Captures(ts, name, d)
  <2>1. Symbols!AfterResolve(ts, name, d) = ts /\ Symbols!Resolved(ts, name, d) = s
    BY <1>4 DEF Symbols!AfterResolve, Symbols!Resolved
  <2>2. d = n \/ s.scope \in {"GLOBAL", "BUILTIN"}
    BY <1>1, <1>4 DEF Symbols!Captures
  <2>3. Reaches(ts, n, s)
    BY <1>2, <2>2 DEF Reaches
  <2> QED BY <2>1, <2>3, ExtendedItself
<1>5. CASE Symbols!Captures(ts, name, d)
  <2>1. d < n /\ s.scope \notin {"GLOBAL", "BUILTIN"}
    BY <1>5 DEF Symbols!Captures
  <2>2. Symbols!AfterResolve(ts, name, d) = new
    BY <1>1, <1>5, Zenon DEF Symbols!AfterResolve
  <2>3. Symbols!Resolved(ts, name, d) = Symbols!FreeSymbol(ts[n], name)
    BY <1>5 DEF Symbols!Resolved
  <2>4. AreTables(new)
    BY <2>2, TablesResolve DEF AreTables
  <2>5. Len(new) = n
    <3>1. DOMAIN new = 1..n
      OBVIOUS
    <3> HIDE DEF new
    <3> QED BY <1>1, <2>4, <3>1 DEF AreTables
  <2> HIDE DEF s
  <2>6. ASSUME NEW k \in 1..n, k <= d PROVE new[k] = ts[k]
    BY <2>6
  <2>7. ASSUME NEW k \in 1..n, ~(k <= d) PROVE new[k] = Symbols!DefineFree(ts[k], captured(k))
    BY <2>7
  <2> HIDE DEF new, captured, n
  <2>8. ASSUME NEW k \in 1..n PROVE Wider(ts, new, k)
    <3>1. ts[k] \in Symbols!Table
      BY <1>1
    <3> QED BY <2>6, <2>7, <3>1, WiderSame, FreeWider
  <2>9. Wider(ts, new, 1)
    BY <1>1, <2>8
  <2>10. ASSUME NEW k \in 1..n PROVE StoreReaches(ts, k) /\ CapturesReach(ts, k)
    BY DEF TablesReach, n
  <2>11. ASSUME NEW k \in 1..n, ~(k <= d)
         PROVE  StoreReaches(new, k) /\ Reaches(new, k, Symbols!FreeSymbol(ts[k], name))
    <3>1. /\ k > 1 /\ ts[k] \in Symbols!Table /\ Wider(ts, new, k) /\ StoreReaches(ts, k)
          /\ new[k] = Symbols!DefineFree(ts[k], captured(k))
      BY <1>1, <2>7, <2>8, <2>10, <2>11
    <3> QED BY <2>9, <3>1, FreeReaches
  <2>12. ASSUME NEW k \in 1..n PROVE k = d + 1 \/ k <= d \/ (k - 1 \in 1..n /\ ~(k - 1 <= d))
    BY <1>1
  <2>13. ASSUME NEW k \in 1..n, ~(k <= d) PROVE Reaches(new, k - 1, captured(k))
    <3>1. CASE k = d + 1
      <4>1. k - 1 = d /\ captured(k) = s /\ Wider(ts, new, d)
        BY <1>1, <2>8, <3>1 DEF captured
      <4> QED BY <1>2, <2>9, <4>1, ReachesWider
    <3>2. CASE k # d + 1
      <4>1. k - 1 \in 1..n /\ ~(k - 1 <= d)
        BY <2>12, <2>13, <3>2
      <4>2. captured(k) = Symbols!FreeSymbol(ts[k-1], name)
        BY <3>2 DEF captured
      <4> QED BY <2>11, <4>1, <4>2
    <3> QED BY <3>1, <3>2
  <2>14. ASSUME NEW k \in 1..n PROVE StoreReaches(new, k) /\ CapturesReach(new, k)
    <3>1. /\ ts[k] \in Symbols!Table /\ Wider(ts, new, k)
          /\ StoreReaches(ts, k) /\ CapturesReach(ts, k)
      BY <1>1, <2>8, <2>10
    <3>2. k > 1 => Wider(ts, new, k - 1)
      BY <1>1, <2>8
    <3>3. CASE k <= d
      <4>1. \A x \in Names : ts[k].store[x] # NULL => Reaches(new, k, ts[k].store[x])
        BY <2>9, <3>1, StoresWider
      <4>2. k > 1 => \A i \in 1..Len(ts[k].free) : Reaches(new, k - 1, ts[k].free[i])
        BY <2>9, <3>1, <3>2, CapturesWider
      <4> QED BY <2>6, <3>3, <4>1, <4>2 DEF StoreReaches, CapturesReach
    <3>4. CASE ~(k <= d)
      <4>1. k > 1 /\ new[k] = Symbols!DefineFree(ts[k], captured(k))
        BY <1>1, <2>7, <3>4
      <4> QED BY <2>9, <2>11, <2>13, <3>1, <3>2, <3>4, <4>1, FreeCaptured
    <3> QED BY <3>3, <3>4
  <2>15. Extended(ts, new)
    BY <2>4, <2>5, <2>8, <2>14 DEF Extended, TablesReach, n
  <2>16. Reaches(new, n, Symbols!FreeSymbol(ts[n], name))
    <3>1. n \in 1..n /\ ~(n <= d)
      BY <1>1, <2>1
    <3> QED BY <2>11, <3>1
  <2> QED BY <2>2, <2>3, <2>15, <2>16 DEF n
<1> QED BY <1>4, <1>5


-----------------------------------------------------------------------------
(* What the code of a scope may refer to *)

(* c captured values suffice for the function that is constant i.          *)
Suffices(objects, i, c) ==
    /\ objects[i + 1].t = "COMPILED_FUNCTION"
    /\ \A f \in Used(objects[i + 1].code, OP.GET_FREE) : f < c
Constants(objects) == {i \in Word : i < Len(objects) /\ objects[i + 1].t # "COMPILED_FUNCTION"}
Makeable(objects) == {x \in Word \X Byte : x[1] < Len(objects) /\ Suffices(objects, x[1], x[2])}

BoundsOf(ts, objects, k) ==
    [constants |-> Constants(objects), closures |-> Makeable(objects), globals |-> Slots(ts, 1),
     locals |-> IF k = 1 THEN {} ELSE Slots(ts, k), free |-> IF k = 1 THEN {} ELSE Frees(ts, k),
     inside |-> k > 1]

(* A function that has been left: its frame reserves n slots; what its     *)
(* closures capture is the concern of the code that makes them.            *)
FunctionBounds(ts, objects, n) ==
    [constants |-> Constants(objects), closures |-> Makeable(objects), globals |-> Slots(ts, 1),
     locals |-> 0..n - 1, free |-> Nat, inside |-> TRUE]

LEMMA DownClosed ==
    ASSUME NEW n \in Nat
    PROVE  0..n - 1 \subseteq Nat /\ \A x \in 0..n - 1 : 0..x \subseteq 0..n - 1
OBVIOUS

LEMMA BoundsAre ==
    ASSUME NEW ts, AreTables(ts), NEW objects, NEW k \in 1..Len(ts)
    PROVE  Bounds(BoundsOf(ts, objects, k))
<1> DEFINE b == BoundsOf(ts, objects, k)
<1>1. /\ b.constants = Constants(objects) /\ b.closures = Makeable(objects)
      /\ b.globals = Slots(ts, 1) /\ (b.locals = {} \/ b.locals = Slots(ts, k))
      /\ (b.free = {} \/ b.free = Frees(ts, k))
  BY DEF BoundsOf
<1> HIDE DEF b
<1>2. ts[1].num \in Nat /\ ts[k].num \in Nat /\ Len(ts[k].free) \in Nat
  <2>1. 1 \in 1..Len(ts)
    BY NumOfTable
  <2> QED BY <2>1, NumOfTable
<1>3. \A set \in {Slots(ts, 1), Slots(ts, k), Frees(ts, k), {}} :
         set \subseteq Nat /\ \A x \in set : 0..x \subseteq set
  BY <1>2, DownClosed DEF Slots, Frees
<1>4. b.constants \subseteq Word /\ b.closures \subseteq Word \X Byte
  BY <1>1 DEF Constants, Makeable
<1>5. b.globals \in {Slots(ts, 1), {}} /\ b.locals \in {Slots(ts, k), {}} /\ b.free \in {Frees(ts, k), {}}
  BY <1>1
<1>6. \A set \in {b.globals, b.locals, b.free} :
         set \subseteq Nat /\ \A x \in set : 0..x \subseteq set
  BY <1>3, <1>5
<1>7. Bounds(b)
  BY <1>4, <1>6 DEF Bounds
<1> QED BY <1>7 DEF b

LEMMA ReachesLoads ==
    ASSUME NEW ts, NEW objects, NEW k, NEW s, Reaches(ts, k, s)
    PROVE  Loadable(s, BoundsOf(ts, objects, k))
<1> DEFINE b == BoundsOf(ts, objects, k)
<1>1. /\ b.globals = Slots(ts, 1) /\ (k > 1 => b.inside)
      /\ (k # 1 => b.locals = Slots(ts, k) /\ b.free = Frees(ts, k))
  BY DEF BoundsOf
<1> HIDE DEF b
<1>2. k > 1 => k # 1
  OBVIOUS
<1>3. Loadable(s, b)
  BY <1>1, <1>2 DEF Loadable, Reaches
<1> QED BY <1>3 DEF b

(* The pool only grows at its end.                                         *)
Longer(objects, more) ==
    /\ Len(objects) \in Nat /\ Len(more) \in Nat /\ Len(objects) <= Len(more)
    /\ \A i \in 1..Len(objects) : more[i] = objects[i]

LEMMA LongerConstants ==
    ASSUME NEW objects, NEW more, Longer(objects, more)
    PROVE  Constants(objects) \subseteq Constants(more) /\ Makeable(objects) \subseteq Makeable(more)
<1> DEFINE n == Len(objects)
           m == Len(more)
<1>1. n \in Nat /\ m \in Nat /\ n <= m /\ \A i \in 1..n : more[i] = objects[i]
  BY DEF Longer
<1> HIDE DEF n, m
<1>2. ASSUME NEW i \in Nat, i < n PROVE i < m /\ more[i + 1] = objects[i + 1]
  BY <1>1, <1>2
<1>3. Constants(objects) \subseteq Constants(more)
  <2>1. ASSUME NEW i \in Word, i < n PROVE i < m /\ more[i + 1] = objects[i + 1]
    <3>1. i \in Nat
      BY DEF Word
    <3> QED BY <1>2, <2>1, <3>1
  <2> QED BY <2>1 DEF Constants, n, m
<1>4. Makeable(objects) \subseteq Makeable(more)
  <2>1. ASSUME NEW x \in Word \X Byte, x[1] < n PROVE x[1] < m /\ more[x[1] + 1] = objects[x[1] + 1]
    <3>1. x[1] \in Nat
      BY DEF Word
    <3> QED BY <1>2, <2>1, <3>1
  <2>2. ASSUME NEW x \in Word \X Byte, x[1] < n, Suffices(objects, x[1], x[2])
        PROVE  Suffices(more, x[1], x[2])
    BY <2>1, <2>2, Zenon DEF Suffices
  <2> QED BY <2>1, <2>2 DEF Makeable, n, m
<1> QED BY <1>3, <1>4

LEMMA BoundsGrow ==
    ASSUME NEW ts, NEW new, Wider(ts, new, 1), NEW k, Wider(ts, new, k),
           NEW objects, NEW more, Longer(objects, more)
    PROVE  Within(BoundsOf(ts, objects, k), BoundsOf(new, more, k))
<1>1. Constants(objects) \subseteq Constants(more) /\ Makeable(objects) \subseteq Makeable(more)
  BY LongerConstants
<1> QED BY <1>1 DEF Within, BoundsOf, Wider

LEMMA FunctionBoundsGrow ==
    ASSUME NEW ts, NEW new, Wider(ts, new, 1), NEW n,
           NEW objects, NEW more, Longer(objects, more)
    PROVE  Within(FunctionBounds(ts, objects, n), FunctionBounds(new, more, n))
<1>1. Constants(objects) \subseteq Constants(more) /\ Makeable(objects) \subseteq Makeable(more)
  BY LongerConstants
<1> QED BY <1>1 DEF Within, FunctionBounds, Wider

(* The code of every open scope, and of every function that has been left, *)
(* refers to what is there.                                                *)
RefersIn(s, ts, objects, k) == \E S : Referring(s, S, BoundsOf(ts, objects, k))
ScopesRefer(ss, ts, objects) == \A k \in 1..Len(ss) : RefersIn(ss[k], ts, objects, k)
FunctionRefers(ts, objects, object) ==
    object.t = "COMPILED_FUNCTION" =>
        /\ object.locals \in Nat
        /\ ReferringCode(object.code, FunctionBounds(ts, objects, object.locals))
PoolRefers(ts, objects) == \A i \in 1..Len(objects) : FunctionRefers(ts, objects, objects[i])

LEMMA RefersInGrows ==
    ASSUME NEW ts, NEW new, Wider(ts, new, 1), NEW k, Wider(ts, new, k),
           NEW objects, NEW more, Longer(objects, more), NEW s, RefersIn(s, ts, objects, k)
    PROVE  RefersIn(s, new, more, k)
BY BoundsGrow, ReferringWithin DEF RefersIn

LEMMA ScopesReferGrows ==
    ASSUME NEW ts, NEW new, Wider(ts, new, 1), NEW objects, NEW more, Longer(objects, more),
           NEW ss, ScopesRefer(ss, ts, objects), \A k \in 1..Len(ss) : Wider(ts, new, k)
    PROVE  ScopesRefer(ss, new, more)
BY RefersInGrows DEF ScopesRefer

LEMMA FunctionRefersGrows ==
    ASSUME NEW ts, NEW new, Wider(ts, new, 1), NEW objects, NEW more, Longer(objects, more),
           NEW object, FunctionRefers(ts, objects, object)
    PROVE  FunctionRefers(new, more, object)
<1>1. SUFFICES ASSUME object.t = "COMPILED_FUNCTION"
               PROVE  /\ object.locals \in Nat
                      /\ ReferringCode(object.code, FunctionBounds(new, more, object.locals))
  BY DEF FunctionRefers
<1>2. PICK S : /\ Tiled(object.code, S)
               /\ Refs(object.code, S, FunctionBounds(ts, objects, object.locals))
  BY <1>1 DEF FunctionRefers, ReferringCode
<1>3. Refs(object.code, S, FunctionBounds(new, more, object.locals))
  BY <1>2, FunctionBoundsGrow, RefsWithin
<1> QED BY <1>1, <1>2, <1>3 DEF FunctionRefers, ReferringCode

LEMMA PoolRefersGrows ==
    ASSUME NEW ts, NEW new, Wider(ts, new, 1), NEW objects, NEW more, Longer(objects, more),
           PoolRefers(ts, objects),
           \A i \in Len(objects) + 1..Len(more) : FunctionRefers(new, more, more[i])
    PROVE  PoolRefers(new, more)
<1>1. ASSUME NEW i \in 1..Len(more) PROVE FunctionRefers(new, more, more[i])
  <2>1. i \in 1..Len(objects) \/ i \in Len(objects) + 1..Len(more)
    BY DEF Longer
  <2>2. CASE i \in 1..Len(objects)
    <3>1. FunctionRefers(ts, objects, objects[i]) /\ more[i] = objects[i]
      BY <2>2 DEF PoolRefers, Longer
    <3>2. FunctionRefers(new, more, objects[i])
      BY <3>1, FunctionRefersGrows
    <3> QED BY <3>1, <3>2
  <2> QED BY <2>1, <2>2
<1> QED BY <1>1 DEF PoolRefers

LEMMA TopRefers ==
    ASSUME NEW ss, IsSequence(ss), Len(ss) > 0, NEW ts, NEW objects, ScopesRefer(ss, ts, objects),
           NEW s, RefersIn(s, ts, objects, Len(ss))
    PROVE  ScopesRefer([ss EXCEPT ![Len(ss)] = s], ts, objects)
<1> DEFINE new == [ss EXCEPT ![Len(ss)] = s]
<1>1. Len(new) = Len(ss) /\ \A i \in 1..Len(ss) : new[i] = IF i = Len(ss) THEN s ELSE ss[i]
  <2>1. WithTop(new, ss, s)
    BY DEF WithTop
  <2> QED BY <2>1, TopOf
<1> HIDE DEF new
<1>2. ASSUME NEW k \in 1..Len(new) PROVE RefersIn(new[k], ts, objects, k)
  BY <1>1 DEF ScopesRefer
<1>3. ScopesRefer(new, ts, objects)
  BY <1>2 DEF ScopesRefer
<1> QED BY <1>3 DEF new


-----------------------------------------------------------------------------
(* What each kind of call does to the innermost scope *)

(* A scope that can be written on: the offsets at which its instructions   *)
(* begin are S, its latest note is true, and its code refers to what is    *)
(* there.                                                                  *)
WorksIn(s, S, b) ==
    Referring(s, S, b) /\ Bounds(b) /\ Noticed(s, S) /\ Len(s.bytes) < 256

Referents == {OP.CONSTANT, OP.GET_GLOBAL, OP.SET_GLOBAL, OP.GET_LOCAL, OP.SET_LOCAL, OP.GET_FREE,
              OP.CURRENT_CLOSURE, OP.CLOSURE}

LEMMA NoReferents ==
    ASSUME NEW op, op \notin Referents, NEW xs, NEW b
    PROVE  Refers(op, xs, b)
BY DEF Referents, Refers

LEMMA JumpFits ==
    \A op \in Jumps : Takes(op, BackpatchLater) /\ op \notin Referents
<1>1. ASSUME NEW op \in Jumps PROVE Takes(op, BackpatchLater)
  <2>1. op \in OpCode /\ Len(Widths(op)) = 1
    BY JumpShape
  <2>2. BackpatchLater \in Seq(Nat) /\ Len(BackpatchLater) = 1
    BY DEF BackpatchLater
  <2> QED BY <2>1, <2>2 DEF Takes
<1>2. ASSUME NEW op \in Jumps PROVE op \notin Referents
  BY Opcodes DEF Jumps, Referents
<1> QED BY <1>1, <1>2

LEMMA NullFits == Takes(OP.NULL, << >>) /\ OP.NULL \notin Referents
<1>1. OP.NULL \in OpCode /\ OP.NULL \notin Referents
  BY Opcodes DEF OpCode, Referents
<1>2. Len(Widths(OP.NULL)) = 0
  <2>1. OP.NULL \notin TwoByteOps \cup OneByteOps \cup {OP.CLOSURE}
    BY Opcodes DEF TwoByteOps, OneByteOps
  <2> QED BY <2>1 DEF Widths
<1> QED BY <1>1, <1>2, FitsNone

(* An instruction.                                                         *)
LEMMA EmittedRefers ==
    ASSUME NEW s, NEW S, NEW b, WorksIn(s, S, b), NEW op, NEW xs, Takes(op, xs), Refers(op, xs, b),
           Len(Emit(s, op, xs).bytes) < 256
    PROVE  \E T : Referring(Emit(s, op, xs), T, b)
BY EmitRefers DEF WorksIn

LEMMA ArmRefers ==
    ASSUME NEW s, NEW S, NEW b, WorksIn(s, S, b), NEW q \in S, q < s.length,
           ByteAt(Code(s), q) \in Jumps, Len(ArmEnded(s, q).bytes) < 256
    PROVE  \E T : Referring(ArmEnded(s, q), T, b)
<1> DEFINE kept == WithoutLastPop(s)
           jumped == Emit(kept, OP.JUMP, BackpatchLater)
           new == ChangeOperand(jumped, q, jumped.length)
<1>a. new = ArmEnded(s, q)
  BY DEF ArmEnded, Jumped
<1>1. Onward(s, S, kept, b) /\ kept.bytes = s.bytes
  BY PopRefers DEF WorksIn
<1>2. PICK T : Referring(kept, T, b) /\ SameJumps(s, S, kept, T)
  BY <1>1 DEF Onward
<1>3. q \in T /\ q < kept.length /\ ByteAt(Code(kept), q) \in Jumps
  BY <1>2 DEF SameJumps
<1>4. /\ kept.length \in Nat /\ kept.length <= Len(kept.bytes) /\ IsScope(kept)
      /\ q \in Nat /\ Len(kept.bytes) \in Nat
  BY <1>2, <1>3, ReferringScope DEF Referring
<1>5. Takes(OP.JUMP, BackpatchLater) /\ Refers(OP.JUMP, BackpatchLater, b)
  <2>1. OP.JUMP \in Jumps
    BY DEF Jumps
  <2> QED BY <2>1, JumpFits, NoReferents
<1>6. IsScope(jumped) /\ Len(kept.bytes) <= Len(jumped.bytes) /\ Len(jumped.bytes) \in Nat
  <2>1. IsScope(jumped) /\ Len(kept.bytes) <= Len(jumped.bytes)
    BY <1>4, <1>5, EmitFields
  <2> QED BY <2>1 DEF IsScope, ScopeSet
<1> HIDE DEF kept
<1>7. Len(jumped.bytes) < 256
  <2>1. q <= Len(jumped.bytes)
    BY <1>3, <1>4, <1>6
  <2>2. Len(jumped.bytes) <= Len(new.bytes)
    BY <1>4, <1>6, <2>1, PatchGrows
  <2>3. Len(new.bytes) < 256 /\ Len(new.bytes) \in Nat
    <3>1. IsSequence(new.bytes)
      BY <1>4, <1>6, <2>1, PatchGrows DEF Writable
    <3> QED BY <1>a, <3>1, SequenceForm
  <2> QED BY <1>6, <2>2, <2>3
<1>8. /\ Referring(jumped, T \cup {jumped.length}, b)
      /\ SameJumps(kept, T, jumped, T \cup {jumped.length})
  BY <1>2, <1>5, <1>7, EmitRefers DEF WorksIn
<1> DEFINE U == T \cup {jumped.length}
<1>9. q \in U /\ q < jumped.length /\ ByteAt(Code(jumped), q) \in Jumps
  BY <1>3, <1>8 DEF SameJumps
<1>10. jumped.length \in Nat
  BY <1>8, ReferringScope
<1> HIDE DEF jumped, U
<1>11. Referring(jumped, U, b) /\ Bounds(b)
  BY <1>8 DEF U, WorksIn
<1>12. Referring(ChangeOperand(jumped, q, jumped.length), U, b)
  BY <1>9, <1>10, <1>11, PatchRefers
<1> QED BY <1>a, <1>12

LEMMA OverRefers ==
    ASSUME NEW s, NEW S, NEW b, WorksIn(s, S, b), NEW j \in S, j < s.length,
           ByteAt(Code(s), j) \in Jumps, NEW popped \in BOOLEAN
    PROVE  \E T : Referring(JumpedOver(s, popped, j), T, b)
<1> DEFINE kept == IF popped THEN WithoutLastPop(s) ELSE s
<1>1. Onward(s, S, kept, b)
  <2>1. Onward(s, S, WithoutLastPop(s), b)
    BY PopRefers DEF WorksIn
  <2>2. Onward(s, S, s, b)
    BY DEF Onward, WorksIn, SameJumps
  <2> QED BY <2>1, <2>2
<1>2. JumpedOver(s, popped, j) = ChangeOperand(kept, j, kept.length)
  BY DEF JumpedOver
<1> HIDE DEF kept
<1>3. PICK T : Referring(kept, T, b) /\ SameJumps(s, S, kept, T)
  BY <1>1 DEF Onward
<1>4. j \in T /\ j < kept.length /\ ByteAt(Code(kept), j) \in Jumps
  BY <1>3 DEF SameJumps
<1>5. kept.length \in Nat
  BY <1>3, ReferringScope
<1>6. Referring(ChangeOperand(kept, j, kept.length), T, b)
  BY <1>3, <1>4, <1>5, PatchRefers DEF WorksIn
<1> QED BY <1>2, <1>6

LEMMA EmptyRefers ==
    ASSUME NEW ts, NEW objects, NEW k
    PROVE  RefersIn(EmptyScope, ts, objects, k)
<1> DEFINE d == [p \in {0} |-> 0]
           code == Code(EmptyScope)
<1>1. Good(EmptyScope, d, {}) /\ EmptyScope.length = 0
  BY EmptyStands DEF EmptyScope
<1>2. IsScope(EmptyScope) /\ Tiled(code, DOMAIN d) /\ Len(code) = 0
  BY <1>1, TiledOfSound, GoodScope DEF Good
<1>3. DOMAIN d = {0}
  OBVIOUS
<1> HIDE DEF d, code
<1>4. Refs(code, {0}, BoundsOf(ts, objects, k))
  BY <1>2 DEF Refs
<1>5. Referring(EmptyScope, {0}, BoundsOf(ts, objects, k))
  BY <1>2, <1>3, <1>4 DEF Referring, code
<1> QED BY <1>5 DEF RefersIn


-----------------------------------------------------------------------------
(* The invariant of the compiler *)

ReferenceInv == TablesReach(tables) /\ ScopesRefer(scopes, tables, pool) /\ PoolRefers(tables, pool)
OperandInv(Trees) == CodeInv(Trees) /\ ReferenceInv

LEMMA OpenScopes ==
    ASSUME NEW Trees, CodeInv(Trees)
    PROVE  /\ AreTables(tables) /\ Len(scopes) = Len(tables) /\ Len(scopes) \in 1..Len(tables)
           /\ IsSequence(scopes) /\ Len(scopes) > 0 /\ Len(scopes) \in Nat
           /\ IsSequence(pool) /\ Len(pool) \in Nat
<1>1. AreTables(tables) /\ IsSequence(scopes) /\ Len(scopes) = Len(tables) /\ IsSequence(pool)
  BY DEF CodeInv, TablesInv, AreTables, CompilerInv, ScopesInv, PoolInv
<1>2. Len(tables) \in 1..Len(tables) /\ Len(tables) \in Nat /\ Len(tables) > 0
  BY <1>1 DEF AreTables
<1>3. Len(pool) \in Nat
  BY <1>1, SequenceForm
<1> QED BY <1>1, <1>2, <1>3

LEMMA LongerItself ==
    ASSUME NEW objects, IsSequence(objects)
    PROVE  Longer(objects, objects)
BY SequenceForm DEF Longer

LEMMA LongerAppended ==
    ASSUME NEW objects, IsSequence(objects), NEW object
    PROVE  LET more == Append(objects, object)
           IN  /\ Longer(objects, more) /\ Len(more) = Len(objects) + 1
               /\ more[Len(objects) + 1] = object
<1> DEFINE more == Append(objects, object)
<1>1. Len(objects) \in Nat
  BY SequenceForm
<1>2. /\ Len(more) = Len(objects) + 1 /\ more[Len(objects) + 1] = object
      /\ \A i \in 1..Len(objects) : more[i] = objects[i]
  BY SequenceAppend
<1> HIDE DEF more
<1>3. Longer(objects, more)
  BY <1>1, <1>2 DEF Longer
<1> QED BY <1>2, <1>3 DEF more

(* Where the innermost scope stands, with the tables and the pool of now   *)
(* or of later.                                                            *)
LEMMA TopWorks ==
    ASSUME NEW Trees, OperandInv(Trees), NEW D, NEW a, NEW b, Working(D, a, b),
           NEW ts, Extended(tables, ts), NEW objects, Longer(pool, objects)
    PROVE  WorksIn(Top, DOMAIN D[Len(scopes)], BoundsOf(ts, objects, Len(scopes)))
<1> DEFINE n == Len(scopes)
           d == D[n]
           c == BoundsOf(ts, objects, n)
<1>1. n \in 1..Len(tables) /\ AreTables(tables) /\ n \in 1..Len(scopes) /\ 1 \in 1..Len(tables)
  BY OpenScopes, NumOfTable DEF OperandInv
<1>2. RefersIn(Top, tables, pool, n)
  BY <1>1 DEF OperandInv, ReferenceInv, ScopesRefer, Top
<1>3. RefersIn(Top, ts, objects, n)
  BY <1>1, <1>2, RefersInGrows DEF Extended
<1>4. PICK S : Referring(Top, S, c)
  BY <1>3 DEF RefersIn
<1>5. Good(Top, d, a.open)
  BY TopWritable
<1>6. /\ Tiled(Code(Top), DOMAIN d) /\ NoteAt(Code(Top), d, Top.length, Top.last)
      /\ Len(Top.bytes) < 256
  BY <1>5, TiledOfSound DEF Good
<1>7. S = DOMAIN d
  BY <1>4, <1>6, StartsOfTiled DEF Referring
<1>8. Noticed(Top, DOMAIN d)
  BY <1>6 DEF Noticed, NoteAt
<1>9. Bounds(c)
  BY <1>1, BoundsAre DEF Extended
<1> QED BY <1>4, <1>6, <1>7, <1>8, <1>9 DEF WorksIn

(* The innermost scope is written, or none is.                             *)
TopBecomes(s) == /\ scopes' = [scopes EXCEPT ![Len(scopes)] = s]
              /\ RefersIn(s, tables', pool', Len(scopes))

LEMMA StepRefers ==
    ASSUME NEW Trees, OperandInv(Trees), Extended(tables, tables'), Longer(pool, pool'),
           \A i \in Len(pool) + 1..Len(pool') : FunctionRefers(tables', pool', pool'[i]),
           scopes' = scopes \/ \E s : TopBecomes(s)
    PROVE  ReferenceInv'
<1>1. /\ IsSequence(scopes) /\ Len(scopes) > 0 /\ Len(scopes) = Len(tables)
      /\ AreTables(tables) /\ 1 \in 1..Len(tables)
  BY OpenScopes, NumOfTable DEF OperandInv
<1>2. Wider(tables, tables', 1) /\ \A k \in 1..Len(scopes) : Wider(tables, tables', k)
  BY <1>1 DEF Extended
<1>3. ScopesRefer(scopes, tables', pool')
  BY <1>2, ScopesReferGrows DEF OperandInv, ReferenceInv
<1>4. ScopesRefer(scopes', tables', pool')
  <2>1. CASE scopes' = scopes
    BY <1>3, <2>1
  <2>2. ASSUME NEW s, TopBecomes(s) PROVE ScopesRefer(scopes', tables', pool')
    BY <1>1, <1>3, <2>2, TopRefers DEF TopBecomes
  <2> QED BY <2>1, <2>2
<1>5. PoolRefers(tables', pool')
  BY <1>2, PoolRefersGrows DEF OperandInv, ReferenceInv
<1>6. TablesReach(tables')
  BY DEF Extended
<1> QED BY <1>4, <1>5, <1>6 DEF ReferenceInv

(* Nothing is added to the pool.                                           *)
LEMMA AddsNothing ==
    ASSUME NEW Trees, OperandInv(Trees), UNCHANGED pool, Extended(tables, tables'),
           scopes' = scopes \/ \E s : TopBecomes(s)
    PROVE  ReferenceInv'
<1>1. Longer(pool, pool') /\ Len(pool) \in Nat
  BY LongerItself, OpenScopes DEF OperandInv
<1>2. ~\E i : i \in Len(pool) + 1..Len(pool')
  BY <1>1
<1> QED BY <1>1, <1>2, StepRefers

LEMMA NothingAdded ==
    ASSUME NEW Trees, OperandInv(Trees), UNCHANGED <<tables, pool>>
    PROVE  Extended(tables, tables') /\ Longer(pool, pool')
BY ExtendedItself, LongerItself, OpenScopes DEF OperandInv, ReferenceInv

LEMMA CallsRefer ==
    ASSUME NEW Trees, OperandInv(Trees), UNCHANGED <<tables, scopes, pool>>
    PROVE  ReferenceInv'
BY NothingAdded, AddsNothing

(* An instruction that refers to what is there is emitted.                 *)
LEMMA InstructionRefers ==
    ASSUME NEW Trees, OperandInv(Trees), todo # << >>, BuffersShort',
           Extended(tables, tables'), Longer(pool, pool'),
           \A i \in Len(pool) + 1..Len(pool') : FunctionRefers(tables', pool', pool'[i]),
           NEW op, NEW xs, scopes' = [scopes EXCEPT ![Len(scopes)] = Emit(Top, op, xs)],
           Takes(op, xs), Refers(op, xs, BoundsOf(tables', pool', Len(scopes)))
    PROVE  ReferenceInv'
<1>1. PICK D, a, b : Working(D, a, b)
  BY SomeWork DEF OperandInv
<1>2. WorksIn(Top, DOMAIN D[Len(scopes)], BoundsOf(tables', pool', Len(scopes)))
  BY <1>1, TopWorks
<1>3. Len(Emit(Top, op, xs).bytes) < 256
  BY <1>1, EmitShort
<1>4. RefersIn(Emit(Top, op, xs), tables', pool', Len(scopes))
  BY <1>2, <1>3, EmittedRefers DEF RefersIn
<1>5. TopBecomes(Emit(Top, op, xs))
  BY <1>4 DEF TopBecomes
<1> QED BY <1>5, StepRefers

LEMMA PlainInstructionRefers ==
    ASSUME NEW Trees, OperandInv(Trees), todo # << >>, BuffersShort', UNCHANGED <<tables, pool>>,
           NEW op, NEW xs, scopes' = [scopes EXCEPT ![Len(scopes)] = Emit(Top, op, xs)],
           Takes(op, xs), op \notin Referents
    PROVE  ReferenceInv'
<1>1. Extended(tables, tables') /\ Longer(pool, pool') /\ Len(pool) \in Nat
  BY NothingAdded, OpenScopes DEF OperandInv
<1>2. ~\E i : i \in Len(pool) + 1..Len(pool')
  BY <1>1
<1>3. Refers(op, xs, BoundsOf(tables', pool', Len(scopes)))
  BY NoReferents
<1> QED BY <1>1, <1>2, <1>3, InstructionRefers


(* Statements and expressions                                              *)
LEMMA LetRefers ==
    ASSUME NEW Trees, Balanced(Trees), OperandInv(Trees), LetStatement
    PROVE  ReferenceInv'
<1>1. Visiting("LET") /\ tables' = Symbols!Define(tables, Node.name) /\ UNCHANGED <<scopes, pool>>
  BY DEF LetStatement
<1>2. Node.name \in Names
  BY <1>1, NodeIs DEF OperandInv, Balanced
<1>3. Extended(tables, tables')
  BY <1>1, <1>2, DefineExtends, OpenScopes DEF OperandInv, ReferenceInv
<1> QED BY <1>1, <1>3, AddsNothing

LEMMA DeferredRefers ==
    ASSUME NEW op \in Deferred, NEW xs, Takes(op, xs), NEW ts, NEW k, Stores(ts, k, op, xs),
           NEW objects
    PROVE  Refers(op, xs, BoundsOf(ts, objects, k))
<1> DEFINE b == BoundsOf(ts, objects, k)
<1>1. b.globals = Slots(ts, 1) /\ (k > 1 => b.locals = Slots(ts, k))
  BY DEF BoundsOf
<1> HIDE DEF b
<1>2. op \in {OP.SET_LOCAL, OP.SET_GLOBAL} => xs # << >>
  <2>1. op \in {OP.SET_LOCAL, OP.SET_GLOBAL} => Len(xs) = 1
    BY TakingShape DEF Takes
  <2> QED BY <2>1
<1>3. op \notin {OP.CONSTANT, OP.GET_GLOBAL, OP.GET_LOCAL, OP.GET_FREE, OP.CURRENT_CLOSURE, OP.CLOSURE}
  BY DEF Deferred, Loads
<1>4. Refers(op, xs, b)
  BY <1>1, <1>2, <1>3, Opcodes DEF Refers, Stores
<1> QED BY <1>4 DEF b

LEMMA OperatorRefers ==
    ASSUME NEW Trees, OperandInv(Trees), EmitOperator, BuffersShort'
    PROVE  ReferenceInv'
<1> DEFINE op == Head(todo).op
           xs == Head(todo).operands
<1>1. /\ todo # << >> /\ Head(todo).do = "emit" /\ UNCHANGED <<tables, pool>>
      /\ scopes' = [scopes EXCEPT ![Len(scopes)] = Emit(Top, op, xs)]
  BY DEF EmitOperator, Resuming, EmitNow, Top
<1>2. err = NULL /\ CompilerInv(Trees) /\ \E D, a, b : Working(D, a, b)
  BY <1>1, SomeWork DEF OperandInv, CodeInv
<1>3. Suits(tables, Head(todo), Len(tables))
  BY <1>1, <1>2, OpenTail DEF CompilerInv, CallsInv
<1>4. Stores(tables, Len(scopes), op, xs)
  BY <1>1, <1>3, OpenScopes DEF Suits, OperandInv
<1>5. Takes(op, xs) /\ op \in Deferred
  BY <1>1, <1>2 DEF Working, Stands, Passes, Emits
<1> HIDE DEF op, xs
<1>6. Refers(op, xs, BoundsOf(tables', pool', Len(scopes)))
  BY <1>1, <1>4, <1>5, DeferredRefers
<1>7. Extended(tables, tables') /\ Longer(pool, pool') /\ Len(pool) \in Nat
  BY <1>1, NothingAdded, OpenScopes DEF OperandInv
<1>8. ~\E i : i \in Len(pool) + 1..Len(pool')
  BY <1>1, <1>7
<1> QED BY <1>1, <1>5, <1>6, <1>7, <1>8, InstructionRefers

LEMMA BooleanRefers ==
    ASSUME NEW Trees, OperandInv(Trees), BooleanLiteral, BuffersShort'
    PROVE  ReferenceInv'
<1> DEFINE op == IF Node.bool THEN OP.TRUE ELSE OP.FALSE
<1>1. /\ Visiting("BOOL") /\ UNCHANGED <<tables, pool>>
      /\ scopes' = [scopes EXCEPT ![Len(scopes)] = Emit(Top, op, << >>)]
  BY DEF BooleanLiteral, EmitNow, Top
<1>2. todo # << >>
  BY <1>1, NodeIs DEF OperandInv
<1>3. Takes(op, << >>) /\ op \notin Referents
  <2>1. OP.TRUE \notin Referents /\ OP.FALSE \notin Referents
    BY Opcodes DEF Referents
  <2> QED BY <2>1, LoadFacts
<1> HIDE DEF op
<1> QED BY <1>1, <1>2, <1>3, PlainInstructionRefers

(* The pool has been extended by one object, which its array had room for. *)
LEMMA ConstantAdded ==
    ASSUME NEW Trees, OperandInv(Trees), NEW STATE object, AddConstant(object)
    PROVE  /\ Longer(pool, pool') /\ Len(pool') = Len(pool) + 1 /\ Len(pool) \in Word
           /\ NextConstant = Len(pool)
           /\ pool'[Len(pool) + 1] = object
           /\ \A i \in Len(pool) + 1..Len(pool') : i = Len(pool) + 1
<1>1. IsSequence(pool) /\ Len(pool) \in Nat
  BY OpenScopes DEF OperandInv
<1>2. Longer(pool, pool') /\ Len(pool') = Len(pool) + 1 /\ pool'[Len(pool) + 1] = object
  BY <1>1, LongerAppended DEF AddConstant
<1>3. Len(pool) \in Word
  BY <1>1, LimitsAssumption DEF AddConstant, Word
<1>4. \A i \in Len(pool) + 1..Len(pool') : i = Len(pool) + 1
  BY <1>1, <1>2
<1> QED BY <1>2, <1>3, <1>4 DEF NextConstant

LEMMA ConstantRefers ==
    ASSUME NEW Trees, OperandInv(Trees), Constant, BuffersShort'
    PROVE  ReferenceInv'
<1> DEFINE xs == << NextConstant >>
<1>1. /\ scopes' = [scopes EXCEPT ![Len(scopes)] = Emit(Top, OP.CONSTANT, xs)]
      /\ UNCHANGED tables /\ \E type : Visiting(type)
  BY DEF Constant, EmitNow, Top
<1>2. todo # << >>
  BY <1>1, NodeIs DEF OperandInv
<1>3. /\ Longer(pool, pool') /\ Len(pool') = Len(pool) + 1 /\ Len(pool) \in Word
      /\ NextConstant = Len(pool)
      /\ \A i \in Len(pool) + 1..Len(pool') : i = Len(pool) + 1
      /\ pool'[Len(pool) + 1].t # "COMPILED_FUNCTION"
  <2>1. CASE AddConstant(Integer(Node.int))
    <3>1. Integer(Node.int).t # "COMPILED_FUNCTION"
      BY DEF Integer
    <3> QED BY <2>1, <3>1, ConstantAdded
  <2>2. CASE AddConstant(String(Node.string))
    <3>1. String(Node.string).t # "COMPILED_FUNCTION"
      BY DEF String
    <3> QED BY <2>2, <3>1, ConstantAdded
  <2> QED BY <2>1, <2>2 DEF Constant
<1>4. Len(pool) \in Constants(pool')
  <2>1. Len(pool) < Len(pool')
    <3>1. Len(pool) \in Nat
      BY <1>3 DEF Word
    <3> QED BY <1>3, <3>1
  <2> QED BY <1>3, <2>1 DEF Constants
<1>5. Refers(OP.CONSTANT, xs, BoundsOf(tables', pool', Len(scopes)))
  <2>1. xs[1] \in BoundsOf(tables', pool', Len(scopes)).constants
    BY <1>3, <1>4 DEF BoundsOf
  <2> HIDE DEF xs
  <2> QED BY <2>1, Opcodes DEF Refers
<1>6. Takes(OP.CONSTANT, xs)
  <2>1. NextConstant \in Nat
    BY <1>3 DEF Word
  <2> QED BY <2>1, LoadFacts
<1>7. \A i \in Len(pool) + 1..Len(pool') : FunctionRefers(tables', pool', pool'[i])
  BY <1>3 DEF FunctionRefers
<1>8. Extended(tables, tables')
  BY <1>1, ExtendedItself, OpenScopes DEF OperandInv, ReferenceInv
<1> HIDE DEF xs
<1> QED BY <1>1, <1>2, <1>3, <1>5, <1>6, <1>7, <1>8, InstructionRefers


(* A name is resolved, captured by every function on the way, and loaded.  *)
LEMMA TopOnward ==
    ASSUME NEW Trees, OperandInv(Trees), Extended(tables, tables'), UNCHANGED pool,
           NEW s, NEW S, scopes' = [scopes EXCEPT ![Len(scopes)] = s],
           Onward(Top, S, s, BoundsOf(tables', pool', Len(scopes)))
    PROVE  ReferenceInv'
<1>1. RefersIn(s, tables', pool', Len(scopes))
  BY DEF Onward, RefersIn
<1>2. TopBecomes(s)
  BY <1>1 DEF TopBecomes
<1> QED BY <1>2, AddsNothing

LEMMA IdentifierRefers ==
    ASSUME NEW Trees, Balanced(Trees), OperandInv(Trees), Identifier, BuffersShort'
    PROVE  ReferenceInv'
<1>1. Visiting("IDENT") /\ UNCHANGED pool
  BY DEF Identifier
<1>2. Node.name \in Names /\ todo # << >>
  BY <1>1, NodeIs DEF OperandInv, Balanced
<1>3. ASSUME NEW d \in DOMAIN tables, Symbols!FoundAt(tables, Node.name, d),
             tables' = Symbols!AfterResolve(tables, Node.name, d),
             scopes' = [scopes EXCEPT ![Len(scopes)] =
                           EmitLoad(Top, Symbols!Resolved(tables, Node.name, d))]
      PROVE  ReferenceInv'
  <2> DEFINE symbol == Symbols!Resolved(tables, Node.name, d)
             n == Len(scopes)
             c == BoundsOf(tables', pool', n)
  <2>1. symbol \in Symbols!Symbol
    BY <1>2, <1>3, TablesResolve DEF OperandInv, CodeInv, TablesInv
  <2>2. Extended(tables, tables') /\ Reaches(tables', n, symbol)
    BY <1>2, <1>3, ResolveReaches, OpenScopes DEF OperandInv, ReferenceInv
  <2>3. scopes' = [scopes EXCEPT ![n] = EmitLoad(Top, symbol)]
    BY <1>3
  <2> HIDE DEF symbol
  <2>4. PICK D, a, b : Working(D, a, b)
    BY <1>2, SomeWork DEF OperandInv
  <2>5. Loadable(symbol, c)
    BY <2>2, ReachesLoads
  <2>6. Longer(pool, pool')
    BY <1>1, LongerItself, OpenScopes DEF OperandInv
  <2>7. WorksIn(Top, DOMAIN D[n], c)
    BY <2>2, <2>4, <2>6, TopWorks
  <2>8. Len(EmitLoad(Top, symbol).bytes) < 256
    <3>1. IsSequence(scopes) /\ Len(scopes) > 0 /\ IsScope(Top)
      BY <2>4, TopWritable
    <3>2. IsScope(EmitLoad(Top, symbol))
      BY <2>1, <3>1, LoadScope
    <3>3. IsSequence(EmitLoad(Top, symbol).bytes)
      BY <3>2 DEF IsScope, ScopeSet, IsSequence
    <3> QED BY <2>3, <3>1, <3>3, TopShort
  <2>9. Onward(Top, DOMAIN D[n], EmitLoad(Top, symbol), c)
    BY <2>1, <2>5, <2>7, <2>8, LoadRefers DEF WorksIn
  <2> QED BY <1>1, <2>2, <2>3, <2>9, TopOnward
<1>4. CASE UNCHANGED <<tables, scopes>>
  BY <1>1, <1>4, CallsRefer
<1> QED BY <1>3, <1>4 DEF Identifier, Top

(* Conditionals                                                            *)
LEMMA ConsequenceRefers ==
    ASSUME NEW Trees, OperandInv(Trees), IfConsequence, BuffersShort'
    PROVE  ReferenceInv'
<1>1. /\ Resuming("consequence") /\ UNCHANGED <<tables, pool>>
      /\ scopes' = [scopes EXCEPT ![Len(scopes)] = Emit(Top, OP.JUMP_NOT_TRUTHY, BackpatchLater)]
  BY DEF IfConsequence, EmitNow, Top
<1>2. todo # << >>
  BY <1>1 DEF Resuming
<1>3. Takes(OP.JUMP_NOT_TRUTHY, BackpatchLater) /\ OP.JUMP_NOT_TRUTHY \notin Referents
  <2>1. OP.JUMP_NOT_TRUTHY \in Jumps
    BY DEF Jumps
  <2> QED BY <2>1, JumpFits
<1> QED BY <1>1, <1>2, <1>3, PlainInstructionRefers

(* Where a jump waits for its target.                                      *)
LEMMA JumpWaits ==
    ASSUME NEW D, NEW a, NEW b, Working(D, a, b), NEW q, NEW op \in Jumps, NEW h,
           Awaits(Top, D[Len(scopes)], q, op, h)
    PROVE  q \in DOMAIN D[Len(scopes)] /\ q < Top.length /\ ByteAt(Code(Top), q) \in Jumps
<1>1. Good(Top, D[Len(scopes)], a.open)
  BY TopWritable
<1>2. Len(Code(Top)) = Top.length
  BY <1>1, GoodScope
<1> QED BY <1>2 DEF Awaits

LEMMA AlternativeRefers ==
    ASSUME NEW Trees, OperandInv(Trees), IfAlternative, BuffersShort'
    PROVE  ReferenceInv'
<1> DEFINE n == Len(scopes)
           q == Head(todo).jumpNotTruthy
           arm == ArmEnded(Top, q)
           alternative == Head(todo).alternative
           c == BoundsOf(tables', pool', n)
           made == IF alternative = NULL THEN Emit(arm, OP.NULL, << >>) ELSE arm
<1>1. Resuming("alternative") /\ UNCHANGED <<tables, pool>> /\ todo # << >>
  BY DEF IfAlternative, Resuming
<1>2. Head(todo).do = "alternative"
  BY <1>1 DEF Resuming
<1>3. PICK D, a, b : Working(D, a, b)
  BY <1>1, SomeWork DEF OperandInv
<1>4. Writable(arm) /\ IsSequence(arm.bytes) /\ IsSequence(scopes) /\ Len(scopes) > 0
  BY <1>2, <1>3, ArmCode, TopWritable DEF Writable
<1>5. q \in DOMAIN D[n] /\ q < Top.length /\ ByteAt(Code(Top), q) \in Jumps
  <2>1. Awaits(Top, D[n], q, OP.JUMP_NOT_TRUTHY, a.height + 1)
    BY <1>2, <1>3, ConsequenceEnds DEF Working, Top
  <2>2. OP.JUMP_NOT_TRUTHY \in Jumps
    BY DEF Jumps
  <2> QED BY <1>3, <2>1, <2>2, JumpWaits
<1>6. Extended(tables, tables') /\ Longer(pool, pool')
  BY <1>1, NothingAdded
<1>7. WorksIn(Top, DOMAIN D[n], c)
  BY <1>3, <1>6, TopWorks
<1>8. scopes' = [scopes EXCEPT ![n] = made]
  BY DEF IfAlternative, ArmEnded, Jumped
<1>9. IsSequence(made.bytes) /\ Len(arm.bytes) <= Len(made.bytes) /\ Len(made.bytes) \in Nat
  <2>1. IsSequence(Emit(arm, OP.NULL, << >>).bytes)
        /\ Len(arm.bytes) <= Len(Emit(arm, OP.NULL, << >>).bytes)
    BY <1>4, EmitGrows
  <2>2. Len(arm.bytes) <= Len(arm.bytes)
    BY <1>4, SequenceForm
  <2>3. IsSequence(made.bytes) /\ Len(arm.bytes) <= Len(made.bytes)
    BY <1>4, <2>1, <2>2
  <2> QED BY <2>3, SequenceForm
<1>10. Len(made.bytes) < 256
  BY <1>1, <1>4, <1>8, <1>9, TopShort
<1>11. Len(arm.bytes) < 256
  BY <1>4, <1>9, <1>10, SequenceForm
<1>12. PICK T : Referring(arm, T, c)
  <2> HIDE DEF arm, c, q
  <2> QED BY <1>5, <1>7, <1>11, ArmRefers DEF arm
<1>13. RefersIn(made, tables', pool', n)
  <2>1. CASE alternative = NULL
    <3>1. Takes(OP.NULL, << >>) /\ Refers(OP.NULL, << >>, c)
      BY NullFits, NoReferents
    <3>2. Bounds(c) /\ Len(Emit(arm, OP.NULL, << >>).bytes) < 256
      BY <1>7, <1>10, <2>1 DEF WorksIn
    <3> HIDE DEF arm, c
    <3>3. \E S : Referring(Emit(arm, OP.NULL, << >>), S, c)
      BY <1>12, <3>1, <3>2, EmitRefers
    <3> QED BY <2>1, <3>3 DEF RefersIn, c
  <2>2. CASE alternative # NULL
    BY <1>12, <2>2 DEF RefersIn
  <2> QED BY <2>1, <2>2
<1>14. TopBecomes(made)
  BY <1>8, <1>13 DEF TopBecomes
<1> QED BY <1>1, <1>6, <1>14, AddsNothing

LEMMA EndRefers ==
    ASSUME NEW Trees, OperandInv(Trees), IfEnd
    PROVE  ReferenceInv'
<1> DEFINE n == Len(scopes)
           j == Head(todo).jump
           popped == Head(todo).popped
           made == JumpedOver(Top, popped, j)
           c == BoundsOf(tables', pool', n)
<1>1. /\ Resuming("endIf") /\ UNCHANGED <<tables, pool>> /\ todo # << >>
      /\ scopes' = [scopes EXCEPT ![n] = made]
  BY DEF IfEnd, Resuming, JumpedOver, Top
<1>2. Head(todo).do = "endIf"
  BY <1>1 DEF Resuming
<1>3. PICK D, a, b : Working(D, a, b)
  BY <1>1, SomeWork DEF OperandInv
<1>4. popped \in BOOLEAN /\ Awaits(Top, D[n], j, OP.JUMP, b.height)
  BY <1>2, <1>3 DEF Working, Stands, Passes, Top
<1>5. j \in DOMAIN D[n] /\ j < Top.length /\ ByteAt(Code(Top), j) \in Jumps
  <2>1. OP.JUMP \in Jumps
    BY DEF Jumps
  <2> QED BY <1>3, <1>4, <2>1, JumpWaits
<1>6. Extended(tables, tables') /\ Longer(pool, pool')
  BY <1>1, NothingAdded
<1>7. WorksIn(Top, DOMAIN D[n], c)
  BY <1>3, <1>6, TopWorks
<1>8. \E T : Referring(made, T, c)
  <2> HIDE DEF j, popped, c
  <2> QED BY <1>4, <1>5, <1>7, OverRefers DEF made
<1>9. TopBecomes(made)
  BY <1>1, <1>8 DEF TopBecomes, RefersIn
<1> QED BY <1>1, <1>6, <1>9, AddsNothing


(* Function literals                                                       *)
LEMMA AppendRefers ==
    ASSUME NEW ss, IsSequence(ss), NEW ts, NEW objects, ScopesRefer(ss, ts, objects)
    PROVE  ScopesRefer(Append(ss, EmptyScope), ts, objects)
<1> DEFINE n == Len(ss)
           new == Append(ss, EmptyScope)
<1>1. n \in Nat /\ Len(new) = n + 1 /\ new[n + 1] = EmptyScope /\ \A k \in 1..n : new[k] = ss[k]
  BY SequenceForm, SequenceAppend
<1> HIDE DEF new, n
<1>2. ASSUME NEW k \in 1..Len(new) PROVE RefersIn(new[k], ts, objects, k)
  <2>1. k \in 1..n \/ k = n + 1
    BY <1>1
  <2>2. CASE k \in 1..n
    BY <1>1, <2>2 DEF ScopesRefer, n
  <2>3. CASE k = n + 1
    BY <1>1, <2>3, EmptyRefers
  <2> QED BY <2>1, <2>2, <2>3
<1>3. ScopesRefer(new, ts, objects)
  BY <1>2 DEF ScopesRefer
<1> QED BY <1>3 DEF new

LEMMA FunctionOpens ==
    ASSUME NEW Trees, HoldsParts(Trees), Balanced(Trees), OperandInv(Trees), FunctionLiteral
    PROVE  ReferenceInv'
<1> DEFINE entered == Symbols!EnterTable(tables, Node.name)
           n == Len(tables)
<1>1. /\ Visiting("FN") /\ tables' = DefineParameters(entered, Node.params)
      /\ scopes' = Append(scopes, EmptyScope) /\ UNCHANGED pool
  BY DEF FunctionLiteral
<1>2. Node.name \in Names \cup {NULL} /\ Node.params \in Seq(Names)
  <2>1. Node \in Trees /\ Node.type = "FN"
    BY <1>1, NodeIs DEF OperandInv
  <2> QED BY <2>1 DEF HoldsParts, Balanced
<1>3. /\ AreTables(tables) /\ TablesReach(tables) /\ Len(scopes) = n /\ n \in Nat /\ n > 0
      /\ IsSequence(scopes) /\ IsSequence(pool) /\ Len(pool) \in Nat
  BY OpenScopes DEF OperandInv, ReferenceInv
<1>4. AreTables(entered)
  BY <1>2, <1>3, TablesEnter DEF AreTables
<1>5. TablesReach(entered) /\ Len(entered) = n + 1 /\ \A k \in 1..n : entered[k] = tables[k]
  BY <1>3, EnterReaches
<1> HIDE DEF entered, n
<1>6. Extended(entered, tables')
  BY <1>1, <1>2, <1>4, <1>5, ParametersExtend
<1>7. ASSUME NEW k \in 1..n PROVE Wider(tables, tables', k)
  <2>1. Wider(tables, entered, k)
    BY <1>5, WiderSame
  <2>2. k \in 1..Len(entered)
    BY <1>3, <1>5
  <2>3. Wider(entered, tables', k)
    BY <1>6, <2>2 DEF Extended
  <2> QED BY <2>1, <2>3, WiderTwice
<1>8. Longer(pool, pool') /\ ~\E i : i \in Len(pool) + 1..Len(pool')
  BY <1>1, <1>3, LongerItself
<1>9. Wider(tables, tables', 1)
  <2>1. 1 \in 1..n
    BY <1>3
  <2> QED BY <1>7, <2>1
<1>10. ScopesRefer(scopes, tables', pool')
  BY <1>3, <1>7, <1>8, <1>9, ScopesReferGrows DEF OperandInv, ReferenceInv
<1>11. ScopesRefer(scopes', tables', pool')
  BY <1>1, <1>3, <1>10, AppendRefers
<1>12. PoolRefers(tables', pool')
  BY <1>8, <1>9, PoolRefersGrows DEF OperandInv, ReferenceInv
<1> QED BY <1>6, <1>11, <1>12 DEF ReferenceInv, Extended

(* The instructions of a stream.                                           *)
LEMMA InstrRefers ==
    ASSUME NEW code, NEW b, ReferringCode(code, b), NEW ins \in Instrs(code)
    PROVE  Refers(ins.op, ins.operands, b) /\ ins.op \in OpCode
<1>1. PICK S : Tiled(code, S) /\ Refs(code, S, b)
  BY DEF ReferringCode
<1>2. Starts(code) = S
  BY <1>1, StartsOfTiled
<1>3. PICK p \in Starts(code) \ {Len(code)} :
         ins = [op |-> ByteAt(code, p), operands |-> Operands(code, p)]
  BY DEF Instrs
<1>4. ins.op = ByteAt(code, p) /\ ins.operands = Operands(code, p)
  BY <1>3
<1>5. p \in S \ {Len(code)}
  BY <1>2, <1>3
<1> QED BY <1>1, <1>4, <1>5 DEF Refs, Tiled


(* The scope around loads what was captured and makes the closure.         *)
LEMMA ClosureRefers ==
    ASSUME NEW s, NEW S, NEW b, Referring(s, S, b), Bounds(b),
           NEW symbols \in Seq(Symbols!Symbol),
           \A i \in 1..Len(symbols) : Loadable(symbols[i], b), NEW k \in Nat,
           Len(symbols) \in Byte => <<k, Len(symbols)>> \in b.closures,
           Len(Emit(EmitLoads(s, symbols), OP.CLOSURE, <<k, Len(symbols)>>).bytes) < 255
    PROVE  \E T : Referring(Emit(EmitLoads(s, symbols), OP.CLOSURE, <<k, Len(symbols)>>), T, b)
<1> DEFINE loaded == EmitLoads(s, symbols)
           m == Len(symbols)
           xs == <<k, m>>
           made == Emit(loaded, OP.CLOSURE, xs)
<1>1. /\ m \in Nat /\ IsScope(loaded)
      /\ Len(loaded.bytes) < 256 => /\ Onward(s, S, loaded, b) /\ loaded.length \in Nat
                                    /\ s.length + m <= loaded.length
  BY LoadsRefer
<1>2. s.length \in Nat
  BY ReferringScope
<1>3. Len(made.bytes) < 255
  OBVIOUS
<1>4. Takes(OP.CLOSURE, xs)
  <2>1. OP.CLOSURE \in OpCode /\ Len(Widths(OP.CLOSURE)) = 2
    BY CollectShape
  <2>2. xs \in Seq(Nat) /\ Len(xs) = 2
    BY <1>1
  <2> HIDE DEF xs
  <2> QED BY <2>1, <2>2 DEF Takes
<1>5. m \in Byte => xs \in b.closures
  OBVIOUS
<1>6. xs[1] = k /\ xs[2] = m /\ xs = <<xs[1], xs[2]>>
  OBVIOUS
<1> HIDE DEF loaded, m, xs
<1>7. /\ Len(loaded.bytes) <= Len(made.bytes)
      /\ Len(loaded.bytes) \in Nat /\ Len(made.bytes) \in Nat
  <2>1. IsScope(made) /\ Len(loaded.bytes) <= Len(made.bytes)
    BY <1>1, <1>4, EmitFields
  <2> QED BY <1>1, <2>1 DEF IsScope, ScopeSet
<1>8. Len(loaded.bytes) < 256 /\ Len(made.bytes) < 256
  BY <1>3, <1>7
<1>9. m \in Byte
  <2>1. loaded.length <= Len(loaded.bytes) /\ loaded.length \in Nat /\ s.length + m <= loaded.length
    BY <1>1, <1>8 DEF IsScope
  <2>2. m <= 255
    BY <1>1, <1>2, <1>7, <1>8, <2>1
  <2> QED BY <1>1, <2>2 DEF Byte
<1>10. Refers(OP.CLOSURE, xs, b)
  <2>1. <<xs[1], xs[2]>> \in b.closures
    BY <1>5, <1>6, <1>9
  <2> QED BY <2>1, Opcodes DEF Refers
<1>11. PICK T : Referring(loaded, T, b)
  BY <1>1, <1>8 DEF Onward
<1>12. Referring(made, T \cup {made.length}, b)
  BY <1>4, <1>8, <1>10, <1>11, EmitRefers
<1> QED BY <1>12 DEF made, loaded, xs, m

(* The function that is left.                                              *)
LEMMA FunctionReturns ==
    ASSUME NEW Trees, OperandInv(Trees), BuffersShort, todo # << >>, Len(scopes) > 1
    PROVE  ReferringCode(Code(Returning(Top)), BoundsOf(tables, pool, Len(scopes)))
<1> DEFINE n == Len(scopes)
           b == BoundsOf(tables, pool, n)
<1>1. PICK D, a, c : Working(D, a, c)
  BY SomeWork DEF OperandInv
<1>2. Extended(tables, tables) /\ Longer(pool, pool) /\ n \in 1..Len(scopes)
  BY ExtendedItself, LongerItself, OpenScopes DEF OperandInv, ReferenceInv
<1>3. WorksIn(Top, DOMAIN D[n], b)
  BY <1>1, <1>2, TopWorks
<1>4. Len(Top.bytes) < 255
  BY <1>2 DEF BuffersShort, FewBytes, Top
<1> QED BY <1>3, <1>4, ReturnRefers DEF WorksIn

LEMMA UsedFree ==
    ASSUME NEW code, NEW b, ReferringCode(code, b)
    PROVE  Used(code, OP.GET_FREE) \subseteq b.free
<1>1. ASSUME NEW f \in Used(code, OP.GET_FREE) PROVE f \in b.free
  <2>1. PICK ins \in Instrs(code) : ins.op = OP.GET_FREE /\ f = ins.operands[1]
    BY DEF Used
  <2>2. Refers(ins.op, ins.operands, b)
    BY InstrRefers
  <2> QED BY <2>1, <2>2, Opcodes DEF Refers
<1> QED BY <1>1


LEMMA FunctionCloses ==
    ASSUME NEW Trees, OperandInv(Trees), FunctionEnd, BuffersShort, BuffersShort'
    PROVE  ReferenceInv'
<1> DEFINE n == Len(scopes)
           m == n - 1
           table == tables[Len(tables)]
           free == table.free
           code == Code(Returning(Top))
           object == CompiledFunction(code, table.num, Head(todo).params)
           outer == SubSeq(scopes, 1, n - 1)
           made == Emit(EmitLoads(outer[Len(outer)], free), OP.CLOSURE, <<NextConstant, Len(free)>>)
           b == BoundsOf(tables, pool, n)
           c == BoundsOf(tables', pool', m)
           f == FunctionBounds(tables', pool', table.num)
<1>1. /\ Resuming("endFunction") /\ AddConstant(object) /\ tables' = OuterTables(tables)
      /\ scopes' = [outer EXCEPT ![Len(outer)] = made] /\ todo # << >>
  BY DEF FunctionEnd, Resuming
<1>2. /\ AreTables(tables) /\ n = Len(tables) /\ n \in Nat /\ IsSequence(scopes)
      /\ IsSequence(pool) /\ Len(pool) \in Nat
  BY OpenScopes DEF OperandInv
<1>3. n > 1
  <2>1. Head(todo).do = "endFunction"
    BY <1>1 DEF Resuming
  <2>2. CompilerInv(Trees) /\ err = NULL
    BY <1>1 DEF OperandInv, CodeInv, CompilerInv, CallsInv
  <2>3. Len(tables) > 1
    BY <1>1, <2>1, <2>2, OpenTail DEF CompilerInv, CallsInv
  <2> QED BY <1>2, <2>3
<1>4. /\ table \in Symbols!Table /\ table = tables[n] /\ table.num \in Nat
      /\ free \in Seq(Symbols!Symbol) /\ Len(free) \in Nat
  <2>1. table \in Symbols!Table /\ table = tables[n]
    BY <1>2 DEF AreTables
  <2> QED BY <2>1, TableFields
(* The code of the function.                                               *)
<1>5. ReferringCode(code, b)
  BY <1>1, <1>3, FunctionReturns
<1>6. b.free = Frees(tables, n) /\ b.locals = Slots(tables, n) /\ b.globals = Slots(tables, 1)
      /\ b.constants = Constants(pool) /\ b.closures = Makeable(pool)
  <2>1. n # 1
    BY <1>2, <1>3
  <2> QED BY <2>1 DEF BoundsOf
<1>7. \A x \in Used(code, OP.GET_FREE) : x < Len(free)
  <2>1. Used(code, OP.GET_FREE) \subseteq Frees(tables, n)
    BY <1>5, <1>6, UsedFree
  <2>2. Frees(tables, n) = 0..Len(free) - 1
    BY <1>4 DEF Frees
  <2> HIDE DEF free, code
  <2> QED BY <1>4, <2>1, <2>2
<1>8. /\ object.t = "COMPILED_FUNCTION" /\ object.code = code /\ object.locals = table.num
  BY DEF CompiledFunction
<1> HIDE DEF b, object, code
(* The tables that are left.                                               *)
<1>9. AreTables(tables')
  BY <1>1, <1>2, <1>3, TablesLeave DEF AreTables
<1>10. /\ TablesReach(tables') /\ Len(tables') = m /\ \A k \in 1..m : tables'[k] = tables[k]
       /\ \A i \in 1..Len(free) : Reaches(tables', m, free[i])
  <2>1. TablesReach(tables) /\ Len(tables) > 1
    BY <1>2, <1>3 DEF OperandInv, ReferenceInv
  <2> QED BY <1>1, <1>2, <2>1, LeaveReaches
<1>11. \A k \in 1..m : Wider(tables, tables', k)
  BY <1>10, WiderSame
<1>12. m \in Nat /\ m > 0 /\ 1 \in 1..m /\ m \in 1..m
  BY <1>2, <1>3
(* The pool.                                                               *)
<1>13. /\ Longer(pool, pool') /\ Len(pool') = Len(pool) + 1 /\ Len(pool) \in Word
       /\ NextConstant = Len(pool) /\ pool'[Len(pool) + 1] = object
       /\ \A i \in Len(pool) + 1..Len(pool') : i = Len(pool) + 1
  BY <1>1, ConstantAdded
<1> HIDE DEF m, free, table
<1>14. FunctionRefers(tables', pool', object)
  <2>1. Within(b, f)
    <3>1. Constants(pool) \subseteq Constants(pool') /\ Makeable(pool) \subseteq Makeable(pool')
      BY <1>13, LongerConstants
    <3>2. Slots(tables, 1) \subseteq Slots(tables', 1)
      BY <1>11, <1>12 DEF Wider
    <3>3. Slots(tables, n) = 0..table.num - 1
      BY <1>4 DEF Slots
    <3>4. Frees(tables, n) \subseteq Nat
      BY <1>4 DEF Frees
    <3> QED BY <1>6, <3>1, <3>2, <3>3, <3>4 DEF Within, FunctionBounds
  <2>2. PICK S : Tiled(code, S) /\ Refs(code, S, b)
    BY <1>5 DEF ReferringCode
  <2>3. Refs(code, S, f)
    BY <2>1, <2>2, RefsWithin
  <2> QED BY <1>4, <1>8, <2>2, <2>3 DEF FunctionRefers, ReferringCode
<1>15. PoolRefers(tables', pool')
  <2>1. Wider(tables, tables', 1)
    BY <1>11, <1>12
  <2>2. \A i \in Len(pool) + 1..Len(pool') : FunctionRefers(tables', pool', pool'[i])
    BY <1>13, <1>14
  <2> QED BY <1>13, <2>1, <2>2, PoolRefersGrows DEF OperandInv, ReferenceInv
(* The scopes that are left.                                               *)
<1>16. IsSequence(outer) /\ Len(outer) = m /\ \A k \in 1..m : outer[k] = scopes[k]
  <2>1. n > 0
    BY <1>2, <1>3
  <2> QED BY <1>2, <2>1, SequenceFront DEF m
<1> HIDE DEF outer
<1>17. ScopesRefer(outer, tables', pool')
  <2>1. ASSUME NEW k \in 1..Len(outer) PROVE RefersIn(outer[k], tables, pool, k)
    <3>1. k \in 1..m /\ k \in 1..n
      BY <1>2, <1>16, <2>1 DEF m
    <3>2. ScopesRefer(scopes, tables, pool)
      BY DEF OperandInv, ReferenceInv
    <3> QED BY <1>16, <3>1, <3>2 DEF ScopesRefer
  <2>2. ScopesRefer(outer, tables, pool)
    BY <2>1 DEF ScopesRefer
  <2>3. Wider(tables, tables', 1) /\ \A k \in 1..Len(outer) : Wider(tables, tables', k)
    BY <1>11, <1>12, <1>16
  <2> QED BY <1>13, <2>2, <2>3, ScopesReferGrows
<1>18. \E T : Referring(made, T, c)
  <2>1. PICK S : Referring(outer[m], S, c)
    BY <1>12, <1>16, <1>17 DEF ScopesRefer, RefersIn
  <2>2. Bounds(c)
    BY <1>9, <1>10, <1>12, BoundsAre
  <2>3. \A i \in 1..Len(free) : Loadable(free[i], c)
    BY <1>10, ReachesLoads
  <2>4. Len(free) \in Byte => <<Len(pool), Len(free)>> \in c.closures
    <3>1. Len(pool) < Len(pool')
      BY <1>2, <1>13
    <3>2. Suffices(pool', Len(pool), Len(free))
      BY <1>7, <1>8, <1>13 DEF Suffices
    <3>3. Len(free) \in Byte => <<Len(pool), Len(free)>> \in Makeable(pool')
      BY <1>13, <3>1, <3>2 DEF Makeable
    <3> QED BY <3>3 DEF BoundsOf
  <2>5. Len(made.bytes) < 255
    <3>1. WithTop(scopes', outer, made)
      BY <1>1, <1>12, <1>16 DEF WithTop
    <3>2. Len(scopes') = m /\ scopes'[m] = made
      BY <1>12, <1>16, <3>1, TopOf
    <3> QED BY <1>12, <3>2 DEF BuffersShort, FewBytes
  <2>6. made = Emit(EmitLoads(outer[m], free), OP.CLOSURE, <<Len(pool), Len(free)>>)
    BY <1>13, <1>16
  <2> HIDE DEF made, c
  <2> QED BY <1>2, <1>4, <2>1, <2>2, <2>3, <2>4, <2>5, <2>6, ClosureRefers
<1>19. RefersIn(made, tables', pool', Len(outer))
  BY <1>16, <1>18 DEF RefersIn
<1>20. ScopesRefer(scopes', tables', pool')
  <2> HIDE DEF made
  <2> QED BY <1>1, <1>12, <1>16, <1>17, <1>19, TopRefers
<1> QED BY <1>10, <1>15, <1>20 DEF ReferenceInv


-----------------------------------------------------------------------------
(* The invariant is one *)

LEMMA ReferencesStep ==
    ASSUME NEW Trees, HoldsParts(Trees), Balanced(Trees), OperandInv(Trees), NextCompiler,
           BuffersShort, BuffersShort'
    PROVE  ReferenceInv'
<1>1. ASSUME UNCHANGED <<tables, scopes, pool>> PROVE ReferenceInv'
  BY <1>1, CallsRefer
<1>2. CASE ExpressionStatement \/ ReturnStatement \/ InfixExpression \/ PrefixExpression
           \/ ArrayLiteral \/ HashLiteral \/ IndexExpression \/ CallExpression \/ IfExpression
  BY <1>1, <1>2 DEF ExpressionStatement, ReturnStatement, InfixExpression, PrefixExpression,
                    ArrayLiteral, HashLiteral, IndexExpression, CallExpression, IfExpression
<1> QED BY <1>2, LetRefers, OperatorRefers, ConstantRefers, BooleanRefers, IdentifierRefers,
           ConsequenceRefers, AlternativeRefers, EndRefers, FunctionOpens, FunctionCloses
           DEF NextCompiler

LEMMA OperandStep ==
    ASSUME NEW Trees, HoldsParts(Trees), Balanced(Trees), OperandInv(Trees), NextCompiler,
           BuffersShort, BuffersShort'
    PROVE  OperandInv(Trees)'
BY CodeStep, ReferencesStep DEF OperandInv

LEMMA OperandStill ==
    ASSUME NEW Trees, OperandInv(Trees), UNCHANGED compilerVars
    PROVE  OperandInv(Trees)'
<1>1. CodeInv(Trees)'
  BY CodeStill DEF OperandInv
<1>2. ReferenceInv'
  BY CallsRefer DEF compilerVars
<1> QED BY <1>1, <1>2 DEF OperandInv

(* The table of the builtins refers to no slot.                            *)
LEMMA BuiltinsReach ==
    TablesReach(<< Symbols!BuiltinTable >>)
<1> DEFINE t == Symbols!BuiltinTable
           ts == << t >>
<1>1. Len(ts) = 1 /\ ts[1] = t
  OBVIOUS
<1>2. ASSUME NEW n \in Names, t.store[n] # NULL PROVE Reaches(ts, 1, t.store[n])
  <2>1. t.store[n] = Symbols!NewSymbol(n, BuiltinIndex[n], "BUILTIN")
    BY <1>2 DEF Symbols!BuiltinTable
  <2>2. t.store[n].scope = "BUILTIN"
    BY <2>1 DEF Symbols!NewSymbol
  <2> QED BY <2>2 DEF Reaches
<1> HIDE DEF t, ts
<1>3. StoreReaches(ts, 1) /\ CapturesReach(ts, 1)
  BY <1>1, <1>2 DEF StoreReaches, CapturesReach
<1>4. TablesReach(ts)
  BY <1>1, <1>3 DEF TablesReach
<1> QED BY <1>4 DEF ts, t

LEMMA OneScopeRefers ==
    ASSUME NEW ts, NEW objects
    PROVE  ScopesRefer(<< EmptyScope >>, ts, objects)
<1>1. Len(<< EmptyScope >>) = 1 /\ << EmptyScope >>[1] = EmptyScope
  OBVIOUS
<1> QED BY <1>1, EmptyRefers DEF ScopesRefer

LEMMA EmptyPoolRefers ==
    ASSUME NEW ts
    PROVE  PoolRefers(ts, << >>)
BY DEF PoolRefers

LEMMA OperandsBegin ==
    ASSUME NEW Trees, Programs \subseteq ProgramsOf(Trees), InitCompiler
    PROVE  OperandInv(Trees)
<1>1. CodeInv(Trees)
  BY CodeBegins DEF ProgramsOf
<1>2. ReferenceInv
  BY BuiltinsReach, OneScopeRefers, EmptyPoolRefers DEF InitCompiler, ReferenceInv
<1> QED BY <1>1, <1>2 DEF OperandInv

-----------------------------------------------------------------------------
(* What the invariant says of the operands *)

(* The streams share what is there for all.                                *)
Sharing(b) ==
    /\ b.constants = Constants(pool) /\ b.closures = Makeable(pool)
    /\ b.globals = Slots(tables, 1)

LEMMA UsedRefers ==
    ASSUME NEW code, NEW b, ReferringCode(code, b), NEW op, NEW x \in Used(code, op)
    PROVE  \E xs : Refers(op, xs, b) /\ x = xs[1]
<1>1. PICK ins \in Instrs(code) : ins.op = op /\ x = ins.operands[1]
  BY DEF Used
<1>2. Refers(op, ins.operands, b)
  BY <1>1, InstrRefers
<1> QED BY <1>1, <1>2

LEMMA MainRefers ==
    ASSUME NEW Trees, OperandInv(Trees)
    PROVE  ReferringCode(Code(scopes[1]), BoundsOf(tables, pool, 1))
<1>1. 1 \in 1..Len(scopes)
  BY OpenScopes DEF OperandInv
<1>2. RefersIn(scopes[1], tables, pool, 1)
  BY <1>1 DEF OperandInv, ReferenceInv, ScopesRefer
<1> QED BY <1>2 DEF RefersIn, Referring, ReferringCode

LEMMA FunctionsRefer ==
    ASSUME NEW Trees, OperandInv(Trees), NEW fn \in Functions
    PROVE  /\ fn.locals \in Nat
           /\ ReferringCode(fn.code, FunctionBounds(tables, pool, fn.locals))
<1>1. DOMAIN pool = 1..Len(pool)
  BY OpenScopes, SequenceForm DEF OperandInv
<1>2. PICK i \in 1..Len(pool) : fn = pool[i] /\ pool[i].t = "COMPILED_FUNCTION"
  BY <1>1 DEF Functions
<1> QED BY <1>2 DEF OperandInv, ReferenceInv, PoolRefers, FunctionRefers

LEMMA StreamsRefer ==
    ASSUME NEW Trees, OperandInv(Trees), NEW code \in Streams
    PROVE  \E b : ReferringCode(code, b) /\ Sharing(b)
<1>1. CASE code = Code(scopes[1])
  <2>1. Sharing(BoundsOf(tables, pool, 1))
    BY DEF Sharing, BoundsOf
  <2> QED BY <1>1, <2>1, MainRefers
<1>2. ASSUME NEW fn \in Functions, code = fn.code
      PROVE  \E b : ReferringCode(code, b) /\ Sharing(b)
  <2>1. Sharing(FunctionBounds(tables, pool, fn.locals))
    BY DEF Sharing, FunctionBounds
  <2> QED BY <1>2, <2>1, FunctionsRefer
<1> QED BY <1>1, <1>2 DEF Streams

LEMMA ConstantsExist ==
    ASSUME NEW Trees, OperandInv(Trees), NEW code \in Streams, NEW c \in Used(code, OP.CONSTANT)
    PROVE  c < Len(pool) /\ pool[c + 1].t # "COMPILED_FUNCTION"
<1>1. PICK b : ReferringCode(code, b) /\ Sharing(b)
  BY StreamsRefer
<1>2. PICK xs : Refers(OP.CONSTANT, xs, b) /\ c = xs[1]
  BY <1>1, UsedRefers
<1>3. c \in Constants(pool)
  BY <1>1, <1>2 DEF Refers, Sharing
<1> QED BY <1>3 DEF Constants

LEMMA GlobalsExist ==
    ASSUME NEW Trees, OperandInv(Trees), NEW code \in Streams,
           NEW g \in Used(code, OP.GET_GLOBAL) \cup Used(code, OP.SET_GLOBAL)
    PROVE  g < tables[1].num
<1>1. PICK b : ReferringCode(code, b) /\ Sharing(b)
  BY StreamsRefer
<1>2. PICK op \in {OP.GET_GLOBAL, OP.SET_GLOBAL} : g \in Used(code, op)
  OBVIOUS
<1>3. PICK xs : Refers(op, xs, b) /\ g = xs[1]
  BY <1>1, <1>2, UsedRefers
<1>4. g \in Slots(tables, 1)
  BY <1>1, <1>2, <1>3 DEF Refers, Sharing
<1>5. tables[1].num \in Nat
  BY OpenScopes, NumOfTable DEF OperandInv
<1> QED BY <1>4, <1>5 DEF Slots

LEMMA ClosuresMakeable ==
    ASSUME NEW Trees, OperandInv(Trees), NEW cl \in Closures
    PROVE  /\ cl.operands[1] < Len(pool)
           /\ Suffices(pool, cl.operands[1], cl.operands[2])
<1>1. PICK code \in Streams : cl \in Instrs(code)
  BY DEF Closures
<1>2. cl.op = OP.CLOSURE
  BY DEF Closures
<1>3. PICK b : ReferringCode(code, b) /\ Sharing(b)
  BY <1>1, StreamsRefer
<1>4. Refers(OP.CLOSURE, cl.operands, b)
  BY <1>1, <1>2, <1>3, InstrRefers
<1> DEFINE x == <<cl.operands[1], cl.operands[2]>>
<1>5. x \in Makeable(pool)
  BY <1>3, <1>4 DEF Refers, Sharing
<1>6. x[1] < Len(pool) /\ Suffices(pool, x[1], x[2])
  BY <1>5 DEF Makeable
<1> QED BY <1>6

LEMMA LocalsExist ==
    ASSUME NEW Trees, OperandInv(Trees), NEW fn \in Functions,
           NEW l \in Used(fn.code, OP.GET_LOCAL) \cup Used(fn.code, OP.SET_LOCAL)
    PROVE  l < fn.locals
<1> DEFINE b == FunctionBounds(tables, pool, fn.locals)
<1>1. fn.locals \in Nat /\ ReferringCode(fn.code, b)
  BY FunctionsRefer
<1>2. PICK op \in {OP.GET_LOCAL, OP.SET_LOCAL} : l \in Used(fn.code, op)
  OBVIOUS
<1>3. b.locals = 0..fn.locals - 1
  BY DEF FunctionBounds
<1> HIDE DEF b
<1>4. PICK xs : Refers(op, xs, b) /\ l = xs[1]
  BY <1>1, <1>2, UsedRefers
<1>5. l \in 0..fn.locals - 1
  BY <1>2, <1>3, <1>4 DEF Refers
<1> QED BY <1>1, <1>5

LEMMA MainStands ==
    ASSUME NEW Trees, OperandInv(Trees), NEW ins \in Instrs(Code(scopes[1]))
    PROVE  ins.op \notin {OP.GET_LOCAL, OP.SET_LOCAL, OP.GET_FREE, OP.CURRENT_CLOSURE}
<1> DEFINE b == BoundsOf(tables, pool, 1)
<1>1. b.locals = {} /\ b.free = {}
  BY DEF BoundsOf
<1>3. b.inside = (1 > 1)
  BY Zenon DEF BoundsOf
<1>4. ~(1 > 1)
  OBVIOUS
<1> HIDE DEF b
<1>2. Refers(ins.op, ins.operands, b)
  BY MainRefers, InstrRefers DEF b
<1> QED BY <1>1, <1>2, <1>3, <1>4 DEF Refers

LEMMA OperandsThere ==
    ASSUME NEW Trees, OperandInv(Trees)
    PROVE  OperandsExist
<1>1. ASSUME NEW cl \in Closures
      PROVE  /\ cl.operands[1] < Len(pool)
             /\ LET fn == pool[cl.operands[1] + 1]
                IN  /\ fn.t = "COMPILED_FUNCTION"
                    /\ \A f \in Used(fn.code, OP.GET_FREE) : f < cl.operands[2]
  BY ClosuresMakeable DEF Suffices
<1> QED BY <1>1, ConstantsExist, GlobalsExist, LocalsExist, MainStands, Zenon DEF OperandsExist


-----------------------------------------------------------------------------
(* Everything an instruction refers to exists, whatever program is         *)
(* compiled: its constant is in the pool, its closure is made of a         *)
(* function and captures as much as that function uses, its global has     *)
(* been counted and its local has a slot in the frame.  It is so up to the *)
(* constant that the pool's array has no room for, where compiling is      *)
(* undefined; the buffers are shorter than 255 bytes.                      *)
THEOREM CompiledOperandsExist ==
    ASSUME NEW CONSTANT Trees, HoldsParts(Trees), Balanced(Trees), Programs \subseteq ProgramsOf(Trees)
    PROVE  SpecCompiler /\ []BuffersShort => []OperandsExist
<1>1. InitCompiler => OperandInv(Trees)
  BY OperandsBegin
<1>2. /\ OperandInv(Trees) /\ [NextCompiler]_compilerVars
      /\ BuffersShort /\ BuffersShort'
      => OperandInv(Trees)'
  BY OperandStep, OperandStill
<1>3. OperandInv(Trees) => OperandsExist
  BY OperandsThere
<1> QED BY <1>1, <1>2, <1>3, PTL DEF SpecCompiler

-----------------------------------------------------------------------------
(* The same over the lines of a session, whichever of them fail *)

OperandSessionInv(Trees) == CodeSessionInv(Trees) /\ ReferenceInv

(* A line keeps the table of the globals and the pool of the lines before  *)
(* it.                                                                     *)
LEMMA LineRefers ==
    ASSUME NEW Trees, OperandSessionInv(Trees), ReadLine
    PROVE  ReferenceInv'
<1>1. tables' = << tables[1] >> /\ scopes' = << EmptyScope >> /\ UNCHANGED pool
  BY DEF ReadLine, Begin, GlobalTable
<1>2. /\ AreTables(tables) /\ 1 \in 1..Len(tables) /\ TablesReach(tables) /\ PoolRefers(tables, pool)
      /\ IsSequence(pool) /\ Len(pool) \in Nat
  BY OpenScopes, NumOfTable DEF OperandSessionInv, CodeSessionInv, ReferenceInv
<1>3. Len(tables') = 1 /\ tables'[1] = tables[1]
  BY <1>1
<1>4. Wider(tables, tables', 1)
  BY <1>3, WiderSame
<1>5. TablesReach(tables')
  <2>1. StoreReaches(tables, 1)
    BY <1>2 DEF TablesReach
  <2>2. StoreReaches(tables', 1)
    BY <1>3, <1>4, <2>1, ReachesWider DEF StoreReaches
  <2>3. CapturesReach(tables', 1)
    BY DEF CapturesReach
  <2> QED BY <1>3, <2>2, <2>3 DEF TablesReach
<1>6. Longer(pool, pool') /\ ~\E i : i \in Len(pool) + 1..Len(pool')
  BY <1>1, <1>2, LongerItself
<1>7. PoolRefers(tables', pool')
  BY <1>2, <1>4, <1>6, PoolRefersGrows
<1>8. ScopesRefer(scopes', tables', pool')
  BY <1>1, OneScopeRefers
<1> QED BY <1>5, <1>7, <1>8 DEF ReferenceInv

LEMMA OperandSessionStep ==
    ASSUME NEW Trees, HoldsParts(Trees), Balanced(Trees), OperandSessionInv(Trees),
           [Next]_monkeyVars, BuffersShort, BuffersShort'
    PROVE  OperandSessionInv(Trees)'
<1>1. CodeSessionInv(Trees)'
  BY CodeSessionStep DEF OperandSessionInv
<1>2. OperandInv(Trees)
  BY DEF OperandSessionInv, OperandInv, CodeSessionInv
<1>s. SUFFICES ReferenceInv'
  BY <1>1 DEF OperandSessionInv
<1>3. CASE CompileStep
  BY <1>2, <1>3, ReferencesStep DEF CompileStep
<1>4. ASSUME UNCHANGED compilerVars PROVE ReferenceInv'
  BY <1>2, <1>4, CallsRefer DEF compilerVars
<1>5. CASE MachineStep
  <2>1. UNCHANGED compilerVars
    BY <1>5, MachineKeepsPool DEF MachineStep, compilerVars
  <2> QED BY <1>4, <2>1
<1>6. CASE CompilationFailed \/ ArrayOverrun \/ Execute \/ Report \/ UNCHANGED monkeyVars
  <2>1. UNCHANGED compilerVars
    BY <1>6 DEF CompilationFailed, ArrayOverrun, Execute, Report, monkeyVars
  <2> QED BY <1>4, <2>1
<1> QED BY <1>3, <1>5, <1>6, LineRefers DEF Next, OperandSessionInv

LEMMA OperandSessionBegins ==
    ASSUME NEW Trees, Sessions \subseteq Seq(ProgramsOf(Trees)), Init
    PROVE  OperandSessionInv(Trees)
<1>1. CodeSessionInv(Trees)
  BY CodeSessionBegins
<1>2. ReferenceInv
  BY BuiltinsReach, OneScopeRefers, EmptyPoolRefers DEF Init, ReferenceInv
<1> QED BY <1>1, <1>2 DEF OperandSessionInv

(* Over a session, whichever lines fail and wherever, what the machine is  *)
(* handed refers to nothing that is not there: the globals and the pool    *)
(* that earlier lines left are the ones its code was compiled with, as     *)
(* long as the pool they share is within its array.                        *)
THEOREM SessionOperandsExist ==
    ASSUME NEW CONSTANT Trees, HoldsParts(Trees), Balanced(Trees),
           Sessions \subseteq Seq(ProgramsOf(Trees))
    PROVE  Spec /\ []BuffersShort => []OperandsExist
<1>1. Init => OperandSessionInv(Trees)
  BY OperandSessionBegins
<1>2. /\ OperandSessionInv(Trees) /\ [Next]_monkeyVars
      /\ BuffersShort /\ BuffersShort'
      => OperandSessionInv(Trees)'
  BY OperandSessionStep
<1>3. OperandSessionInv(Trees) => OperandsExist
  BY OperandsThere DEF OperandSessionInv, OperandInv, CodeSessionInv
<1> QED BY <1>1, <1>2, <1>3, PTL DEF Spec
=============================================================================
