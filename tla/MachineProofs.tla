--------------------------- MODULE MachineProofs ----------------------------
(***************************************************************************)
(* Proofs that the machine keeps its stack in order on the code that the   *)
(* compiler hands to it: the frames lie one above the other, every         *)
(* instruction finds the operands its code has put there, the closure a    *)
(* function runs through stays below its locals, what the slots hold are   *)
(* values of the language, and nothing undefined is done but for six       *)
(* causes.                                                                 *)
(***************************************************************************)
EXTENDS OperandProofs

-----------------------------------------------------------------------------
(* Running verified code *)

Runs(code, isMain) ==
    code \in Seq(Byte) /\ Verifies(code, isMain) /\ Tiled(code, Starts(code))

(* An operand is made of bytes of the code.                                *)
LEMMA OperandsRead ==
    ASSUME NEW code \in Seq(Byte), NEW p \in Nat, NEW op, ByteAt(code, p) = op,
           p + InstructionLength(op) <= Len(code)
    PROVE  /\ Width(op, 1) # 0 => Operands(code, p)[1] \in Word
           /\ Width(op, 1) = 1 => Operands(code, p)[1] \in Byte
           /\ Width(op, 2) # 0 => Operands(code, p)[2] \in Byte
<1> DEFINE xs == Operands(code, p)
<1>1. /\ Width(op, 1) \in {0, 1, 2} /\ Width(op, 2) \in {0, 1}
      /\ Width(op, 1) # 0 => 1 \in DOMAIN Widths(op)
      /\ Width(op, 2) # 0 => 2 \in DOMAIN Widths(op) /\ Width(op, 1) = 2
      /\ InstructionLength(op) = 1 + Width(op, 1) + Width(op, 2)
  BY Shapes DEF InstructionLength
<1>2. ASSUME NEW i \in Nat, i < InstructionLength(op)
      PROVE  ByteAt(code, p + i) \in Byte
  <2>1. p + i + 1 \in 1..Len(code)
    BY <1>1, <1>2
  <2> QED BY <2>1, ElementOfSeq DEF ByteAt
<1>3. /\ 1 \in DOMAIN Widths(op) =>
           xs[1] = IF Width(op, 1) = 2 THEN ReadUint16(code, p + 1) ELSE ByteAt(code, p + 1)
      /\ 2 \in DOMAIN Widths(op) =>
           xs[2] = IF Width(op, 2) = 2 THEN ReadUint16(code, p + (1 + Width(op, 1)))
                   ELSE ByteAt(code, p + (1 + Width(op, 1)))
  BY DEF Operands, ReadOperands, OperandOffset
<1>4. Width(op, 1) # 0 => ByteAt(code, p + 1) \in Byte
  BY <1>1, <1>2
<1>5. Width(op, 1) = 2 => ByteAt(code, p + 2) \in Byte /\ ReadUint16(code, p + 1) \in Word
  <2>1. (p + 1) + 1 = p + 2
    OBVIOUS
  <2>2. Width(op, 1) = 2 => ByteAt(code, p + 2) \in Byte
    BY <1>1, <1>2
  <2> QED BY <1>4, <2>1, <2>2, WordMade DEF ReadUint16
<1>6. Width(op, 2) # 0 => ByteAt(code, p + (1 + Width(op, 1))) \in Byte
  BY <1>1, <1>2
<1>7. Byte \subseteq Word
  BY DEF Byte, Word
<1> HIDE DEF xs
<1>8. /\ Width(op, 1) # 0 => xs[1] \in Word
      /\ Width(op, 1) = 1 => xs[1] \in Byte
      /\ Width(op, 2) # 0 => xs[2] \in Byte
  BY <1>1, <1>3, <1>4, <1>5, <1>6, <1>7
<1> QED BY <1>8 DEF xs

(* What each instruction takes off the stack.                              *)
LEMMA PopsOf ==
    ASSUME NEW code, NEW p, NEW op, ByteAt(code, p) = op
    PROVE  /\ op \in Loads \cup {OP.JUMP, OP.RETURN} => Pops(code, p) = 0
           /\ op \in BinaryOps => Pops(code, p) = 2
           /\ op \in {OP.ARRAY, OP.HASH} => Pops(code, p) = Operands(code, p)[1]
           /\ op = OP.CALL => Pops(code, p) = Operands(code, p)[1] + 1
           /\ op = OP.CLOSURE => Pops(code, p) = Operands(code, p)[2]
           /\ op \notin Loads \cup {OP.JUMP, OP.RETURN} \cup BinaryOps
                \cup {OP.ARRAY, OP.HASH, OP.CALL, OP.CLOSURE} => Pops(code, p) = 1
BY Opcodes DEF Pops, Loads, BinaryOps

LEMMA TwoNotNone == 2 # 0
OBVIOUS

LEMMA OneNotNone == 1 # 0
OBVIOUS

LEMMA PopsNumber ==
    ASSUME NEW code \in Seq(Byte), NEW p \in Nat, NEW op, ByteAt(code, p) = op,
           p + InstructionLength(op) <= Len(code)
    PROVE  Pops(code, p) \in Nat /\ Pushes(code, p) \in {0, 1}
<1>1. Byte \subseteq Nat /\ Word \subseteq Nat
  BY DEF Byte, Word
<1>2. Pushes(code, p) \in {0, 1}
  BY DEF Pushes
<1>3. CASE op \in {OP.ARRAY, OP.HASH, OP.CALL}
  <2>1. op \in TwoByteOps \cup OneByteOps
    BY <1>3, Zenon DEF TwoByteOps, OneByteOps
  <2>2. Operands(code, p)[1] \in Nat
    <3>1. Width(op, 1) # 0
      BY <2>1, Zenon, WidthsOf, TwoNotNone, OneNotNone
    <3> QED BY <1>1, <3>1, OperandsRead
  <2>3. Pops(code, p) = Operands(code, p)[1] \/ Pops(code, p) = Operands(code, p)[1] + 1
    BY <1>3, PopsOf
  <2> QED BY <1>2, <2>2, <2>3
<1>4. CASE op = OP.CLOSURE
  <2>1. Operands(code, p)[2] \in Nat
    BY <1>1, <1>4, OperandsRead, WidthsOf
  <2> QED BY <1>2, <1>4, <2>1, PopsOf
<1>5. CASE op \notin {OP.ARRAY, OP.HASH, OP.CALL, OP.CLOSURE}
  <2>1. Pops(code, p) \in {0, 1, 2}
    BY <1>5, PopsOf
  <2> QED BY <1>2, <2>1
<1> QED BY <1>3, <1>4, <1>5

(* What the pass has reached it keeps, and it goes on from there.          *)
LEMMA ForwardKeeps ==
    ASSUME NEW code, NEW before, NEW p
    PROVE  before \subseteq Forward(code, before, p)
BY DEF Forward

LEMMA ForwardGoes ==
    ASSUME NEW code, NEW before, NEW p, NEW d, <<p, d>> \in before, NEW q \in Successors(code, p)
    PROVE  <<q, d - Pops(code, p) + Pushes(code, p)>> \in Forward(code, before, p)
<1> DEFINE here == {s \in before : s[1] = p}
           left == {<<t, s[2] - Pops(code, p) + Pushes(code, p)>> : t \in Successors(code, p), s \in here}
<1>1. <<p, d>> \in here /\ <<p, d>>[2] = d
  OBVIOUS
<1>2. \A s \in here : <<q, s[2] - Pops(code, p) + Pushes(code, p)>> \in left
  <2> HIDE DEF here
  <2> QED OBVIOUS
<1>3. Forward(code, before, p) = before \cup left
  BY DEF Forward
<1> HIDE DEF here, left
<1>4. <<q, <<p, d>>[2] - Pops(code, p) + Pushes(code, p)>> \in left
  BY <1>1, <1>2, Zenon
<1> QED BY <1>1, <1>3, <1>4

LEMMA PassSteps ==
    ASSUME NEW code, NEW f, NEW n \in Nat, IsPass(code, f, n)
    PROVE  /\ f[0] = {<<0, 0>>}
           /\ \A i \in 1..n : f[i] = IF i - 1 \in Starts(code) THEN Forward(code, f[i-1], i - 1)
                                    ELSE f[i-1]
<1>1. \A i \in 0..n : f[i] = IF i = 0 THEN {<<0, 0>>}
                             ELSE IF i - 1 \in Starts(code) THEN Forward(code, f[i-1], i - 1)
                             ELSE f[i-1]
  BY DEF IsPass, Pass
<1>2. 0 \in 0..n /\ \A i \in 1..n : i \in 0..n /\ i # 0
  OBVIOUS
<1> QED BY <1>1, <1>2, Zenon

LEMMA PassKeeps ==
    ASSUME NEW code, NEW f, NEW n \in Nat, IsPass(code, f, n),
           NEW i \in 0..n, NEW j \in 0..n, i <= j, NEW r \in f[i]
    PROVE  r \in f[j]
<1> DEFINE Lost == {k \in 0..n : i <= k /\ r \notin f[k]}
<1>1. ASSUME Lost # {} PROVE FALSE
  <2>1. PICK k \in Lost : \A l \in Lost : k <= l
    <3>1. Lost \subseteq Nat
      OBVIOUS
    <3> QED BY <1>1, <3>1, LeastNumber, Zenon
  <2>2. k # i /\ k \in 1..n /\ k - 1 \in 0..n /\ i <= k - 1
    BY <2>1
  <2>3. r \in f[k-1]
    BY <2>1, <2>2
  <2>4. f[k-1] \subseteq f[k]
    <3>1. f[k] = Forward(code, f[k-1], k - 1) \/ f[k] = f[k-1]
      BY <2>2, PassSteps
    <3>2. f[k-1] \subseteq Forward(code, f[k-1], k - 1)
      BY ForwardKeeps
    <3> QED BY <3>1, <3>2
  <2> QED BY <2>1, <2>3, <2>4
<1> QED BY <1>1

(* The code is reached before every instruction with what the instructions *)
(* before it leave: an instruction finds its operands, and where it leads  *)
(* is reached with what it leaves.                                         *)
Arrives(code, isMain, p, d) ==
    /\ p \in Starts(code) /\ p \in 0..Len(code) /\ d \in Nat
    /\ p = Len(code) => isMain /\ d = 0

Departs(code, p, d) ==
    /\ p < Len(code) /\ ByteAt(code, p) \in OpCode
    /\ p + InstructionLength(ByteAt(code, p)) <= Len(code)
    /\ Pops(code, p) \in Nat /\ Pushes(code, p) \in {0, 1} /\ Pops(code, p) <= d
    /\ \A q \in Successors(code, p) : <<q, d - Pops(code, p) + Pushes(code, p)>> \in Reached(code)

LEMMA PathsArrive ==
    ASSUME NEW code, NEW isMain, Runs(code, isMain), NEW p, NEW d, <<p, d>> \in Reached(code)
    PROVE  Arrives(code, isMain, p, d)
<1> DEFINE n == Len(code)
           starts == Starts(code)
           Bounded(s) == \A r \in s : r \in starts \X Int
<1>1. /\ code \in Seq(Byte) /\ n \in Nat /\ starts \subseteq 0..n /\ 0 \in starts
      /\ \A q \in starts \ {n} : q + InstructionLength(ByteAt(code, q)) \in starts
  BY DEF Runs, Tiled
<1>2. /\ \A q \in starts \ {n} : \A t \in Successors(code, q) : t > q /\ t \in starts
      /\ \A r \in Reached(code) : /\ r[1] # n => r[2] >= Pops(code, r[1])
                                  /\ r[1] = n => isMain /\ r[2] = 0
  BY DEF Runs, Verifies
<1>3. PICK f : IsPass(code, f, n) /\ Reached(code) = f[n]
  BY <1>1, ReachedPass
<1>4. \A i \in 0..n : f[i] = IF i = 0 THEN {<<0, 0>>}
                             ELSE IF i - 1 \in starts THEN Forward(code, f[i-1], i - 1)
                             ELSE f[i-1]
  BY <1>3 DEF IsPass, Pass
<1>5. ASSUME NEW q \in starts \ {n}
      PROVE  q \in Nat /\ Pops(code, q) \in Nat /\ Pushes(code, q) \in {0, 1}
  BY <1>1, PopsNumber
<1>6. ASSUME NEW q \in starts \ {n}, NEW before, Bounded(before)
      PROVE  Bounded(Forward(code, before, q))
  <2>1. SUFFICES ASSUME NEW t \in Successors(code, q), NEW s \in before, s[1] = q
                 PROVE  <<t, s[2] - Pops(code, q) + Pushes(code, q)>> \in starts \X Int
    BY <1>6 DEF Forward
  <2>2. s[2] \in Int
    BY <1>6
  <2> QED BY <1>2, <1>5, <2>2
<1> HIDE DEF Bounded, n, starts
<1>7. Bounded({<<0, 0>>})
  BY <1>1 DEF Bounded
<1> DEFINE Wrong == {i \in 0..n : ~Bounded(f[i])}
<1>8. ASSUME Wrong # {} PROVE FALSE
  <2>1. PICK m \in Wrong : \A k \in Wrong : m <= k
    <3>1. Wrong \subseteq Nat
      OBVIOUS
    <3> QED BY <1>8, <3>1, LeastNumber, Zenon
  <2>2. m # 0
    BY <1>1, <1>4, <1>7, <2>1
  <2>3. m \in 1..n /\ m - 1 \in 0..n /\ m - 1 \notin Wrong /\ m - 1 # n
    BY <1>1, <2>1, <2>2
  <2>4. Bounded(f[m-1])
    BY <2>3
  <2>5. f[m] = IF m - 1 \in starts THEN Forward(code, f[m-1], m - 1) ELSE f[m-1]
    BY <1>4, <2>2, <2>3
  <2>6. Bounded(f[m])
    BY <1>6, <2>3, <2>4, <2>5
  <2> QED BY <2>1, <2>6
<1>9. Bounded(f[n]) /\ <<p, d>> \in f[n]
  BY <1>1, <1>3, <1>8
<1>10. p \in starts /\ d \in Int
  BY <1>9 DEF Bounded
<1>11. d >= 0
  <2>1. CASE p = n
    BY <1>2, <2>1
  <2>2. CASE p # n
    <3>1. d >= Pops(code, p)
      BY <1>2, <2>2
    <3> QED BY <1>5, <1>10, <2>2, <3>1
  <2> QED BY <2>1, <2>2
<1>12. p = n => isMain /\ d = 0
  BY <1>2
<1> QED BY <1>1, <1>10, <1>11, <1>12 DEF Arrives, n, starts

LEMMA PathsLead ==
    ASSUME NEW code, NEW isMain, Runs(code, isMain), NEW p, NEW d, <<p, d>> \in Reached(code),
           p # Len(code)
    PROVE  Departs(code, p, d)
<1> DEFINE n == Len(code)
           starts == Starts(code)
<1>1. /\ code \in Seq(Byte) /\ n \in Nat /\ starts \subseteq 0..n
      /\ \A q \in starts \ {n} : /\ ByteAt(code, q) \in OpCode
                                 /\ q + InstructionLength(ByteAt(code, q)) \in starts
  BY DEF Runs, Tiled
<1>2. /\ \A q \in starts \ {n} : \A t \in Successors(code, q) : t > q /\ t \in starts
      /\ \A r \in Reached(code) : r[1] # n => r[2] >= Pops(code, r[1])
  BY DEF Runs, Verifies
<1>3. p \in starts /\ p \in 0..n /\ d \in Nat
  BY PathsArrive DEF Arrives
<1>4. PICK f : IsPass(code, f, n) /\ Reached(code) = f[n]
  BY <1>1, ReachedPass
<1>5. \A i \in 0..n : f[i] = IF i = 0 THEN {<<0, 0>>}
                             ELSE IF i - 1 \in starts THEN Forward(code, f[i-1], i - 1)
                             ELSE f[i-1]
  BY <1>4 DEF IsPass, Pass
<1>6. /\ p < n /\ p \in Nat /\ ByteAt(code, p) \in OpCode
      /\ p + InstructionLength(ByteAt(code, p)) <= n
  <2>1. p + InstructionLength(ByteAt(code, p)) \in 0..n
    BY <1>1, <1>3
  <2> QED BY <1>1, <1>3, <2>1
<1>7. Pops(code, p) \in Nat /\ Pushes(code, p) \in {0, 1}
  BY <1>1, <1>6, PopsNumber
<1>8. Pops(code, p) <= d
  BY <1>2
<1> HIDE DEF n, starts
<1>9. ASSUME NEW i \in 0..n, NEW j \in 0..n, i <= j, NEW r \in f[i]
      PROVE  r \in f[j]
  BY <1>1, <1>4, <1>9, PassKeeps
<1>10. <<p, d>> \in f[p]
  <2> DEFINE Seen == {k \in 0..n : <<p, d>> \in f[k]}
  <2>1. n \in Seen /\ Seen \subseteq Nat
    BY <1>1, <1>4
  <2>2. PICK k \in Seen : \A l \in Seen : k <= l
    BY <2>1, LeastNumber, Zenon
  <2>3. k <= p
    <3>1. SUFFICES ASSUME k > p PROVE FALSE
      BY <1>6
    <3>2. k # 0 /\ k - 1 \in 0..n /\ k - 1 >= p /\ k - 1 \notin Seen /\ k - 1 # n
      BY <1>1, <1>6, <2>2, <3>1
    <3>3. <<p, d>> \in f[k] /\ <<p, d>> \notin f[k-1]
      BY <2>2, <3>2
    <3>4. k - 1 \in starts /\ <<p, d>> \in Forward(code, f[k-1], k - 1)
      BY <1>5, <3>2, <3>3
    <3>5. p \in Successors(code, k - 1)
      BY <3>3, <3>4 DEF Forward
    <3>6. p > k - 1
      BY <1>2, <3>2, <3>4, <3>5 DEF n
    <3> QED BY <1>6, <3>2, <3>6
  <2> QED BY <1>3, <1>9, <2>2, <2>3
<1>11. ASSUME NEW q \in Successors(code, p)
       PROVE  <<q, d - Pops(code, p) + Pushes(code, p)>> \in Reached(code)
  <2>1. p + 1 \in 0..n /\ p + 1 # 0 /\ (p + 1) - 1 = p /\ n \in 0..n
    BY <1>1, <1>6
  <2>2. f[p+1] = Forward(code, f[p], p)
    BY <1>3, <1>5, <2>1 DEF starts
  <2>3. <<q, d - Pops(code, p) + Pushes(code, p)>> \in f[p+1]
    BY <1>10, <2>2, ForwardGoes
  <2>4. p + 1 <= n
    BY <1>1, <1>6
  <2> QED BY <1>4, <1>9, <2>1, <2>3, <2>4
<1> QED BY <1>6, <1>7, <1>8, <1>11 DEF Departs, n

LEMMA PathsBegin ==
    ASSUME NEW code, NEW isMain, Runs(code, isMain)
    PROVE  <<0, 0>> \in Reached(code)
<1>1. code \in Seq(Byte) /\ Len(code) \in Nat
  BY DEF Runs
<1>2. PICK f : IsPass(code, f, Len(code)) /\ Reached(code) = f[Len(code)]
  BY <1>1, ReachedPass
<1>3. <<0, 0>> \in f[0]
  BY <1>1, <1>2, PassSteps
<1>4. 0 \in 0..Len(code) /\ Len(code) \in 0..Len(code) /\ 0 <= Len(code)
  BY <1>1
<1> QED BY <1>1, <1>2, <1>3, <1>4, PassKeeps

-----------------------------------------------------------------------------
(* Frames *)

(* Where the operands of a call begin, above its locals, and where they    *)
(* end: below the arguments of the call above it.                          *)
Base(f) == f.bp + f.closure.fn.locals
Upper(fs, s, k) == IF k = Len(fs) THEN s ELSE fs[k+1].bp

IsFrame(f) ==
    /\ DOMAIN f = {"closure", "ip", "bp"} /\ f.ip \in Int
    /\ f.bp \in Nat /\ f.bp <= STACK_SIZE + 1 /\ f.closure.fn.locals \in Nat

(* The operands up to s are those the code has there, and no others if     *)
(* nothing was left there by a builtin.                                    *)
InStep(f, s, quiet) ==
    \E d \in Nat : /\ <<f.ip + 1, d>> \in Reached(f.closure.fn.code)
                   /\ s - Base(f) >= d
                   /\ quiet => s - Base(f) = d

OnTop(fs, st, k) == fs[k].bp > Base(fs[k-1]) /\ st[fs[k].bp - 1] = fs[k].closure

Stacked(fs, st, s, quiet) ==
    /\ IsSequence(fs) /\ fs # << >> /\ s \in Nat
    /\ \A k \in 1..Len(fs) : IsFrame(fs[k]) /\ InStep(fs[k], Upper(fs, s, k), quiet)
    /\ \A k \in 2..Len(fs) : OnTop(fs, st, k)
    /\ Base(fs[Len(fs)]) <= s

LEMMA FrameNumbers ==
    ASSUME NEW f, IsFrame(f)
    PROVE  f.bp \in Nat /\ Base(f) \in Nat /\ f.bp <= Base(f)
BY DEF IsFrame, Base

LEMMA FramesRise ==
    ASSUME NEW fs, NEW st, NEW s, NEW quiet, Stacked(fs, st, s, quiet),
           NEW j \in 1..Len(fs), NEW k \in 1..Len(fs), j < k
    PROVE  fs[j].bp < fs[k].bp
<1> DEFINE n == Len(fs)
           Low == {i \in Nat : i > j /\ i <= k /\ ~(fs[j].bp < fs[i].bp)}
<1>1. n \in Nat
  BY SequenceForm DEF Stacked
<1>2. ASSUME NEW i \in 1..n PROVE fs[i].bp \in Nat /\ Base(fs[i]) \in Nat /\ fs[i].bp <= Base(fs[i])
  BY <1>2, FrameNumbers DEF Stacked
<1>3. ASSUME NEW i \in 2..n PROVE fs[i].bp > Base(fs[i-1])
  BY <1>3 DEF Stacked, OnTop
<1> HIDE DEF n
<1>4. ASSUME Low # {} PROVE FALSE
  <2>1. PICK i \in Low : \A l \in Low : i <= l
    <3>1. Low \subseteq Nat
      OBVIOUS
    <3> QED BY <1>4, <3>1, LeastNumber, Zenon
  <2>2. i \in 2..n /\ i - 1 \in 1..n /\ i - 1 \in Nat /\ j \in 1..n /\ k \in 1..n
    BY <1>1, <2>1 DEF n
  <2>3. fs[i].bp > fs[i-1].bp /\ fs[i].bp \in Nat /\ fs[i-1].bp \in Nat /\ fs[j].bp \in Nat
    <3>1. i \in 1..n
      BY <1>1, <2>2
    <3>2. fs[i].bp \in Nat /\ fs[j].bp \in Nat
      BY <1>2, <2>2, <3>1
    <3>3. fs[i-1].bp \in Nat /\ Base(fs[i-1]) \in Nat /\ fs[i-1].bp <= Base(fs[i-1])
      BY <1>2, <2>2
    <3>4. fs[i].bp > Base(fs[i-1])
      BY <1>3, <2>2
    <3> QED BY <3>2, <3>3, <3>4
  <2>4. i - 1 = j \/ fs[j].bp < fs[i-1].bp
    BY <2>1, <2>2
  <2>5. fs[j].bp < fs[i].bp
    BY <2>3, <2>4
  <2> QED BY <2>1, <2>5
<1>5. k \in Nat /\ k \notin Low
  BY <1>1, <1>4 DEF n
<1> QED BY <1>5

MovedTo(fs, ip) == [fs EXCEPT ![Len(fs)].ip = ip]

(* The current call goes on: the slots below its locals stay.              *)
LEMMA TopMoves ==
    ASSUME NEW fs, NEW st, NEW s, NEW quiet, Stacked(fs, st, s, quiet),
           NEW f, f = fs[Len(fs)], NEW q \in Nat, NEW d \in Nat,
           <<q, d>> \in Reached(f.closure.fn.code),
           NEW t \in Nat, t - Base(f) >= d, quiet => t - Base(f) = d,
           NEW new, \A i \in Nat : i < f.bp => new[i] = st[i]
    PROVE  Stacked(MovedTo(fs, q - 1), new, t, quiet)
<1> DEFINE n == Len(fs)
           g == [f EXCEPT !.ip = q - 1]
           gs == [fs EXCEPT ![n] = g]
<1>1. /\ IsSequence(fs) /\ fs # << >> /\ n \in Nat /\ DOMAIN fs = 1..n /\ n > 0
  BY SequenceForm DEF Stacked
<1>2. MovedTo(fs, q - 1) = gs
  BY DEF MovedTo
<1>3. IsSequence(gs) /\ Len(gs) = n /\ gs # << >>
  <2>1. n \in 1..n
    BY <1>1
  <2> HIDE DEF g
  <2>2. IsSequence(gs) /\ Len(gs) = n
    BY <1>1, <2>1, SequenceExcept, Zenon
  <2> HIDE DEF gs
  <2> QED BY <1>1, <2>2, SequenceForm
<1>4. /\ \A k \in 1..n : k # n => gs[k] = fs[k]
      /\ gs[n] = g
  <2> HIDE DEF g
  <2> QED BY <1>1
<1>5. IsFrame(f)
  BY <1>1 DEF Stacked
<1>6. g.ip = q - 1 /\ g.bp = f.bp /\ g.closure = f.closure /\ DOMAIN g = DOMAIN f
  BY <1>5 DEF IsFrame
<1> HIDE DEF n, g, gs
<1>7. IsFrame(g) /\ Base(g) = Base(f)
  BY <1>5, <1>6 DEF IsFrame, Base
<1>8. ASSUME NEW k \in 1..n PROVE gs[k].bp = fs[k].bp /\ gs[k].closure = fs[k].closure /\ Base(gs[k]) = Base(fs[k])
  BY <1>4, <1>6, <1>7 DEF n
<1>9. ASSUME NEW k \in 1..n PROVE IsFrame(gs[k]) /\ InStep(gs[k], Upper(gs, t, k), quiet)
  <2>1. CASE k = n
    <3>1. g.ip + 1 = q
      BY <1>6
    <3>2. InStep(g, t, quiet)
      BY <1>6, <1>7, <3>1 DEF InStep
    <3> QED BY <1>3, <1>4, <1>7, <2>1, <3>2 DEF Upper
  <2>2. CASE k # n
    <3>1. k + 1 \in 1..n
      BY <1>1, <2>2
    <3>2. Upper(gs, t, k) = Upper(fs, s, k)
      BY <1>3, <1>8, <2>2, <3>1 DEF Upper, n
    <3> QED BY <1>4, <2>2, <3>2 DEF Stacked, n
  <2> QED BY <2>1, <2>2
<1>10. ASSUME NEW k \in 2..n PROVE OnTop(gs, new, k)
  <2>1. k \in 1..n /\ k - 1 \in 1..n /\ OnTop(fs, st, k) /\ IsFrame(fs[k]) /\ IsFrame(fs[k-1])
    BY <1>1 DEF Stacked, n
  <2>2. fs[k].bp - 1 \in Nat
    <3>1. Base(fs[k-1]) \in Nat /\ fs[k].bp \in Nat
      BY <2>1, FrameNumbers
    <3> QED BY <2>1, <3>1 DEF OnTop
  <2>3. fs[k].bp <= f.bp
    <3>1. CASE k = n
      BY <3>1, <2>1 DEF n, IsFrame
    <3>2. CASE k # n
      <4>1. k < n /\ n \in 1..n
        BY <1>1, <3>2
      <4>2. fs[k].bp < fs[n].bp
        BY <2>1, <4>1, FramesRise DEF n
      <4> QED BY <1>5, <2>1, <4>2 DEF n, IsFrame
    <3> QED BY <3>1, <3>2
  <2>4. fs[k].bp - 1 < f.bp
    BY <1>5, <2>1, <2>3 DEF IsFrame
  <2>5. new[fs[k].bp - 1] = st[fs[k].bp - 1]
    BY <2>2, <2>4
  <2> QED BY <1>8, <2>1, <2>5 DEF OnTop
<1>11. Base(gs[n]) <= t
  <2>1. Base(f) \in Nat
    BY <1>5, FrameNumbers
  <2> QED BY <1>4, <1>7, <2>1
<1>12. Stacked(gs, new, t, quiet)
  BY <1>3, <1>9, <1>10, <1>11 DEF Stacked
<1> QED BY <1>2, <1>12

(* A call: a new frame on its arguments, which the caller is rid of.       *)
LEMMA FrameAdded ==
    ASSUME NEW fs, NEW st, NEW s, NEW quiet, Stacked(fs, st, s, quiet),
           s <= STACK_SIZE + 1, Base(fs[Len(fs)]) < s,
           NEW c, c.fn.locals \in Nat, st[s - 1] = c, <<0, 0>> \in Reached(c.fn.code)
    PROVE  Stacked(Append(fs, [closure |-> c, ip |-> -1, bp |-> s]), st, s + c.fn.locals, quiet)
<1> DEFINE n == Len(fs)
           g == [closure |-> c, ip |-> -1, bp |-> s]
           gs == Append(fs, g)
           t == s + c.fn.locals
<1>1. IsSequence(fs) /\ n \in Nat /\ n > 0 /\ s \in Nat
  BY SequenceForm DEF Stacked
<1>2. /\ IsSequence(gs) /\ Len(gs) = n + 1
      /\ \A k \in 1..n : gs[k] = fs[k]
      /\ gs[n+1] = g
  BY <1>1, SequenceAppend
<1>3. IsFrame(g) /\ Base(g) = t /\ t \in Nat /\ g.ip + 1 = 0 /\ g.closure = c /\ g.bp = s
  BY <1>1 DEF IsFrame, Base
<1> HIDE DEF n, g, gs, t
<1>4. InStep(g, t, quiet)
  <2>1. <<g.ip + 1, 0>> \in Reached(g.closure.fn.code)
    BY <1>3
  <2>2. 0 \in Nat /\ t - Base(g) = 0 /\ t - Base(g) >= 0
    BY <1>3
  <2> QED BY <2>1, <2>2, Zenon DEF InStep
<1>5. ASSUME NEW k \in 1..n + 1 PROVE IsFrame(gs[k]) /\ InStep(gs[k], Upper(gs, t, k), quiet)
  <2>1. CASE k = n + 1
    BY <1>2, <1>3, <1>4, <2>1 DEF Upper
  <2>2. CASE k \in 1..n
    <3>1. k # n + 1 /\ (k # n => k + 1 \in 1..n)
      BY <1>1, <2>2
    <3>2. Upper(gs, t, k) = Upper(fs, s, k)
      BY <1>2, <1>3, <3>1 DEF Upper, n
    <3> QED BY <1>2, <2>2, <3>2 DEF Stacked, n
  <2> QED BY <1>1, <2>1, <2>2
<1>6. ASSUME NEW k \in 2..n + 1 PROVE OnTop(gs, st, k)
  <2>1. CASE k = n + 1
    <3>1. k - 1 = n /\ n \in 1..n
      BY <1>1, <2>1
    <3>2. gs[k] = g /\ gs[k-1] = fs[n]
      BY <1>2, <2>1, <3>1
    <3> QED BY <1>1, <1>3, <3>2 DEF OnTop, n
  <2>2. CASE k \in 2..n
    <3>1. k \in 1..n /\ k - 1 \in 1..n /\ OnTop(fs, st, k)
      BY <1>1, <2>2 DEF Stacked, n
    <3> QED BY <1>2, <3>1 DEF OnTop
  <2> QED BY <1>1, <2>1, <2>2
<1>7. gs # << >>
  BY <1>1, <1>2, SequenceForm
<1>8. Base(gs[n+1]) <= t
  BY <1>2, <1>3
<1>9. Stacked(gs, st, t, quiet)
  BY <1>2, <1>3, <1>5, <1>6, <1>7, <1>8 DEF Stacked
<1> QED BY <1>9 DEF gs, g, t

(* A return: the caller goes on with what it has below the frame.          *)
LEMMA FrameRemoved ==
    ASSUME NEW fs, NEW st, NEW s, NEW quiet, Stacked(fs, st, s, quiet), Len(fs) # 1,
           NEW new, \A i \in Nat : i < fs[Len(fs)].bp - 1 => new[i] = st[i]
    PROVE  Stacked(SubSeq(fs, 1, Len(fs) - 1), new, fs[Len(fs)].bp, quiet)
<1> DEFINE n == Len(fs)
           m == n - 1
           gs == SubSeq(fs, 1, m)
           t == fs[n].bp
<1>1. IsSequence(fs) /\ n \in Nat /\ n > 1
  <2>1. IsSequence(fs) /\ fs # << >>
    BY DEF Stacked
  <2>2. n \in Nat /\ n > 0
    BY <2>1, SequenceForm
  <2>3. n # 1
    OBVIOUS
  <2> HIDE DEF n
  <2> QED BY <2>1, <2>2, <2>3
<1>2. /\ IsSequence(gs) /\ Len(gs) = m
      /\ \A k \in 1..m : gs[k] = fs[k]
  BY <1>1, SequenceFront
<1>3. m \in Nat /\ m >= 1 /\ n = m + 1
  BY <1>1
<1>4. ASSUME NEW k \in 1..n PROVE IsFrame(fs[k]) /\ fs[k].bp \in Nat /\ Base(fs[k]) \in Nat
  BY <1>4, FrameNumbers DEF Stacked
<1>5. t \in Nat
  BY <1>1, <1>4
<1> HIDE DEF m, gs, n
<1>6. ASSUME NEW k \in 1..m PROVE IsFrame(gs[k]) /\ InStep(gs[k], Upper(gs, t, k), quiet)
  <2>1. k \in 1..n /\ k # n /\ (k # m => k + 1 \in 1..m) /\ (k = m => k + 1 = n)
    BY <1>3
  <2>2. Upper(gs, t, k) = Upper(fs, s, k)
    BY <1>2, <2>1 DEF Upper, n
  <2> QED BY <1>2, <2>1, <2>2 DEF Stacked, n
<1>7. ASSUME NEW k \in 2..m PROVE OnTop(gs, new, k)
  <2>1. k \in 1..m /\ k - 1 \in 1..m /\ k \in 1..n /\ k - 1 \in 1..n /\ k \in 2..n
    BY <1>3
  <2>2. OnTop(fs, st, k)
    BY <2>1 DEF Stacked, n
  <2>3. fs[k].bp - 1 \in Nat
    BY <1>4, <2>1, <2>2 DEF OnTop
  <2>4. fs[k].bp < fs[n].bp
    <3>1. n \in 1..n /\ k < n
      BY <1>3
    <3> QED BY <2>1, <3>1, FramesRise DEF n
  <2>5. fs[k].bp - 1 < fs[n].bp - 1
    BY <1>4, <1>5, <2>1, <2>4
  <2>6. new[fs[k].bp - 1] = st[fs[k].bp - 1]
    BY <2>3, <2>5 DEF n
  <2> QED BY <1>2, <2>1, <2>2, <2>6 DEF OnTop
<1>8. gs # << >>
  BY <1>2, <1>3, SequenceForm
<1>9. Base(gs[m]) <= t
  <2>1. n \in 2..n /\ n - 1 = m /\ m \in 1..m /\ m \in 1..n /\ n \in 1..n
    BY <1>3
  <2>2. fs[n].bp > Base(fs[m])
    BY <2>1 DEF Stacked, OnTop, n
  <2> QED BY <1>2, <1>4, <2>1, <2>2
<1>10. Stacked(gs, new, t, quiet)
  BY <1>2, <1>5, <1>6, <1>7, <1>8, <1>9 DEF Stacked
<1> QED BY <1>10 DEF gs, m, n

-----------------------------------------------------------------------------
(* Values *)

(* n captured values are as many as the code of the function uses.         *)
Captures(fn, n) == \A f \in Used(fn.code, OP.GET_FREE) : f < n

(* What a value is made of is in V, the function of a closure is among     *)
(* those compiled and has captured enough; none is a builtin if there are  *)
(* to be none.                                                             *)
MadeOf(v, V, fns, quiet) ==
    /\ v.t \in Values
    /\ v.t = "ARRAY" => IsSequence(v.elements) /\ \A i \in 1..Len(v.elements) : v.elements[i] \in V
    /\ v.t = "HASH" => /\ IsSequence(v.pairs)
                       /\ \A i \in DOMAIN v.pairs : v.pairs[i][1] \in V /\ v.pairs[i][2] \in V
    /\ v.t = "CLOSURE" =>
         /\ v.fn \in fns /\ IsSequence(v.free) /\ Captures(v.fn, Len(v.free))
         /\ \A i \in 1..Len(v.free) : v.free[i] \in V
    /\ quiet => v.t # "BUILT_IN"

(* A proper value is one of a set of values made of each other.            *)
Store(V, fns, quiet) == \A v \in V : MadeOf(v, V, fns, quiet)
Proper(v, fns, quiet) == \E V : v \in V /\ Store(V, fns, quiet)

LEMMA MadeOfMore ==
    ASSUME NEW v, NEW V, NEW fns, NEW quiet, MadeOf(v, V, fns, quiet),
           NEW W, V \subseteq W, NEW more, fns \subseteq more, NEW calm, calm => quiet
    PROVE  MadeOf(v, W, more, calm)
BY DEF MadeOf

LEMMA ProperMore ==
    ASSUME NEW v, NEW fns, NEW quiet, Proper(v, fns, quiet),
           NEW more, fns \subseteq more, NEW calm, calm => quiet
    PROVE  Proper(v, more, calm)
<1>1. PICK V : v \in V /\ Store(V, fns, quiet)
  BY DEF Proper
<1>2. ASSUME NEW w \in V PROVE MadeOf(w, V, more, calm)
  BY <1>1, MadeOfMore DEF Store
<1> QED BY <1>1, <1>2 DEF Proper, Store

LEMMA Gathered ==
    ASSUME NEW S, NEW fns, NEW quiet, \A s \in S : Proper(s, fns, quiet)
    PROVE  \E V : S \subseteq V /\ Store(V, fns, quiet)
<1> DEFINE Around(s) == CHOOSE V : s \in V /\ Store(V, fns, quiet)
           U == UNION {Around(s) : s \in S}
<1>1. ASSUME NEW s \in S PROVE s \in Around(s) /\ Store(Around(s), fns, quiet)
  BY <1>1, Zenon DEF Proper
<1> HIDE DEF Around
<1>2. S \subseteq U
  BY <1>1
<1>3. ASSUME NEW v \in U PROVE MadeOf(v, U, fns, quiet)
  <2>1. PICK s \in S : v \in Around(s)
    OBVIOUS
  <2>2. MadeOf(v, Around(s), fns, quiet)
    BY <1>1, <2>1 DEF Store
  <2>3. Around(s) \subseteq U
    OBVIOUS
  <2> HIDE DEF U
  <2> QED BY <2>2, <2>3, MadeOfMore
<1> HIDE DEF U
<1> QED BY <1>2, <1>3, Zenon DEF Store

LEMMA ProperMade ==
    ASSUME NEW S, NEW fns, NEW quiet, \A s \in S : Proper(s, fns, quiet),
           NEW v, MadeOf(v, S, fns, quiet)
    PROVE  Proper(v, fns, quiet)
<1>1. PICK V : S \subseteq V /\ Store(V, fns, quiet)
  BY Gathered
<1> DEFINE W == V \cup {v}
<1>2. MadeOf(v, W, fns, quiet)
  BY <1>1, MadeOfMore
<1>3. ASSUME NEW w \in V PROVE MadeOf(w, W, fns, quiet)
  BY <1>1, MadeOfMore DEF Store
<1>4. Store(W, fns, quiet)
  BY <1>2, <1>3 DEF Store
<1> QED BY <1>4, Zenon DEF Proper

LEMMA ProperParts ==
    ASSUME NEW v, NEW fns, NEW quiet, Proper(v, fns, quiet)
    PROVE  /\ v.t \in Values
           /\ v.t = "ARRAY" => /\ IsSequence(v.elements)
                               /\ \A i \in 1..Len(v.elements) : Proper(v.elements[i], fns, quiet)
           /\ v.t = "HASH" => /\ IsSequence(v.pairs)
                              /\ \A i \in DOMAIN v.pairs : /\ Proper(v.pairs[i][1], fns, quiet)
                                                           /\ Proper(v.pairs[i][2], fns, quiet)
           /\ v.t = "CLOSURE" => /\ v.fn \in fns /\ IsSequence(v.free) /\ Captures(v.fn, Len(v.free))
                                 /\ \A i \in 1..Len(v.free) : Proper(v.free[i], fns, quiet)
           /\ quiet => v.t # "BUILT_IN"
<1>1. PICK V : v \in V /\ Store(V, fns, quiet)
  BY DEF Proper
<1>2. MadeOf(v, V, fns, quiet)
  BY <1>1 DEF Store
<1>3. \A w \in V : Proper(w, fns, quiet)
  BY <1>1 DEF Proper
<1> QED BY <1>2, <1>3 DEF MadeOf

Scalars == Values \ {"ARRAY", "HASH", "CLOSURE", "BUILT_IN"}

LEMMA ProperPlain ==
    ASSUME NEW v, v.t \in Scalars, NEW fns, NEW quiet
    PROVE  Proper(v, fns, quiet)
<1>1. MadeOf(v, {}, fns, quiet)
  BY DEF MadeOf, Scalars
<1> QED BY <1>1, ProperMade

LEMMA ProperArray ==
    ASSUME NEW fns, NEW quiet, NEW es, IsSequence(es),
           \A i \in 1..Len(es) : Proper(es[i], fns, quiet)
    PROVE  Proper(ArrayOf(es), fns, quiet)
<1> DEFINE S == {es[i] : i \in 1..Len(es)}
<1>1. ArrayOf(es).t = "ARRAY" /\ ArrayOf(es).elements = es
  BY DEF ArrayOf
<1>2. MadeOf(ArrayOf(es), S, fns, quiet)
  BY <1>1 DEF MadeOf, Values
<1> QED BY <1>2, ProperMade

LEMMA ProperHash ==
    ASSUME NEW fns, NEW quiet, NEW pairs, IsSequence(pairs),
           \A i \in DOMAIN pairs : Proper(pairs[i][1], fns, quiet) /\ Proper(pairs[i][2], fns, quiet)
    PROVE  Proper(HashOf(pairs), fns, quiet)
<1> DEFINE S == {pairs[i][1] : i \in DOMAIN pairs} \cup {pairs[i][2] : i \in DOMAIN pairs}
<1>1. HashOf(pairs).t = "HASH" /\ HashOf(pairs).pairs = pairs
  BY DEF HashOf
<1>2. MadeOf(HashOf(pairs), S, fns, quiet)
  BY <1>1 DEF MadeOf, Values
<1> QED BY <1>2, ProperMade

LEMMA ProperClosure ==
    ASSUME NEW fns, NEW quiet, NEW fn \in fns, NEW free, IsSequence(free), Captures(fn, Len(free)),
           \A i \in 1..Len(free) : Proper(free[i], fns, quiet)
    PROVE  Proper(Closure(fn, free), fns, quiet)
<1> DEFINE S == {free[i] : i \in 1..Len(free)}
<1>1. Closure(fn, free).t = "CLOSURE" /\ Closure(fn, free).fn = fn /\ Closure(fn, free).free = free
  BY DEF Closure
<1>2. MadeOf(Closure(fn, free), S, fns, quiet)
  BY <1>1 DEF MadeOf, Values
<1> QED BY <1>2, ProperMade

(* The outcomes of the operations.                                         *)
Outcome(o, fns, quiet) == o \in {Error, Undefined, Exit} \/ Proper(o, fns, quiet)

(* The objects of the machine are those of the compiler.                   *)
LEMMA SameObjects ==
    /\ VM!Error = Error /\ VM!Undefined = Undefined /\ VM!Exit = Exit /\ VM!Null = Null
    /\ VM!Garbage = Garbage /\ VM!NullPointer = NullPointer
BY Zenon DEF VM!Error, Error, VM!Undefined, Undefined, VM!Exit, Exit, VM!Null, Null,
             VM!Garbage, Garbage, VM!NullPointer, NullPointer

LEMMA PlainObjects ==
    /\ VM!Null.t \in Scalars /\ VM!Garbage.t \in Scalars /\ VM!NullPointer.t \in Scalars
    /\ VM!GlobalsPointer.t \in Scalars
    /\ \A n : VM!Integer(n).t \in Scalars
    /\ \A b : VM!Boolean(b).t \in Scalars
    /\ \A s : VM!String(s).t \in Scalars
BY DEF Scalars, Values, VM!Null, VM!Garbage, VM!NullPointer, VM!GlobalsPointer, VM!Integer,
       VM!Boolean, VM!String

LEMMA PlainOutcome ==
    ASSUME NEW o, NEW fns, NEW quiet, o \in {VM!Error, VM!Undefined, VM!Exit} \/ o.t \in Scalars
    PROVE  Outcome(o, fns, quiet)
BY SameObjects, ProperPlain DEF Outcome

LEMMA BinaryOutcome ==
    ASSUME NEW op \in {VM!OP.ADD, VM!OP.SUB, VM!OP.MUL, VM!OP.DIV}, NEW l, NEW r, NEW fns, NEW quiet
    PROVE  Outcome(VM!Binary(op, l, r), fns, quiet)
<1>1. VM!BinaryInt(op, l.int, r.int) = VM!Undefined \/ VM!BinaryInt(op, l.int, r.int).t \in Scalars
  <2>1. \/ VM!BinaryInt(op, l.int, r.int) = VM!Undefined
        \/ \E n : VM!BinaryInt(op, l.int, r.int) = VM!Integer(n)
    BY DEF VM!BinaryInt
  <2> QED BY <2>1, PlainObjects
<1>2. VM!Binary(op, l, r) \in {VM!Error, VM!Undefined} \/ VM!Binary(op, l, r).t \in Scalars
  BY <1>1, PlainObjects DEF VM!Binary
<1> QED BY <1>2, PlainOutcome

LEMMA ComparisonOutcome ==
    ASSUME NEW op \in {VM!OP.EQUAL, VM!OP.NOT_EQUAL, VM!OP.GREATER_THAN}, NEW l, NEW r,
           NEW o \in VM!Comparisons(op, l, r), NEW fns, NEW quiet
    PROVE  Outcome(o, fns, quiet)
<1>1. VM!CompareInt(op, l.int, r.int).t \in Scalars
  BY PlainObjects, Zenon DEF VM!CompareInt
<1>2. o \in {VM!CompareInt(op, l.int, r.int), VM!Error} \/ \E b : o = VM!Boolean(b)
  BY DEF VM!Comparisons
<1>3. o = VM!Error \/ o.t \in Scalars
  BY <1>1, <1>2, PlainObjects
<1> QED BY <1>3, PlainOutcome

LEMMA HashOutcome ==
    ASSUME NEW pairs, NEW key, NEW fns, NEW quiet,
           \A i \in DOMAIN pairs : Proper(pairs[i][2], fns, quiet)
    PROVE  Outcome(VM!HashItem(pairs, key), fns, quiet)
<1> DEFINE first == {i \in DOMAIN pairs : pairs[i][1] = key /\ \A j \in 1..i-1 : ~(pairs[j][1] = key)}
<1>1. \/ VM!HashItem(pairs, key) \in {VM!Error, VM!Undefined, VM!Null}
      \/ first # {} /\ VM!HashItem(pairs, key) = pairs[CHOOSE i \in first : TRUE][2]
  BY DEF VM!HashItem
<1>2. first # {} => (CHOOSE i \in first : TRUE) \in DOMAIN pairs
  BY Zenon
<1>3. CASE VM!HashItem(pairs, key) \in {VM!Error, VM!Undefined, VM!Null}
  BY <1>3, PlainObjects, PlainOutcome
<1>4. CASE first # {} /\ VM!HashItem(pairs, key) = pairs[CHOOSE i \in first : TRUE][2]
  <2> HIDE DEF first
  <2> QED BY <1>2, <1>4, Zenon DEF Outcome
<1> QED BY <1>1, <1>3, <1>4

LEMMA ItemOutcome ==
    ASSUME NEW left, NEW index, NEW fns, NEW quiet, Proper(left, fns, quiet)
    PROVE  Outcome(VM!Item(left, index), fns, quiet)
<1> DEFINE o == VM!Item(left, index)
<1>1. /\ left.t = "ARRAY" => /\ IsSequence(left.elements)
                             /\ \A i \in 1..Len(left.elements) : Proper(left.elements[i], fns, quiet)
      /\ left.t = "HASH" => \A i \in DOMAIN left.pairs : Proper(left.pairs[i][2], fns, quiet)
  BY ProperParts
<1>2. \/ o \in {VM!Error, VM!Undefined}
      \/ left.t = "HASH" /\ o = VM!HashItem(left.pairs, index)
      \/ left.t = "ARRAY" /\ o = VM!ArrayItem(left.elements, index.int)
  BY Zenon DEF VM!Item, VM!IsObject
<1>3. CASE o \in {VM!Error, VM!Undefined}
  BY <1>3, PlainOutcome
<1>4. CASE left.t = "HASH" /\ o = VM!HashItem(left.pairs, index)
  BY <1>1, <1>4, HashOutcome
<1>5. CASE left.t = "ARRAY" /\ o = VM!ArrayItem(left.elements, index.int)
  <2> DEFINE es == left.elements
             j == index.int
  <2>1. Len(es) \in Nat /\ \A i \in 1..Len(es) : Proper(es[i], fns, quiet)
    BY <1>1, <1>5, SequenceForm
  <2>2. o = IF j \in 0..Len(es) - 1 THEN es[j + 1] ELSE VM!Null
    BY <1>5 DEF VM!ArrayItem
  <2> HIDE DEF es, j, o
  <2>3. CASE j \in 0..Len(es) - 1
    <3>1. j + 1 \in 1..Len(es)
      BY <2>1, <2>3
    <3> QED BY <2>1, <2>2, <2>3, <3>1 DEF Outcome, o
  <2>4. CASE j \notin 0..Len(es) - 1
    <3>1. o.t \in Scalars
      BY <2>2, <2>4, PlainObjects
    <3> QED BY <3>1, PlainOutcome DEF o
  <2> QED BY <2>3, <2>4
<1> QED BY <1>2, <1>3, <1>4, <1>5

(* The builtins.                                                           *)
LEMMA LenOutcome ==
    ASSUME NEW args, NEW fns, NEW quiet
    PROVE  Outcome(VM!BuiltinLen(args), fns, quiet)
<1>1. VM!BuiltinLen(args) \in {VM!Error, VM!Undefined} \/ VM!BuiltinLen(args).t \in Scalars
  BY PlainObjects DEF VM!BuiltinLen, VM!Checked
<1> QED BY <1>1, PlainOutcome

LEMMA PutsOutcome ==
    ASSUME NEW args, NEW fns, NEW quiet
    PROVE  Outcome(VM!BuiltinPuts(args), fns, quiet)
<1>1. VM!BuiltinPuts(args) \in {VM!Null, VM!Undefined}
  BY DEF VM!BuiltinPuts
<1> QED BY <1>1, PlainObjects, PlainOutcome

(* An array handed to a builtin, and its items.                            *)
ArrayHanded(args, fns, quiet) ==
    /\ IsSequence(args[1].elements)
    /\ \A i \in 1..Len(args[1].elements) : Proper(args[1].elements[i], fns, quiet)

LEMMA FirstOutcome ==
    ASSUME NEW args, NEW fns, NEW quiet, Len(args) = 1 => Proper(args[1], fns, quiet)
    PROVE  /\ Outcome(VM!BuiltinFirst(args), fns, quiet)
           /\ Outcome(VM!BuiltinLast(args), fns, quiet)
           /\ Outcome(VM!BuiltinRest(args), fns, quiet)
<1> DEFINE es == args[1].elements
<1>1. args[1].t = "ARRAY" /\ Len(args) = 1 => ArrayHanded(args, fns, quiet)
  BY ProperParts DEF ArrayHanded
<1>2. ArrayHanded(args, fns, quiet) /\ es # << >>
        => /\ Proper(es[1], fns, quiet) /\ Proper(es[Len(es)], fns, quiet)
           /\ Proper(ArrayOf(Tail(es)), fns, quiet)
  <2>1. SUFFICES ASSUME ArrayHanded(args, fns, quiet), es # << >>
                 PROVE  /\ Proper(es[1], fns, quiet) /\ Proper(es[Len(es)], fns, quiet)
                        /\ Proper(ArrayOf(Tail(es)), fns, quiet)
    OBVIOUS
  <2>2. /\ IsSequence(es) /\ Len(es) \in Nat /\ Len(es) > 0
        /\ \A i \in 1..Len(es) : Proper(es[i], fns, quiet)
    BY <2>1, SequenceForm DEF ArrayHanded
  <2>3. /\ IsSequence(Tail(es)) /\ Len(Tail(es)) = Len(es) - 1
        /\ \A i \in 1..Len(es) - 1 : Tail(es)[i] = es[i+1]
    BY <2>1, <2>2, SequenceTail
  <2> DEFINE rest == Tail(es)
  <2> HIDE DEF es, rest
  <2>4. ASSUME NEW i \in 1..Len(rest) PROVE Proper(rest[i], fns, quiet)
    <3>1. i \in 1..Len(es) - 1 /\ i + 1 \in 1..Len(es)
      BY <2>2, <2>3, <2>4 DEF rest
    <3> QED BY <2>2, <2>3, <3>1 DEF rest
  <2>5. Proper(ArrayOf(rest), fns, quiet)
    BY <2>3, <2>4, ProperArray DEF rest
  <2>6. 1 \in 1..Len(es) /\ Len(es) \in 1..Len(es)
    BY <2>2
  <2> QED BY <2>2, <2>5, <2>6 DEF rest
<1>3. VM!ArrayOf(Tail(es)) = ArrayOf(Tail(es))
  BY Zenon DEF VM!ArrayOf, ArrayOf
<1> HIDE DEF es
<1>4. \/ VM!BuiltinFirst(args) \in {VM!Error, VM!Undefined, VM!Null}
      \/ args[1].t = "ARRAY" /\ Len(args) = 1 /\ es # << >> /\ VM!BuiltinFirst(args) = es[1]
  BY DEF VM!BuiltinFirst, VM!ArrayArg, VM!Deref, VM!Checked, es
<1>5. \/ VM!BuiltinLast(args) \in {VM!Error, VM!Undefined, VM!Null}
      \/ args[1].t = "ARRAY" /\ Len(args) = 1 /\ es # << >> /\ VM!BuiltinLast(args) = es[Len(es)]
  BY DEF VM!BuiltinLast, VM!ArrayArg, VM!Deref, VM!Checked, es
<1>6. \/ VM!BuiltinRest(args) \in {VM!Error, VM!Undefined, VM!Exit, VM!Null}
      \/ args[1].t = "ARRAY" /\ Len(args) = 1 /\ es # << >> /\ VM!BuiltinRest(args) = VM!ArrayOf(Tail(es))
  BY DEF VM!BuiltinRest, VM!ArrayArg, VM!Copied, es
<1>7. \A o : o \in {VM!Error, VM!Undefined, VM!Exit, VM!Null} => Outcome(o, fns, quiet)
  BY PlainOutcome, PlainObjects
<1>8. \A o : Proper(o, fns, quiet) => Outcome(o, fns, quiet)
  BY DEF Outcome
<1> QED BY <1>1, <1>2, <1>3, <1>4, <1>5, <1>6, <1>7, <1>8

LEMMA PushOutcome ==
    ASSUME NEW args, NEW fns, NEW quiet,
           Len(args) = 2 => Proper(args[1], fns, quiet) /\ Proper(args[2], fns, quiet)
    PROVE  Outcome(VM!BuiltinPush(args), fns, quiet)
<1> DEFINE es == args[1].elements
           pushed == Append(es, args[2])
<1>1. CASE args[1].t = "ARRAY" /\ Len(args) = 2
  <2>1. IsSequence(es) /\ \A i \in 1..Len(es) : Proper(es[i], fns, quiet)
    BY <1>1, ProperParts
  <2>2. /\ IsSequence(pushed) /\ Len(pushed) = Len(es) + 1
        /\ \A i \in 1..Len(es) : pushed[i] = es[i]
        /\ pushed[Len(es) + 1] = args[2]
    BY <2>1, SequenceAppend
  <2>3. Len(es) \in Nat
    BY <2>1, SequenceForm
  <2> HIDE DEF es, pushed
  <2>4. ASSUME NEW i \in 1..Len(pushed) PROVE Proper(pushed[i], fns, quiet)
    <3>1. i \in 1..Len(es) \/ i = Len(es) + 1
      BY <2>2, <2>3, <2>4
    <3> QED BY <1>1, <2>1, <2>2, <3>1
  <2>5. Proper(ArrayOf(pushed), fns, quiet)
    BY <2>2, <2>4, ProperArray
  <2>6. VM!ArrayOf(pushed) = ArrayOf(pushed)
    BY Zenon DEF VM!ArrayOf, ArrayOf
  <2>7. VM!BuiltinPush(args) \in {VM!Error, VM!Undefined, VM!Exit, VM!ArrayOf(pushed)}
    BY Zenon DEF VM!BuiltinPush, VM!Copied, pushed, es
  <2>8. VM!BuiltinPush(args) \in {VM!Error, VM!Undefined, VM!Exit} \/ Proper(VM!BuiltinPush(args), fns, quiet)
    BY <2>5, <2>6, <2>7
  <2> QED BY <2>8, SameObjects DEF Outcome
<1>2. CASE ~(args[1].t = "ARRAY" /\ Len(args) = 2)
  <2>1. VM!BuiltinPush(args) \in {VM!Error, VM!Undefined}
    BY <1>2 DEF VM!BuiltinPush
  <2> QED BY <2>1, PlainOutcome
<1> QED BY <1>1, <1>2

LEMMA BuiltinOutcome ==
    ASSUME NEW index, NEW args, IsSequence(args), NEW fns, NEW quiet,
           \A i \in 1..Len(args) : Proper(args[i], fns, quiet)
    PROVE  Outcome(VM!CallBuiltin(index, args), fns, quiet)
<1>1. /\ Len(args) = 1 => Proper(args[1], fns, quiet)
      /\ Len(args) = 2 => Proper(args[1], fns, quiet) /\ Proper(args[2], fns, quiet)
  OBVIOUS
<1>2. /\ Outcome(VM!BuiltinLen(args), fns, quiet) /\ Outcome(VM!BuiltinPuts(args), fns, quiet)
      /\ Outcome(VM!BuiltinPush(args), fns, quiet)
      /\ Outcome(VM!BuiltinFirst(args), fns, quiet)
      /\ Outcome(VM!BuiltinLast(args), fns, quiet)
      /\ Outcome(VM!BuiltinRest(args), fns, quiet)
  BY <1>1, LenOutcome, PutsOutcome, PushOutcome, FirstOutcome
<1>3. Outcome(VM!Exit, fns, quiet)
  BY PlainOutcome
<1>4. VM!CallBuiltin(index, args) \in
        {VM!BuiltinLen(args), VM!BuiltinFirst(args), VM!BuiltinRest(args), VM!BuiltinPush(args),
         VM!BuiltinPuts(args), VM!BuiltinLast(args), VM!Exit}
  BY DEF VM!CallBuiltin
<1> QED BY <1>2, <1>3, <1>4

-----------------------------------------------------------------------------
(* The pool and the code in it *)

PoolPlain == \A i \in 1..Len(pool) : pool[i].t \in Scalars \cup {"COMPILED_FUNCTION"}

LEMMA PlainAdded ==
    ASSUME IsSequence(pool), PoolPlain, NEW STATE object, AddConstant(object),
           object.t \in Scalars \cup {"COMPILED_FUNCTION"}
    PROVE  PoolPlain'
<1>1. Len(pool) \in Nat
  BY SequenceForm
<1>2. /\ Len(pool') = Len(pool) + 1
      /\ \A i \in 1..Len(pool) : pool'[i] = pool[i]
      /\ pool'[Len(pool) + 1] = object
  BY SequenceAppend DEF AddConstant
<1>3. ASSUME NEW i \in 1..Len(pool') PROVE pool'[i].t \in Scalars \cup {"COMPILED_FUNCTION"}
  <2>1. CASE i \in 1..Len(pool)
    BY <1>2, <2>1 DEF PoolPlain
  <2>2. CASE i = Len(pool) + 1
    BY <1>2, <2>2
  <2> QED BY <1>1, <1>2, <1>3, <2>1, <2>2
<1> QED BY <1>3 DEF PoolPlain

LEMMA PlainStep ==
    ASSUME IsSequence(pool), PoolPlain, NextCompiler
    PROVE  PoolPlain'
<1>1. CASE Constant
  <2>1. Integer(Node.int).t \in Scalars /\ String(Node.string).t \in Scalars
    BY DEF Integer, String, Scalars, Values
  <2>2. CASE AddConstant(Integer(Node.int))
    BY <2>1, <2>2, PlainAdded
  <2>3. CASE AddConstant(String(Node.string))
    BY <2>1, <2>3, PlainAdded
  <2> QED BY <1>1, <2>2, <2>3 DEF Constant
<1>2. CASE FunctionEnd
  <2> DEFINE object == CompiledFunction(Code(Returning(Top)), tables[Len(tables)].num, Head(todo).params)
  <2>1. AddConstant(object)
    BY <1>2 DEF FunctionEnd
  <2>2. object.t = "COMPILED_FUNCTION"
    BY DEF CompiledFunction
  <2> HIDE DEF object
  <2> QED BY <2>1, <2>2, PlainAdded
<1>3. ASSUME UNCHANGED pool PROVE PoolPlain'
  BY <1>3 DEF PoolPlain
<1> QED BY <1>1, <1>2, <1>3
        DEF NextCompiler, LetStatement, ExpressionStatement, ReturnStatement, EmitOperator,
            BooleanLiteral, InfixExpression, PrefixExpression, ArrayLiteral, HashLiteral,
            Identifier, IndexExpression, CallExpression, IfExpression, IfConsequence,
            IfAlternative, IfEnd, FunctionLiteral

(* Functions are never taken out of the pool.                              *)
LEMMA FunctionsStay ==
    ASSUME IsSequence(pool), IsSequence(pool'), CodeStays
    PROVE  Functions \subseteq Functions'
<1>1. /\ DOMAIN pool = 1..Len(pool) /\ DOMAIN pool' = 1..Len(pool')
      /\ Len(pool) \in Nat /\ Len(pool') \in Nat
  BY SequenceForm
<1>2. ASSUME NEW i \in DOMAIN pool PROVE i \in DOMAIN pool' /\ pool'[i] = pool[i]
  BY <1>1 DEF CodeStays
<1>3. ASSUME NEW fn \in Functions PROVE fn \in Functions'
  <2>1. PICK i \in DOMAIN pool : fn = pool[i] /\ pool[i].t = "COMPILED_FUNCTION"
    BY DEF Functions
  <2> QED BY <1>2, <2>1 DEF Functions
<1> QED BY <1>3

LEMMA ReferringTiles ==
    ASSUME NEW code, NEW b, ReferringCode(code, b)
    PROVE  Tiled(code, Starts(code))
BY StartsOfTiled DEF ReferringCode

LEMMA FunctionReady ==
    ASSUME NEW Trees, OperandInv(Trees), NEW fn \in Functions
    PROVE  fn.locals \in Nat /\ Runs(fn.code, FALSE) /\ fn.code \in Streams
<1>1. DOMAIN pool = 1..Len(pool)
  BY OpenScopes, SequenceForm DEF OperandInv
<1>2. fn.code \in Seq(Byte) /\ Verifies(fn.code, FALSE)
  BY <1>1 DEF Functions, OperandInv, CodeInv, PoolRunnable, Runnable
<1>3. fn.locals \in Nat /\ Tiled(fn.code, Starts(fn.code))
  BY FunctionsRefer, ReferringTiles
<1>4. fn.code \in Streams
  BY DEF Streams
<1> QED BY <1>2, <1>3, <1>4 DEF Runs

MainCode == Code(scopes[1])

LEMMA MainReady ==
    ASSUME NEW Trees, OperandInv(Trees), Compiled
    PROVE  Runs(MainCode, TRUE) /\ MainCode \in Streams
<1>1. Verifies(MainCode, TRUE)
  BY MainVerifies DEF OperandInv, MainCode
<1>2. Tiled(MainCode, Starts(MainCode))
  BY MainRefers, ReferringTiles DEF MainCode
<1>3. MainCode \in Seq(Byte)
  BY <1>2 DEF Tiled
<1> QED BY <1>1, <1>2, <1>3 DEF Runs, Streams, MainCode

LEMMA InstructionReady ==
    ASSUME NEW Trees, OperandInv(Trees), Compiled, NEW code \in Streams,
           NEW p \in Starts(code), p # Len(code), NEW op, op = ByteAt(code, p)
    PROVE  LET x == Operands(code, p)[1]
           IN  /\ op = OP.CONSTANT => x < Len(pool) /\ pool[x + 1].t # "COMPILED_FUNCTION"
               /\ op \in {OP.GET_GLOBAL, OP.SET_GLOBAL} => x < tables[1].num
               /\ code = MainCode =>
                    op \notin {OP.GET_LOCAL, OP.SET_LOCAL, OP.GET_FREE, OP.CURRENT_CLOSURE}
               /\ x \in Used(code, op)
               /\ op = OP.CLOSURE => /\ x < Len(pool) /\ pool[x + 1].t = "COMPILED_FUNCTION"
                                     /\ Captures(pool[x + 1], Operands(code, p)[2])
               /\ NoBuiltins => op # OP.GET_BUILTIN
<1> DEFINE ins == [op |-> op, operands |-> Operands(code, p)]
<1>1. ins \in Instrs(code)
  BY DEF Instrs
<1>2. ins.op = op /\ ins.operands = Operands(code, p)
  OBVIOUS
<1> HIDE DEF ins
<1>3. ins.operands[1] \in Used(code, op)
  BY <1>1, <1>2 DEF Used
<1>4. OperandsExist
  BY OperandsThere
<1>5. op = OP.CONSTANT => Operands(code, p)[1] < Len(pool) /\ pool[Operands(code, p)[1] + 1].t # "COMPILED_FUNCTION"
  BY <1>2, <1>3, <1>4, Zenon DEF OperandsExist
<1>6. op \in {OP.GET_GLOBAL, OP.SET_GLOBAL} => Operands(code, p)[1] < tables[1].num
  BY <1>2, <1>3, GlobalsExist
<1>7. code = MainCode => op \notin {OP.GET_LOCAL, OP.SET_LOCAL, OP.GET_FREE, OP.CURRENT_CLOSURE}
  BY <1>1, <1>2, MainStands DEF MainCode
<1>8. NoBuiltins => op # OP.GET_BUILTIN
  BY <1>1, <1>2 DEF NoBuiltins, LoadsBuiltin
<1>9. Operands(code, p)[1] \in Used(code, op)
  BY <1>2, <1>3
<1>10. op = OP.CLOSURE =>
         /\ Operands(code, p)[1] < Len(pool) /\ pool[Operands(code, p)[1] + 1].t = "COMPILED_FUNCTION"
         /\ Captures(pool[Operands(code, p)[1] + 1], Operands(code, p)[2])
  <2>1. op = OP.CLOSURE => ins \in Closures
    BY <1>1, <1>2 DEF Closures
  <2> QED BY <1>2, <2>1, ClosuresMakeable DEF Suffices, Captures
<1> QED BY <1>5, <1>6, <1>7, <1>8, <1>9, <1>10

-----------------------------------------------------------------------------
(* The machine *)

(* The instructions of the machine are those of the compiler.              *)
LEMMA SameInstructions ==
    /\ VM!OP = OP
    /\ \A code, p : VM!ByteAt(code, p) = ByteAt(code, p)
    /\ \A op : VM!InstructionLength(op) = InstructionLength(op)
    /\ \A op, code, p : VM!ReadOperands(op, code, p) = ReadOperands(op, code, p)
<1>1. VM!OP = OP
  BY Zenon DEF VM!OP, OP
<1>2. VM!TwoByteOps = TwoByteOps /\ VM!OneByteOps = OneByteOps
  BY <1>1, Zenon DEF VM!TwoByteOps, TwoByteOps, VM!OneByteOps, OneByteOps
<1>3. \A op : VM!Widths(op) = Widths(op)
  BY <1>1, <1>2, Zenon DEF VM!Widths, Widths
<1>4. \A op, i : VM!Width(op, i) = Width(op, i)
  BY <1>3, Zenon DEF VM!Width, Width
<1>5. \A code, p : VM!ByteAt(code, p) = ByteAt(code, p)
  BY Zenon DEF VM!ByteAt, ByteAt
<1>6. \A code, p : VM!ReadUint16(code, p) = ReadUint16(code, p)
  BY <1>5, Zenon DEF VM!ReadUint16, ReadUint16
<1>7. \A op, i : VM!OperandOffset(op, i) = OperandOffset(op, i)
  BY <1>4, Zenon DEF VM!OperandOffset, OperandOffset
<1>8. \A op, code, p : VM!ReadOperands(op, code, p) = ReadOperands(op, code, p)
  <2>1. SUFFICES ASSUME NEW op, NEW code, NEW p
                 PROVE  VM!ReadOperands(op, code, p) = ReadOperands(op, code, p)
    OBVIOUS
  <2>2. \A i : (IF VM!Width(op, i) = 2 THEN VM!ReadUint16(code, p + VM!OperandOffset(op, i))
                ELSE VM!ByteAt(code, p + VM!OperandOffset(op, i)))
             = (IF Width(op, i) = 2 THEN ReadUint16(code, p + OperandOffset(op, i))
                ELSE ByteAt(code, p + OperandOffset(op, i)))
    BY <1>4, <1>5, <1>6, <1>7, Zenon
  <2> QED BY <1>3, <2>2 DEF VM!ReadOperands, ReadOperands
<1>9. \A op : VM!InstructionLength(op) = InstructionLength(op)
  BY <1>4, Zenon DEF VM!InstructionLength, InstructionLength
<1> QED BY <1>1, <1>5, <1>8, <1>9

(* No builtin is about while nothing has loaded one.                       *)
Quiet == line = 0 \/ (line = 1 /\ (status = "compiling" \/ (status = "running" /\ NoBuiltins)))

Fine(v) == Proper(v, Functions, Quiet)
GlobalsFine == DOMAIN globals = GlobalSlots /\ \A g \in GlobalSlots : Fine(globals[g])
StackFine == DOMAIN stack = 0..STACK_SIZE /\ \A i \in 0..STACK_SIZE : Fine(stack[i])

(* The main program is run through a closure of its own.                   *)
MainClosure == Closure(CompiledFunction(MainCode, 0, 0), << >>)
CallsFine ==
    /\ Len(frames) <= MAX_FRAMES
    /\ Stacked(frames, stack, sp, Quiet)
    /\ frames[1].closure = MainClosure /\ frames[1].bp = 0
    /\ \A k \in 2..Len(frames) : Fine(frames[k].closure) /\ frames[k].closure.t = "CLOSURE"

Stages == {"idle", "compiling", "running", "done", "error", "undefined", "exited"}
RunningFine == status = "running" => Compiled /\ StackFine /\ CallsFine

LineCounted == line \in Nat /\ (status \in {"compiling", "running"} => line # 0)

MachineInv == status \in Stages /\ LineCounted /\ PoolPlain /\ GlobalsFine /\ RunningFine

LEMMA FineStays ==
    ASSUME Functions \subseteq Functions', Quiet' => Quiet, NEW STATE v, Fine(v), v' = v
    PROVE  Fine(v)'
BY ProperMore DEF Fine

LEMMA FramesHave ==
    ASSUME NEW Trees, OperandInv(Trees), MachineInv, status = "running", NEW k \in 1..Len(frames)
    PROVE  /\ Runs(frames[k].closure.fn.code, k = 1)
           /\ frames[k].closure.fn.code \in Streams
           /\ k = 1 => frames[k].closure.fn.code = MainCode /\ frames[k].closure.fn.locals = 0
           /\ k # 1 => Fine(frames[k].closure)
<1>1. Compiled /\ CallsFine
  BY DEF MachineInv, RunningFine
<1>2. Len(frames) \in Nat
  BY <1>1, SequenceForm DEF CallsFine, Stacked
<1>3. CASE k = 1
  <2>1. frames[k].closure = MainClosure
    BY <1>1, <1>3 DEF CallsFine
  <2>2. MainClosure.fn.code = MainCode /\ MainClosure.fn.locals = 0
    BY DEF MainClosure, Closure, CompiledFunction
  <2> QED BY <1>1, <1>3, <2>1, <2>2, MainReady
<1>4. CASE k # 1
  <2>1. k \in 2..Len(frames)
    BY <1>2, <1>4
  <2>2. Fine(frames[k].closure) /\ frames[k].closure.t = "CLOSURE"
    BY <1>1, <2>1 DEF CallsFine
  <2>3. frames[k].closure.fn \in Functions
    BY <2>2, ProperParts DEF Fine
  <2> QED BY <1>4, <2>2, <2>3, FunctionReady
<1> QED BY <1>3, <1>4

(* Before an instruction: where the current call is, and with how many     *)
(* operands.                                                               *)
Executing(code, p, op, d) ==
    /\ code = VM!Instructions /\ p = VM!Ip /\ op = ByteAt(code, p) /\ VM!Op = op
    /\ \A i : VM!Arg(i) = Operands(code, p)[i]
    /\ VM!Executed = p + InstructionLength(op) - 1
    /\ code \in Streams /\ (Len(frames) = 1 => code = MainCode)
    /\ p \in Nat /\ p \in Starts(code) /\ p # Len(code) /\ code \in Seq(Byte)
    /\ d \in Nat /\ <<p, d>> \in Reached(code) /\ Departs(code, p, d)
    /\ VM!Frame = frames[Len(frames)] /\ IsFrame(VM!Frame)
    /\ sp - Base(VM!Frame) >= d /\ (Quiet => sp - Base(VM!Frame) = d)

LEMMA StepBegins ==
    ASSUME NEW Trees, OperandInv(Trees), MachineInv, VM!More
    PROVE  \E code, p, op, d : Executing(code, p, op, d)
<1> DEFINE n == Len(frames)
           f == frames[n]
           code == f.closure.fn.code
           p == f.ip + 1
           op == ByteAt(code, p)
<1>1. status = "running" /\ f.ip < Len(code) - 1
  BY DEF VM!More, VM!Frame, VM!Instructions
<1>2. Stacked(frames, stack, sp, Quiet)
  BY <1>1 DEF MachineInv, RunningFine, CallsFine
<1>3. n \in 1..n
  BY <1>2, SequenceForm DEF Stacked
<1>4. Runs(code, n = 1) /\ code \in Streams /\ (n = 1 => code = MainCode)
  BY <1>1, <1>3, FramesHave
<1>5. IsFrame(f) /\ InStep(f, sp, Quiet)
  <2>1. IsFrame(f) /\ InStep(f, Upper(frames, sp, n), Quiet)
    BY <1>2, <1>3 DEF Stacked
  <2> QED BY <2>1 DEF Upper
<1>6. PICK d \in Nat : /\ <<p, d>> \in Reached(code)
                       /\ sp - Base(f) >= d /\ (Quiet => sp - Base(f) = d)
  BY <1>5 DEF InStep
<1>7. p \in Starts(code) /\ p \in Nat
  BY <1>4, <1>6, PathsArrive DEF Arrives
<1>8. p # Len(code)
  <2>1. f.ip \in Int /\ Len(code) \in Nat
    BY <1>4, <1>5 DEF IsFrame, Runs
  <2> QED BY <1>1, <2>1
<1>9. Departs(code, p, d) /\ code \in Seq(Byte)
  BY <1>4, <1>6, <1>8, PathsLead DEF Runs
<1>10. code = VM!Instructions /\ p = VM!Ip /\ VM!Frame = f
  BY Zenon DEF VM!Instructions, VM!Ip, VM!Frame
<1>11. VM!Op = op
  BY <1>10, SameInstructions, Zenon DEF VM!Op
<1> HIDE DEF f, code, p, op, n
<1>12. \A i : VM!Arg(i) = Operands(code, p)[i]
  BY <1>10, <1>11, SameInstructions, Zenon DEF VM!Arg, Operands, op
<1>13. VM!Executed = p + InstructionLength(op) - 1
  BY <1>10, <1>11, SameInstructions, Zenon DEF VM!Executed
<1>14. Executing(code, p, op, d)
  BY <1>4, <1>5, <1>6, <1>7, <1>8, <1>9, <1>10, <1>11, <1>12, <1>13
     DEF Executing, op, n, f
<1> QED BY <1>14

LEMMA SameEnvironment ==
    ASSUME UNCHANGED <<compilerVars, line>>
    PROVE  /\ Functions' = Functions /\ NoBuiltins' = NoBuiltins /\ MainClosure' = MainClosure
           /\ Compiled' = Compiled /\ (PoolPlain => PoolPlain') /\ Streams' = Streams
           /\ (status' = status => Quiet' = Quiet)
<1>1. UNCHANGED <<pool, scopes, line, todo, err>>
  BY DEF compilerVars
<1>2. Functions' = Functions
  BY <1>1 DEF Functions
<1>3. Streams' = Streams
  BY <1>1, <1>2 DEF Streams, Code
<1>4. NoBuiltins' = NoBuiltins
  BY <1>1, <1>3 DEF NoBuiltins
<1>5. MainClosure' = MainClosure
  BY <1>1 DEF MainClosure, MainCode, Code
<1>6. Compiled' = Compiled /\ (PoolPlain => PoolPlain')
  BY <1>1 DEF Compiled, PoolPlain
<1>7. status' = status => Quiet' = Quiet
  BY <1>1, <1>4 DEF Quiet
<1> QED BY <1>2, <1>3, <1>4, <1>5, <1>6, <1>7

(* What has been fine stays so while no code is added.                     *)
LEMMA GlobalsStay ==
    ASSUME GlobalsFine, UNCHANGED globals, Functions \subseteq Functions', Quiet' => Quiet
    PROVE  GlobalsFine'
<1>1. ASSUME NEW g \in GlobalSlots PROVE Fine(globals[g])'
  BY ProperMore DEF GlobalsFine, Fine
<1> QED BY <1>1 DEF GlobalsFine

(* The machine stops.                                                      *)
LEMMA Stops ==
    ASSUME MachineInv, UNCHANGED <<compilerVars, line, globals>>, status' \in Stages \ {"running", "compiling"}
    PROVE  MachineInv'
<1>1. Functions \subseteq Functions' /\ PoolPlain'
  BY SameEnvironment DEF MachineInv
<1>2. Quiet' => Quiet
  BY DEF Quiet
<1>3. GlobalsFine'
  BY <1>1, <1>2, GlobalsStay DEF MachineInv
<1>4. RunningFine'
  BY DEF RunningFine
<1> QED BY <1>1, <1>3, <1>4 DEF MachineInv, LineCounted

LEMMA MovedFrames ==
    ASSUME NEW fs, NEW st, NEW s, NEW quiet, Stacked(fs, st, s, quiet), NEW ip
    PROVE  LET gs == MovedTo(fs, ip)
           IN  /\ Len(gs) = Len(fs)
               /\ \A k \in 1..Len(fs) : gs[k].closure = fs[k].closure /\ gs[k].bp = fs[k].bp
<1> DEFINE gs == MovedTo(fs, ip)
           n == Len(fs)
           g == [fs[n] EXCEPT !.ip = ip]
<1>1. IsSequence(fs) /\ n \in 1..n /\ DOMAIN fs = 1..n
  BY SequenceForm DEF Stacked
<1>2. DOMAIN fs[n] = {"closure", "ip", "bp"}
  BY <1>1 DEF Stacked, IsFrame
<1>3. g.closure = fs[n].closure /\ g.bp = fs[n].bp
  BY <1>2
<1>4. gs = [fs EXCEPT ![n] = g]
  BY DEF MovedTo
<1> HIDE DEF g, gs
<1>5. Len(gs) = n /\ \A k \in 1..n : gs[k] = IF k = n THEN g ELSE fs[k]
  BY <1>1, <1>4, SequenceExcept
<1> HIDE DEF n
<1> QED BY <1>3, <1>5 DEF n, gs

(* An instruction takes n operands off the stack, leaves m there and goes  *)
(* on to q, and the slots below the current call stay.                     *)
LEMMA GoesOn ==
    ASSUME NEW Trees, OperandInv(Trees), MachineInv, status = "running",
           UNCHANGED <<compilerVars, line, status>>,
           NEW STATE code, NEW STATE p, NEW STATE op, NEW STATE d, Executing(code, p, op, d),
           NEW STATE n, n \in Nat, n <= Pops(code, p), Quiet => n = Pops(code, p),
           NEW STATE m, m = Pushes(code, p),
           NEW STATE q, q \in Successors(code, p),
           sp' = sp - n + m, frames' = VM!Moved(q - 1),
           GlobalsFine', StackFine',
           \A i \in Nat : i < VM!Frame.bp => stack'[i] = stack[i]
    PROVE  MachineInv'
<1> DEFINE f == VM!Frame
           e == d - Pops(code, p) + Pushes(code, p)
           k == Len(frames)
<1>1. Compiled /\ CallsFine /\ Stacked(frames, stack, sp, Quiet)
  BY DEF MachineInv, RunningFine, CallsFine
<1>2. k \in 1..k /\ k \in Nat /\ k > 0 /\ sp \in Nat
  BY <1>1, SequenceForm DEF Stacked
<1>3. f = frames[k] /\ code = f.closure.fn.code
  BY Zenon DEF VM!Frame, VM!Instructions, Executing
<1>4. /\ d \in Nat /\ Pops(code, p) \in Nat /\ Pushes(code, p) \in {0, 1} /\ Pops(code, p) <= d
      /\ <<q, e>> \in Reached(code)
  BY DEF Executing, Departs
<1>5. e \in Nat
  BY <1>4
<1>6. Runs(code, k = 1)
  BY <1>2, <1>3, FramesHave
<1>7. q \in Nat
  <2>1. q \in 0..Len(code)
    BY <1>4, <1>6, PathsArrive DEF Arrives
  <2> QED BY <2>1
<1>8. Base(f) \in Nat /\ sp - Base(f) >= d /\ (Quiet => sp - Base(f) = d)
  BY FrameNumbers DEF Executing
<1>9. sp' \in Nat /\ sp' - Base(f) >= e /\ (Quiet => sp' - Base(f) = e)
  <2> HIDE DEF f
  <2>1. sp' = sp - n + Pushes(code, p)
    OBVIOUS
  <2> QED BY <1>2, <1>4, <1>8, <2>1
<1>10. frames' = MovedTo(frames, q - 1)
  BY Zenon DEF VM!Moved, MovedTo
<1> HIDE DEF f, e
<1>11. Stacked(frames', stack', sp', Quiet)
  <2>1. \A i \in Nat : i < f.bp => stack'[i] = stack[i]
    BY DEF f
  <2>2. <<q, e>> \in Reached(f.closure.fn.code)
    BY <1>3, <1>4
  <2>3. Stacked(MovedTo(frames, q - 1), stack', sp', Quiet)
    BY <1>1, <1>3, <1>5, <1>7, <1>9, <2>1, <2>2, TopMoves
  <2> QED BY <1>10, <2>3
<1>12. Len(frames') = k /\ \A j \in 1..k : frames'[j].closure = frames[j].closure /\ frames'[j].bp = frames[j].bp
  BY <1>1, <1>10, MovedFrames
<1>13. Quiet' = Quiet /\ Functions' = Functions /\ MainClosure' = MainClosure /\ Compiled' /\ PoolPlain'
  BY <1>1, SameEnvironment DEF MachineInv
<1>14. CallsFine'
  <2>1. 1 \in 1..k /\ \A j \in 2..k : j \in 1..k
    BY <1>2
  <2>2. k <= MAX_FRAMES /\ frames[1].closure = MainClosure /\ frames[1].bp = 0
        /\ \A j \in 2..k : Fine(frames[j].closure) /\ frames[j].closure.t = "CLOSURE"
    BY <1>1 DEF CallsFine
  <2>3. ASSUME NEW j \in 2..k PROVE Fine(frames[j].closure)' /\ frames'[j].closure.t = "CLOSURE"
    <3>1. frames'[j].closure = frames[j].closure
      BY <1>12, <2>1
    <3> QED BY <1>13, <2>2, <3>1 DEF Fine
  <2>4. frames'[1].closure = MainClosure' /\ frames'[1].bp = 0
    BY <1>12, <1>13, <2>1, <2>2
  <2>5. Stacked(frames', stack', sp', Quiet')
    BY <1>11, <1>13
  <2> QED BY <1>12, <2>2, <2>3, <2>4, <2>5 DEF CallsFine
<1>15. RunningFine'
  BY <1>13, <1>14 DEF RunningFine
<1> QED BY <1>13, <1>15 DEF MachineInv, LineCounted, Stages

-----------------------------------------------------------------------------
(* One instruction *)

(* The machine makes a step, the compiler does not.                        *)
MachineSteps(Trees) == OperandInv(Trees) /\ MachineInv /\ UNCHANGED <<compilerVars, line>>

LEMMA AtMeans ==
    ASSUME NEW ops, VM!At(ops)
    PROVE  VM!More /\ status = "running" /\ VM!Op \in ops
BY Zenon DEF VM!At, VM!More, VM!Op

LEMMA OperandFine ==
    ASSUME MachineInv, status = "running", NEW STATE n, n \in Nat, VM!Holds(n),
           NEW STATE i, i \in 1..n
    PROVE  Fine(VM!Operand(i)) /\ sp - i \in 0..STACK_SIZE
<1>1. StackFine /\ sp \in Nat
  BY DEF MachineInv, RunningFine, CallsFine, Stacked
<1>2. n <= sp /\ (n > 0 => sp <= STACK_SIZE + 1)
  BY DEF VM!Holds
<1>3. STACK_SIZE \in Nat
  BY SizesAssumption
<1>4. sp - i \in 0..STACK_SIZE
  BY <1>1, <1>2, <1>3
<1> QED BY <1>1, <1>4 DEF StackFine, VM!Operand

LEMMA OperandsFine ==
    ASSUME MachineInv, status = "running", NEW STATE n, n \in Nat, VM!Holds(n)
    PROVE  /\ IsSequence(VM!LastOperands(n)) /\ Len(VM!LastOperands(n)) = n
           /\ \A i \in 1..n : Fine(VM!LastOperands(n)[i])
<1> DEFINE xs == VM!LastOperands(n)
<1>1. xs = [i \in 1..n |-> VM!Operand(n + 1 - i)]
  BY Zenon DEF VM!LastOperands
<1>2. IsSequence(xs) /\ Len(xs) = n
  <2>1. xs \in [1..n -> {VM!Operand(n + 1 - i) : i \in 1..n}]
    BY <1>1
  <2> HIDE DEF xs
  <2> QED BY <2>1, SequenceMade DEF IsSequence
<1> HIDE DEF xs
<1>3. ASSUME NEW i \in 1..n PROVE Fine(xs[i])
  <2>1. n + 1 - i \in 1..n
    OBVIOUS
  <2>2. xs[i] = VM!Operand(n + 1 - i)
    BY <1>1
  <2> QED BY <2>1, <2>2, OperandFine
<1> QED BY <1>2, <1>3 DEF xs

StopsHow == {"undefined", "error", "exited", "done"}
LEMMA StopStep ==
    ASSUME NEW Trees, MachineSteps(Trees), NEW STATE how, how \in StopsHow, VM!Stop(how)
    PROVE  MachineInv'
BY Stops DEF MachineSteps, VM!Stop, StopsHow, Stages

SlotWritten(st, i, v) == [st EXCEPT ![i] = v]

(* What is written above the base of the current call leaves what is below *)
(* it.                                                                     *)
LEMMA StackWritten ==
    ASSUME StackFine, Functions' = Functions, Quiet' = Quiet, NEW STATE i, NEW STATE v, Fine(v),
           stack' = SlotWritten(stack, i, v)
    PROVE  StackFine' /\ \A j \in Nat : j # i => stack'[j] = stack[j]
<1>1. DOMAIN stack' = 0..STACK_SIZE
  BY DEF StackFine, SlotWritten
<1>2. ASSUME NEW j, j # i PROVE stack'[j] = stack[j]
  BY <1>2 DEF SlotWritten
<1>3. ASSUME NEW j \in 0..STACK_SIZE PROVE stack'[j] = v \/ stack'[j] = stack[j]
  BY DEF StackFine, SlotWritten
<1>4. ASSUME NEW j \in 0..STACK_SIZE PROVE Fine(stack[j])'
  <2>1. Fine(stack[j]) /\ Fine(v)
    BY DEF StackFine
  <2> QED BY <1>3, <2>1 DEF Fine
<1> QED BY <1>1, <1>2, <1>4 DEF StackFine

(* Instructions that leave a value.                                        *)
Silent == {OP.POP, OP.SET_GLOBAL, OP.SET_LOCAL} \cup Jumps \cup Ends

LEMMA GoesOnTo ==
    ASSUME NEW code, NEW p, NEW op, op = ByteAt(code, p)
    PROVE  /\ op \notin Ends \cup Jumps => p + InstructionLength(op) \in Successors(code, p)
           /\ op = OP.JUMP => Operands(code, p)[1] \in Successors(code, p)
           /\ op = OP.JUMP_NOT_TRUTHY =>
                /\ p + InstructionLength(op) \in Successors(code, p)
                /\ Operands(code, p)[1] \in Successors(code, p)
           /\ op \in Silent => Pushes(code, p) = 0
           /\ op \notin Silent => Pushes(code, p) = 1
BY Opcodes DEF Successors, Pushes, Silent, Jumps, Ends

(* n operands are what the instruction takes, or fewer.                    *)
Uses(n) ==
    \A code, p, op, d :
        Executing(code, p, op, d) =>
            /\ op \notin Silent /\ n \in Nat /\ n <= Pops(code, p)
            /\ Quiet => n = Pops(code, p)

LEMMA UsesAll ==
    /\ VM!Op \in Loads => Uses(0)
    /\ VM!Op \in BinaryOps => Uses(2)
    /\ VM!Op \in {OP.MINUS, OP.BANG} => Uses(1)
    /\ VM!Op \in {OP.ARRAY, OP.HASH} => Uses(VM!Arg(1))
    /\ VM!Op = OP.CLOSURE => Uses(VM!Arg(2))
    /\ VM!Op = OP.CALL /\ ~Quiet => Uses(0)
<1>1. \A code, p, op, d : Executing(code, p, op, d) =>
         /\ VM!Op = op /\ op = ByteAt(code, p) /\ Pops(code, p) \in Nat
         /\ VM!Arg(1) = Operands(code, p)[1] /\ VM!Arg(2) = Operands(code, p)[2]
  BY DEF Executing, Departs
<1>2. ASSUME NEW code, NEW p, NEW op, NEW d, Executing(code, p, op, d)
      PROVE  /\ op \in Loads => op \notin Silent /\ Pops(code, p) = 0
             /\ op \in BinaryOps => op \notin Silent /\ Pops(code, p) = 2
             /\ op \in {OP.MINUS, OP.BANG} => op \notin Silent /\ Pops(code, p) = 1
             /\ op \in {OP.ARRAY, OP.HASH} => op \notin Silent /\ Pops(code, p) = VM!Arg(1)
             /\ op = OP.CLOSURE => op \notin Silent /\ Pops(code, p) = VM!Arg(2)
             /\ op = OP.CALL => op \notin Silent
  <2>1. /\ op \in Loads \cup BinaryOps \cup {OP.MINUS, OP.BANG, OP.ARRAY, OP.HASH, OP.CLOSURE, OP.CALL}
             => op \notin Silent
        /\ op \in {OP.MINUS, OP.BANG} =>
             op \notin Loads \cup {OP.JUMP, OP.RETURN} \cup BinaryOps
                \cup {OP.ARRAY, OP.HASH, OP.CALL, OP.CLOSURE}
    BY Opcodes DEF Silent, Jumps, Ends, Loads, BinaryOps
  <2>2. op = ByteAt(code, p) /\ VM!Arg(1) = Operands(code, p)[1] /\ VM!Arg(2) = Operands(code, p)[2]
    BY <1>1, <1>2
  <2>3. /\ op \in Loads => Pops(code, p) = 0
        /\ op \in BinaryOps => Pops(code, p) = 2
        /\ op \in {OP.MINUS, OP.BANG} => Pops(code, p) = 1
        /\ op \in {OP.ARRAY, OP.HASH} => Pops(code, p) = VM!Arg(1)
        /\ op = OP.CLOSURE => Pops(code, p) = VM!Arg(2)
    BY <2>1, <2>2, PopsOf
  <2> QED BY <2>1, <2>3
<1>3. ASSUME NEW n, \A code, p, op, d : Executing(code, p, op, d) =>
                        op \notin Silent /\ Pops(code, p) \in Nat /\ n = Pops(code, p)
      PROVE  Uses(n)
  BY <1>3 DEF Uses
<1>4. VM!Op = OP.CALL /\ ~Quiet => Uses(0)
  BY <1>1, <1>2 DEF Uses
<1> QED BY <1>1, <1>2, <1>3, <1>4

LEMMA YieldMeans ==
    ASSUME NEW STATE n, NEW STATE o, VM!Yield(n, o), n \in Nat, sp \in Nat
    PROVE  \/ \E how \in StopsHow : VM!Stop(how)
           \/ /\ VM!Holds(n) /\ o \notin {VM!Undefined, VM!Error, VM!Exit} /\ sp - n <= STACK_SIZE
              /\ stack' = SlotWritten(stack, sp - n, o) /\ sp' = sp - n + 1
              /\ frames' = VM!Moved(VM!Executed) /\ UNCHANGED <<globals, status>>
<1>1. STACK_SIZE \in Nat
  BY SizesAssumption
<1>2. \/ VM!Stop("undefined") \/ VM!Stop("error") \/ VM!Stop("exited")
      \/ /\ VM!Holds(n) /\ o \notin {VM!Undefined, VM!Error, VM!Exit} /\ ~(sp - n > STACK_SIZE)
         /\ stack' = SlotWritten(stack, sp - n, o) /\ sp' = sp - n + 1
         /\ frames' = VM!Moved(VM!Executed) /\ UNCHANGED <<globals, status>>
  BY DEF VM!Yield, SlotWritten
<1>3. ~(sp - n > STACK_SIZE) => sp - n <= STACK_SIZE
  BY <1>1
<1>4. "undefined" \in StopsHow /\ "error" \in StopsHow /\ "exited" \in StopsHow
  BY DEF StopsHow
<1> QED BY <1>2, <1>3, <1>4, Zenon

LEMMA Yields ==
    ASSUME NEW Trees, MachineSteps(Trees), VM!More, NEW STATE n, Uses(n), NEW STATE o, VM!Yield(n, o),
           VM!Holds(n) => Outcome(o, Functions, Quiet)
    PROVE  MachineInv'
<1>1. PICK code, p, op, d : Executing(code, p, op, d)
  BY StepBegins DEF MachineSteps
<1>2. op \notin Silent /\ n \in Nat /\ n <= Pops(code, p) /\ (Quiet => n = Pops(code, p))
  BY <1>1 DEF Uses
<1>3. /\ OperandInv(Trees) /\ MachineInv /\ UNCHANGED <<compilerVars, line>>
      /\ status = "running" /\ CallsFine /\ StackFine /\ sp \in Nat
  BY DEF MachineSteps, VM!More, MachineInv, RunningFine, CallsFine, Stacked
<1>4. CASE \E how \in StopsHow : VM!Stop(how)
  BY <1>4, StopStep
<1>5. CASE /\ VM!Holds(n) /\ o \notin {VM!Undefined, VM!Error, VM!Exit} /\ sp - n <= STACK_SIZE
           /\ stack' = SlotWritten(stack, sp - n, o) /\ sp' = sp - n + 1
           /\ frames' = VM!Moved(VM!Executed) /\ UNCHANGED <<globals, status>>
  <2>1. Fine(o)
    BY <1>5, SameObjects DEF Outcome, Fine
  <2>2. Functions' = Functions /\ Quiet' = Quiet
    BY <1>3, <1>5, SameEnvironment
  <2>3. StackFine' /\ \A j \in Nat : j # sp - n => stack'[j] = stack[j]
    BY <1>3, <1>5, <2>1, <2>2, StackWritten
  <2>4. GlobalsFine'
    BY <1>3, <1>5, <2>2, GlobalsStay DEF MachineInv
  <2>5. op \notin Ends \cup Jumps /\ op = ByteAt(code, p) /\ Pushes(code, p) = 1
    BY <1>1, <1>2, GoesOnTo DEF Silent, Executing
  <2>6. p + InstructionLength(op) \in Successors(code, p)
    BY <2>5, GoesOnTo
  <2>7. VM!Executed = p + InstructionLength(op) - 1
    BY <1>1, Zenon DEF Executing
  <2>8. \A j \in Nat : j < VM!Frame.bp => stack'[j] = stack[j]
    <3>1. d \in Nat /\ Pops(code, p) \in Nat /\ Pops(code, p) <= d /\ sp - Base(VM!Frame) >= d
          /\ IsFrame(VM!Frame)
      BY <1>1 DEF Executing, Departs
    <3>2. VM!Frame.bp \in Nat /\ Base(VM!Frame) \in Nat /\ VM!Frame.bp <= Base(VM!Frame)
      BY <3>1, FrameNumbers
    <3>3. VM!Frame.bp <= sp - n
      BY <1>2, <1>3, <3>1, <3>2
    <3>4. ASSUME NEW j \in Nat, j < VM!Frame.bp PROVE j # sp - n
      BY <1>2, <1>3, <3>2, <3>3, <3>4
    <3> QED BY <2>3, <3>4
  <2> DEFINE m == Pushes(code, p)
  <2>q. PICK q : q = p + InstructionLength(op)
    OBVIOUS
  <2>9. q \in Successors(code, p) /\ frames' = VM!Moved(q - 1) /\ sp' = sp - n + m
    <3>1. VM!Executed = q - 1
      <4>1. InstructionLength(op) \in Nat /\ p \in Nat
        BY <1>1, Shapes DEF Executing, InstructionLength
      <4> QED BY <2>q, <2>7, <4>1
    <3>2. sp' = sp - n + m
      BY <1>5, <2>5
    <3> QED BY <1>5, <2>6, <2>q, <3>1, <3>2, Zenon
  <2>10. UNCHANGED <<compilerVars, line, status>> /\ m = Pushes(code, p)
    BY <1>3, <1>5
  <2> HIDE DEF m
  <2> QED BY <1>1, <1>2, <1>3, <2>3, <2>4, <2>8, <2>9, <2>10, GoesOn
<1> QED BY <1>2, <1>3, <1>4, <1>5, YieldMeans

(* Instructions that take one operand and leave nothing, or none at all.   *)
LEMMA Drops ==
    ASSUME NEW Trees, MachineSteps(Trees), VM!More,
           NEW STATE code, NEW STATE p, NEW STATE op, NEW STATE d, Executing(code, p, op, d),
           NEW STATE n, n \in {0, 1}, n = Pops(code, p), Pushes(code, p) = 0,
           NEW STATE q, q \in Successors(code, p),
           sp' = sp - n, frames' = VM!Moved(q - 1), status' = status,
           GlobalsFine', StackFine',
           \A i \in Nat : i < VM!Frame.bp => stack'[i] = stack[i]
    PROVE  MachineInv'
<1>1. /\ OperandInv(Trees) /\ MachineInv /\ UNCHANGED <<compilerVars, line>>
      /\ status = "running" /\ sp \in Nat
  BY DEF MachineSteps, VM!More, MachineInv, RunningFine, CallsFine, Stacked
<1>2. n \in Nat /\ n <= Pops(code, p) /\ sp' = sp - n + 0
  BY <1>1
<1> QED BY <1>1, <1>2, GoesOn

LEMMA StackStays ==
    ASSUME StackFine, Functions' = Functions, Quiet' = Quiet, UNCHANGED stack
    PROVE  StackFine' /\ \A j \in Nat : stack'[j] = stack[j]
BY DEF StackFine, Fine

LEMMA ArgsAre ==
    ASSUME NEW STATE code, NEW STATE p, NEW STATE op, NEW STATE d, Executing(code, p, op, d)
    PROVE  /\ op \in TwoByteOps \cup OneByteOps \cup {OP.CLOSURE} => VM!Arg(1) \in Nat
           /\ op = OP.CLOSURE => VM!Arg(2) \in Nat
<1>1. /\ code \in Seq(Byte) /\ p \in Nat /\ op = ByteAt(code, p)
      /\ p + InstructionLength(op) <= Len(code)
      /\ VM!Arg(1) = Operands(code, p)[1] /\ VM!Arg(2) = Operands(code, p)[2]
  BY DEF Executing, Departs
<1>2. op \in TwoByteOps \cup OneByteOps \cup {OP.CLOSURE} => Width(op, 1) # 0
  BY WidthsOf
<1>3. op = OP.CLOSURE => Width(op, 2) # 0
  BY WidthsOf
<1>4. /\ Width(op, 1) # 0 => Operands(code, p)[1] \in Word
      /\ Width(op, 2) # 0 => Operands(code, p)[2] \in Byte
  BY <1>1, OperandsRead
<1>5. Word \subseteq Nat /\ Byte \subseteq Nat
  BY DEF Word, Byte
<1> QED BY <1>1, <1>2, <1>3, <1>4, <1>5

LEMMA FineOutcome ==
    ASSUME NEW STATE o, Fine(o)
    PROVE  Outcome(o, Functions, Quiet)
BY DEF Fine, Outcome

LEMMA ConstantThere ==
    ASSUME NEW Trees, MachineSteps(Trees), VM!More, VM!Op = OP.CONSTANT
    PROVE  VM!Arg(1) < Len(pool) /\ pool[VM!Arg(1) + 1].t \in Scalars
<1>1. status = "running"
  BY DEF VM!More
<1>2. PICK code, p, op, d : Executing(code, p, op, d)
  BY <1>1, StepBegins DEF MachineSteps
<1>3. /\ op = OP.CONSTANT /\ code \in Streams /\ p \in Starts(code) /\ p # Len(code)
      /\ op = ByteAt(code, p) /\ VM!Arg(1) = Operands(code, p)[1]
  BY <1>1, <1>2 DEF Executing
<1>4. OperandInv(Trees) /\ Compiled /\ PoolPlain
  BY <1>1 DEF MachineSteps, MachineInv, RunningFine
<1>5. VM!Arg(1) \in Nat
  <2>1. OP.CONSTANT \in TwoByteOps
    BY Zenon DEF TwoByteOps
  <2> QED BY <1>2, <1>3, <2>1, ArgsAre
<1>6. VM!Arg(1) < Len(pool) /\ pool[VM!Arg(1) + 1].t # "COMPILED_FUNCTION"
  BY <1>3, <1>4, InstructionReady
<1>7. Len(pool) \in Nat
  BY <1>4, OpenScopes DEF OperandInv
<1>8. VM!Arg(1) + 1 \in 1..Len(pool)
  BY <1>5, <1>6, <1>7
<1> QED BY <1>4, <1>6, <1>8 DEF PoolPlain

LEMMA ConstantPushed ==
    ASSUME NEW Trees, MachineSteps(Trees), VM!PushConstant
    PROVE  MachineInv'
<1> DEFINE o == IF VM!Arg(1) < Len(pool) THEN pool[VM!Arg(1) + 1] ELSE VM!Undefined
<1>1. VM!At({VM!OP.CONSTANT}) /\ VM!Yield(0, o)
  BY Zenon DEF VM!PushConstant
<1>2. VM!More /\ VM!Op = OP.CONSTANT
  BY <1>1, AtMeans, SameInstructions
<1>3. Uses(0)
  BY <1>2, UsesAll DEF Loads
<1>4. o.t \in Scalars
  BY <1>2, ConstantThere
<1> HIDE DEF o
<1>5. Outcome(o, Functions, Quiet)
  BY <1>4, PlainOutcome
<1> QED BY <1>1, <1>2, <1>3, <1>5, Yields

LEMMA LiteralPushed ==
    ASSUME NEW Trees, MachineSteps(Trees), VM!PushLiteral
    PROVE  MachineInv'
<1> DEFINE o == IF VM!Op = VM!OP.NULL THEN VM!Null ELSE VM!Boolean(VM!Op = VM!OP.TRUE)
<1>1. VM!At({VM!OP.TRUE, VM!OP.FALSE, VM!OP.NULL}) /\ VM!Yield(0, o)
  BY Zenon DEF VM!PushLiteral
<1>2. VM!More /\ VM!Op \in {OP.TRUE, OP.FALSE, OP.NULL}
  BY <1>1, AtMeans, SameInstructions
<1>3. Uses(0)
  BY <1>2, UsesAll DEF Loads
<1>4. o.t \in Scalars
  BY PlainObjects
<1> HIDE DEF o
<1>5. Outcome(o, Functions, Quiet)
  BY <1>4, PlainOutcome
<1> QED BY <1>1, <1>2, <1>3, <1>5, Yields

LEMMA OnObjectsMeans ==
    ASSUME NEW STATE n, NEW STATE o, VM!Holds(n), Outcome(o, Functions, Quiet)
    PROVE  Outcome(VM!OnObjects(n, o), Functions, Quiet)
<1>1. VM!OnObjects(n, o) \in {o, VM!Undefined}
  BY DEF VM!OnObjects, VM!Checked
<1>2. Outcome(VM!Undefined, Functions, Quiet)
  BY PlainOutcome
<1> QED BY <1>1, <1>2

LEMMA BinaryDone ==
    ASSUME NEW Trees, MachineSteps(Trees), VM!BinaryOperation
    PROVE  MachineInv'
<1> DEFINE o == VM!Binary(VM!Op, VM!Operand(2), VM!Operand(1))
<1>1. VM!At({VM!OP.ADD, VM!OP.SUB, VM!OP.MUL, VM!OP.DIV}) /\ VM!Yield(2, VM!OnObjects(2, o))
  BY Zenon DEF VM!BinaryOperation
<1>2. VM!More /\ VM!Op \in {OP.ADD, OP.SUB, OP.MUL, OP.DIV}
      /\ VM!Op \in {VM!OP.ADD, VM!OP.SUB, VM!OP.MUL, VM!OP.DIV}
  BY <1>1, AtMeans, SameInstructions
<1>3. Uses(2)
  BY <1>2, UsesAll DEF BinaryOps
<1>4. Outcome(o, Functions, Quiet)
  BY <1>2, BinaryOutcome
<1> HIDE DEF o
<1>5. VM!Holds(2) => Outcome(VM!OnObjects(2, o), Functions, Quiet)
  BY <1>4, OnObjectsMeans
<1> QED BY <1>1, <1>2, <1>3, <1>5, Yields

LEMMA ComparisonDone ==
    ASSUME NEW Trees, MachineSteps(Trees), VM!Comparison
    PROVE  MachineInv'
<1> DEFINE outcomes == IF VM!OnObjects(2, VM!Null) = VM!Null
                       THEN VM!Comparisons(VM!Op, VM!Operand(2), VM!Operand(1)) ELSE {VM!Undefined}
<1>1. /\ VM!At({VM!OP.EQUAL, VM!OP.NOT_EQUAL, VM!OP.GREATER_THAN})
      /\ \E o \in outcomes : VM!Yield(2, o)
  BY Zenon DEF VM!Comparison
<1>2. VM!More /\ VM!Op \in {OP.EQUAL, OP.NOT_EQUAL, OP.GREATER_THAN}
      /\ VM!Op \in {VM!OP.EQUAL, VM!OP.NOT_EQUAL, VM!OP.GREATER_THAN}
  BY <1>1, AtMeans, SameInstructions
<1>3. Uses(2)
  BY <1>2, UsesAll DEF BinaryOps
<1>4. \A o \in outcomes : Outcome(o, Functions, Quiet)
  BY <1>2, ComparisonOutcome, PlainOutcome
<1> HIDE DEF outcomes
<1>5. ASSUME NEW o \in outcomes, VM!Yield(2, o) PROVE MachineInv'
  BY <1>2, <1>3, <1>4, <1>5, Yields
<1> QED BY <1>1, <1>5

LEMMA MinusDone ==
    ASSUME NEW Trees, MachineSteps(Trees), VM!Minus
    PROVE  MachineInv'
<1> DEFINE o == IF VM!Operand(1).t = "INTEGER" THEN VM!Integer(-VM!Operand(1).int) ELSE VM!Error
<1>1. VM!At({VM!OP.MINUS}) /\ VM!Yield(1, VM!OnObjects(1, o))
  BY Zenon DEF VM!Minus
<1>2. VM!More /\ VM!Op \in {OP.MINUS, OP.BANG}
  BY <1>1, AtMeans, SameInstructions
<1>3. Uses(1)
  BY <1>2, UsesAll
<1>4. o = VM!Error \/ o.t \in Scalars
  BY PlainObjects
<1> HIDE DEF o
<1>5. VM!Holds(1) => Outcome(VM!OnObjects(1, o), Functions, Quiet)
  BY <1>4, PlainOutcome, OnObjectsMeans
<1> QED BY <1>1, <1>2, <1>3, <1>5, Yields

LEMMA BangDone ==
    ASSUME NEW Trees, MachineSteps(Trees), VM!Bang
    PROVE  MachineInv'
<1> DEFINE o == VM!Boolean(~VM!Truthy(VM!Operand(1)))
<1>1. VM!At({VM!OP.BANG}) /\ VM!Yield(1, VM!OnObjects(1, o))
  BY Zenon DEF VM!Bang
<1>2. VM!More /\ VM!Op \in {OP.MINUS, OP.BANG}
  BY <1>1, AtMeans, SameInstructions
<1>3. Uses(1)
  BY <1>2, UsesAll
<1>4. o.t \in Scalars
  BY PlainObjects
<1> HIDE DEF o
<1>5. VM!Holds(1) => Outcome(VM!OnObjects(1, o), Functions, Quiet)
  BY <1>4, PlainOutcome, OnObjectsMeans
<1> QED BY <1>1, <1>2, <1>3, <1>5, Yields

(* What a step begins with.                                                *)
LEMMA StepHas ==
    ASSUME NEW Trees, MachineSteps(Trees), VM!More
    PROVE  /\ OperandInv(Trees) /\ MachineInv /\ UNCHANGED <<compilerVars, line>>
           /\ status = "running" /\ Compiled /\ CallsFine /\ StackFine /\ GlobalsFine /\ PoolPlain
           /\ sp \in Nat /\ Len(frames) \in Nat /\ Len(frames) \in 1..Len(frames)
           /\ Stacked(frames, stack, sp, Quiet) /\ Len(pool) \in Nat /\ STACK_SIZE \in Nat
           /\ line # 0
<1>1. OperandInv(Trees) /\ MachineInv /\ UNCHANGED <<compilerVars, line>> /\ status = "running"
  BY DEF MachineSteps, VM!More
<1>2. Compiled /\ CallsFine /\ StackFine /\ GlobalsFine /\ PoolPlain
  BY <1>1 DEF MachineInv, RunningFine
<1>3. Stacked(frames, stack, sp, Quiet)
  BY <1>2 DEF CallsFine
<1>4. sp \in Nat /\ Len(frames) \in Nat /\ Len(frames) \in 1..Len(frames)
  BY <1>3, SequenceForm DEF Stacked
<1>5. Len(pool) \in Nat
  BY <1>1, OpenScopes DEF OperandInv
<1>6. STACK_SIZE \in Nat
  BY SizesAssumption
<1>7. line # 0
  BY <1>1 DEF MachineInv, LineCounted
<1> QED BY <1>1, <1>2, <1>3, <1>4, <1>5, <1>6, <1>7

LEMMA OneOf ==
    /\ OP.ARRAY \in TwoByteOps \cup OneByteOps \cup {OP.CLOSURE}
    /\ OP.HASH \in TwoByteOps \cup OneByteOps \cup {OP.CLOSURE}
    /\ OP.GET_GLOBAL \in TwoByteOps \cup OneByteOps \cup {OP.CLOSURE}
    /\ OP.SET_GLOBAL \in TwoByteOps \cup OneByteOps \cup {OP.CLOSURE}
    /\ OP.GET_LOCAL \in TwoByteOps \cup OneByteOps \cup {OP.CLOSURE}
    /\ OP.SET_LOCAL \in TwoByteOps \cup OneByteOps \cup {OP.CLOSURE}
    /\ OP.GET_FREE \in TwoByteOps \cup OneByteOps \cup {OP.CLOSURE}
    /\ OP.CALL \in TwoByteOps \cup OneByteOps \cup {OP.CLOSURE}
    /\ OP.CLOSURE \in TwoByteOps \cup OneByteOps \cup {OP.CLOSURE}
BY Zenon DEF TwoByteOps, OneByteOps

(* The operand of the instruction is a number.                             *)
LEMMA ArgIs ==
    ASSUME NEW Trees, MachineSteps(Trees), VM!More,
           VM!Op \in TwoByteOps \cup OneByteOps \cup {OP.CLOSURE}
    PROVE  VM!Arg(1) \in Nat
<1>1. PICK code, p, op, d : Executing(code, p, op, d)
  BY StepHas, StepBegins
<1>2. VM!Op = op
  BY <1>1 DEF Executing
<1> QED BY <1>1, <1>2, ArgsAre

LEMMA ArrayBuilt ==
    ASSUME NEW Trees, MachineSteps(Trees), VM!BuildArray
    PROVE  MachineInv'
<1> DEFINE n == VM!Arg(1)
           xs == VM!LastOperands(n)
<1>1. VM!At({VM!OP.ARRAY}) /\ VM!Yield(n, VM!ArrayOf(xs))
  BY Zenon DEF VM!BuildArray
<1>2. VM!More /\ VM!Op = OP.ARRAY
  BY <1>1, AtMeans, SameInstructions
<1>3. Uses(n) /\ n \in Nat
  BY <1>2, UsesAll, ArgIs, OneOf
<1>4. ASSUME VM!Holds(n) PROVE Outcome(VM!ArrayOf(xs), Functions, Quiet)
  <2>1. /\ IsSequence(xs) /\ Len(xs) = n
        /\ \A i \in 1..n : Fine(xs[i])
    BY <1>2, <1>3, <1>4, StepHas, OperandsFine
  <2>2. VM!ArrayOf(xs) = ArrayOf(xs)
    BY Zenon DEF VM!ArrayOf, ArrayOf
  <2> HIDE DEF xs
  <2>3. Proper(ArrayOf(xs), Functions, Quiet)
    BY <2>1, ProperArray DEF Fine
  <2> QED BY <2>2, <2>3 DEF Outcome
<1> HIDE DEF n, xs
<1> QED BY <1>1, <1>2, <1>3, <1>4, Yields

LEMMA HalfOf ==
    ASSUME NEW n \in Nat, NEW i \in 1..n \div 2
    PROVE  2 * i - 1 \in 1..n /\ 2 * i \in 1..n
OBVIOUS

LEMMA HashBuilt ==
    ASSUME NEW Trees, MachineSteps(Trees), VM!BuildHash
    PROVE  MachineInv'
<1> DEFINE n == VM!Arg(1)
           xs == VM!LastOperands(n)
           pairs == [i \in 1..n \div 2 |-> <<xs[2*i - 1], xs[2*i]>>]
<1>1. VM!At({VM!OP.HASH}) /\ VM!Yield(n, VM!HashOf(pairs))
  BY Zenon DEF VM!BuildHash
<1>2. VM!More /\ VM!Op = OP.HASH
  BY <1>1, AtMeans, SameInstructions
<1>3. Uses(n) /\ n \in Nat
  BY <1>2, UsesAll, ArgIs, OneOf
<1>4. ASSUME VM!Holds(n) PROVE Outcome(VM!HashOf(pairs), Functions, Quiet)
  <2>1. \A i \in 1..n : Fine(xs[i])
    BY <1>2, <1>3, <1>4, StepHas, OperandsFine
  <2>2. VM!HashOf(pairs) = HashOf(pairs)
    BY Zenon DEF VM!HashOf, HashOf
  <2>3. DOMAIN pairs = 1..n \div 2
    OBVIOUS
  <2>4. ASSUME NEW i \in DOMAIN pairs
        PROVE  Proper(pairs[i][1], Functions, Quiet) /\ Proper(pairs[i][2], Functions, Quiet)
    <3> HIDE DEF xs, n
    <3>1. pairs[i][1] = xs[2*i - 1] /\ pairs[i][2] = xs[2*i]
      OBVIOUS
    <3>2. i \in 1..n \div 2
      BY <2>4
    <3> HIDE DEF pairs
    <3>3. 2 * i - 1 \in 1..n /\ 2 * i \in 1..n
      BY <1>3, <3>2, HalfOf
    <3>4. Fine(xs[2*i - 1]) /\ Fine(xs[2*i])
      BY <2>1, <3>3
    <3> QED BY <3>1, <3>4 DEF Fine
  <2>6. IsSequence(pairs)
    <3> HIDE DEF xs, n
    <3>1. n \div 2 \in Nat
      BY <1>3
    <3>2. pairs \in [1..n \div 2 -> {<<xs[2*i - 1], xs[2*i]>> : i \in 1..n \div 2}]
      OBVIOUS
    <3> HIDE DEF pairs
    <3> QED BY <3>1, <3>2, SequenceMade DEF IsSequence
  <2> HIDE DEF pairs
  <2>5. Proper(HashOf(pairs), Functions, Quiet)
    BY <2>4, <2>6, ProperHash
  <2> QED BY <2>2, <2>5 DEF Outcome
<1> HIDE DEF n, pairs
<1> QED BY <1>1, <1>2, <1>3, <1>4, Yields

LEMMA Indexed ==
    ASSUME NEW Trees, MachineSteps(Trees), VM!IndexOperation
    PROVE  MachineInv'
<1> DEFINE o == IF VM!Holds(2) THEN VM!Item(VM!Operand(2), VM!Operand(1)) ELSE VM!Undefined
<1>1. VM!At({VM!OP.INDEX}) /\ VM!Yield(2, o)
  BY Zenon DEF VM!IndexOperation
<1>2. VM!More /\ VM!Op = OP.INDEX
  BY <1>1, AtMeans, SameInstructions
<1>3. Uses(2)
  BY <1>2, UsesAll DEF BinaryOps
<1>4. ASSUME VM!Holds(2) PROVE Outcome(o, Functions, Quiet)
  <2>1. Fine(VM!Operand(2))
    BY <1>2, <1>4, StepHas, OperandFine
  <2>2. Outcome(VM!Item(VM!Operand(2), VM!Operand(1)), Functions, Quiet)
    BY <2>1, ItemOutcome DEF Fine
  <2> QED BY <1>4, <2>2
<1> HIDE DEF o
<1> QED BY <1>1, <1>2, <1>3, <1>4, Yields

(* The globals counted have slots: the bound of the model is no bound to   *)
(* the programs.                                                           *)
GlobalsReach == 0..tables[1].num - 1 \subseteq GlobalSlots

LEMMA GlobalThere ==
    ASSUME NEW Trees, MachineSteps(Trees), GlobalsReach, VM!More, VM!Op = OP.GET_GLOBAL
    PROVE  Fine(globals[VM!Arg(1)])
<1>1. PICK code, p, op, d : Executing(code, p, op, d)
  BY StepHas, StepBegins
<1>2. /\ op = OP.GET_GLOBAL /\ code \in Streams /\ p \in Starts(code) /\ p # Len(code)
      /\ op = ByteAt(code, p) /\ VM!Arg(1) = Operands(code, p)[1]
  BY <1>1 DEF Executing
<1>3. VM!Arg(1) < tables[1].num
  BY <1>2, StepHas, InstructionReady
<1>4. VM!Arg(1) \in Nat
  BY ArgIs, OneOf
<1>5. tables[1].num \in Nat
  BY StepHas, OpenScopes, NumOfTable DEF OperandInv
<1>6. VM!Arg(1) \in GlobalSlots
  BY <1>3, <1>4, <1>5 DEF GlobalsReach
<1> QED BY <1>6, StepHas DEF GlobalsFine

LEMMA GlobalRead ==
    ASSUME NEW Trees, MachineSteps(Trees), GlobalsReach, VM!GetGlobal
    PROVE  MachineInv'
<1> DEFINE o == IF VM!GlobalsKept THEN globals[VM!Arg(1)] ELSE VM!Undefined
<1>1. VM!At({VM!OP.GET_GLOBAL}) /\ VM!Yield(0, o)
  BY Zenon DEF VM!GetGlobal
<1>2. VM!More /\ VM!Op = OP.GET_GLOBAL
  BY <1>1, AtMeans, SameInstructions
<1>3. Uses(0)
  BY <1>2, UsesAll DEF Loads
<1>4. Fine(globals[VM!Arg(1)])
  BY <1>2, GlobalThere
<1>5. Outcome(o, Functions, Quiet)
  <2>1. Outcome(VM!Undefined, Functions, Quiet)
    BY PlainOutcome
  <2>2. Outcome(globals[VM!Arg(1)], Functions, Quiet)
    BY <1>4 DEF Fine, Outcome
  <2> QED BY <2>1, <2>2
<1> HIDE DEF o
<1> QED BY <1>1, <1>2, <1>3, <1>5, Yields

LEMMA LocalRead ==
    ASSUME NEW Trees, MachineSteps(Trees), VM!GetLocal
    PROVE  MachineInv'
<1> DEFINE o == IF VM!Local(VM!Arg(1)) \in VM!Slots THEN stack[VM!Local(VM!Arg(1))] ELSE VM!Undefined
<1>1. VM!At({VM!OP.GET_LOCAL}) /\ VM!Yield(0, o)
  BY Zenon DEF VM!GetLocal
<1>2. VM!More /\ VM!Op = OP.GET_LOCAL
  BY <1>1, AtMeans, SameInstructions
<1>3. Uses(0)
  BY <1>2, UsesAll DEF Loads
<1>4. Outcome(o, Functions, Quiet)
  <2>1. \A i \in 0..STACK_SIZE : Fine(stack[i])
    BY <1>2, StepHas DEF StackFine
  <2>2. VM!Slots = 0..STACK_SIZE
    BY DEF VM!Slots
  <2>3. Outcome(VM!Undefined, Functions, Quiet)
    BY PlainOutcome
  <2> QED BY <2>1, <2>2, <2>3 DEF Fine, Outcome
<1> HIDE DEF o
<1> QED BY <1>1, <1>2, <1>3, <1>4, Yields

(* Closures, and what is reached through the closure that runs.            *)
LEMMA ClosureMade ==
    ASSUME NEW Trees, MachineSteps(Trees), VM!PushClosure
    PROVE  MachineInv'
<1> DEFINE n == VM!Arg(2)
           fn == pool[VM!Arg(1) + 1]
           xs == VM!LastOperands(n)
           o == IF VM!Arg(1) >= Len(pool) THEN VM!Undefined
                ELSE IF fn.t # "COMPILED_FUNCTION" THEN VM!Error
                ELSE VM!Captured(fn, n)
<1>1. VM!At({VM!OP.CLOSURE}) /\ VM!Yield(n, o)
  BY Zenon DEF VM!PushClosure
<1>2. VM!More /\ VM!Op = OP.CLOSURE
  BY <1>1, AtMeans, SameInstructions
<1>3. PICK code, p, op, d : Executing(code, p, op, d)
  BY <1>2, StepHas, StepBegins
<1>4. VM!Op = op
  BY <1>3 DEF Executing
<1>5. Uses(n) /\ n \in Nat /\ VM!Arg(1) \in Nat
  BY <1>2, <1>3, <1>4, UsesAll, ArgsAre, OneOf
<1>6. ASSUME VM!Holds(n) PROVE Outcome(o, Functions, Quiet)
  <2>1. /\ IsSequence(xs) /\ Len(xs) = n
        /\ \A i \in 1..n : Fine(xs[i])
    BY <1>2, <1>5, <1>6, StepHas, OperandsFine
  <2>2. o \in {VM!Undefined, VM!Error} \/ (VM!Arg(1) < Len(pool) /\ fn.t = "COMPILED_FUNCTION" /\ o = VM!Captured(fn, n))
    BY <1>2, <1>5, StepHas
  <2>3. CASE o \in {VM!Undefined, VM!Error}
    BY <2>3, PlainOutcome
  <2>4. CASE VM!Arg(1) < Len(pool) /\ fn.t = "COMPILED_FUNCTION" /\ o = VM!Captured(fn, n)
    <3>1. DOMAIN pool = 1..Len(pool) /\ Len(pool) \in Nat
      BY <1>2, StepHas, OpenScopes, SequenceForm DEF OperandInv
    <3>2. VM!Arg(1) + 1 \in DOMAIN pool
      BY <1>5, <2>4, <3>1
    <3>3. fn \in Functions
      BY <2>4, <3>2 DEF Functions
    <3>c. Captures(fn, n)
      <4>1. /\ code \in Streams /\ p \in Starts(code) /\ p # Len(code) /\ op = ByteAt(code, p)
            /\ VM!Arg(1) = Operands(code, p)[1] /\ n = Operands(code, p)[2]
        BY <1>3 DEF Executing
      <4>2. op = OP.CLOSURE
        BY <1>2, <1>4
      <4> QED BY <1>2, <4>1, <4>2, StepHas, InstructionReady
    <3>4. VM!Captured(fn, n) = Closure(fn, xs)
      BY Zenon DEF VM!Captured, VM!Closure, Closure
    <3> HIDE DEF xs, fn
    <3>5. Proper(Closure(fn, xs), Functions, Quiet)
      BY <2>1, <3>3, <3>c, ProperClosure DEF Fine
    <3> QED BY <2>4, <3>4, <3>5 DEF Outcome
  <2> QED BY <2>2, <2>3, <2>4
<1> HIDE DEF n, o
<1> QED BY <1>1, <1>2, <1>5, <1>6, Yields

LEMMA OwnClosurePushed ==
    ASSUME NEW Trees, MachineSteps(Trees), VM!CurrentClosure
    PROVE  MachineInv'
<1>1. VM!At({VM!OP.CURRENT_CLOSURE}) /\ VM!Yield(0, VM!Frame.closure)
  BY Zenon DEF VM!CurrentClosure
<1>2. VM!More /\ VM!Op = OP.CURRENT_CLOSURE
  BY <1>1, AtMeans, SameInstructions
<1>3. Uses(0)
  BY <1>2, UsesAll DEF Loads
<1>4. PICK code, p, op, d : Executing(code, p, op, d)
  BY <1>2, StepHas, StepBegins
<1>5. /\ op = OP.CURRENT_CLOSURE /\ code \in Streams /\ p \in Starts(code) /\ p # Len(code)
      /\ op = ByteAt(code, p) /\ (Len(frames) = 1 => code = MainCode)
      /\ VM!Frame = frames[Len(frames)]
  BY <1>2, <1>4 DEF Executing
<1>6. code # MainCode
  BY <1>2, <1>5, StepHas, InstructionReady
<1>7. Len(frames) # 1 /\ Len(frames) \in 1..Len(frames)
  BY <1>2, <1>5, <1>6, StepHas
<1>8. Fine(VM!Frame.closure)
  BY <1>2, <1>5, <1>7, StepHas, FramesHave
<1>9. Outcome(VM!Frame.closure, Functions, Quiet)
  BY <1>8 DEF Fine, Outcome
<1> QED BY <1>1, <1>2, <1>3, <1>9, Yields

LEMMA NothingIsSequence == IsSequence(<< >>) /\ Len(<< >>) = 0
<1>1. << >> \in Seq({})
  OBVIOUS
<1> QED BY <1>1 DEF IsSequence

LEMMA FromTwo ==
    ASSUME NEW k \in Nat, k \in 1..k, k # 1
    PROVE  k \in 2..k
OBVIOUS

(* The closure that runs has captured what its code refers to.             *)
LEMMA FreeThere ==
    ASSUME NEW Trees, MachineSteps(Trees), VM!More, VM!Op = OP.GET_FREE
    PROVE  LET c == VM!Frame.closure
           IN  VM!Arg(1) < Len(c.free) /\ Fine(c.free[VM!Arg(1) + 1])
<1> DEFINE c == VM!Frame.closure
           x == VM!Arg(1)
<1>1. PICK code, p, op, d : Executing(code, p, op, d)
  BY StepHas, StepBegins
<1>2. /\ op = OP.GET_FREE /\ code \in Streams /\ p \in Starts(code) /\ p # Len(code)
      /\ op = ByteAt(code, p) /\ x = Operands(code, p)[1] /\ (Len(frames) = 1 => code = MainCode)
      /\ VM!Frame = frames[Len(frames)]
  BY <1>1 DEF Executing
<1>3. code = c.fn.code
  BY <1>1, Zenon DEF Executing, VM!Instructions
<1>4. code # MainCode /\ x \in Used(code, OP.GET_FREE)
  BY <1>2, StepHas, InstructionReady
<1>5. Len(frames) \in 2..Len(frames) /\ Len(frames) \in 1..Len(frames)
  BY <1>2, <1>4, StepHas, FromTwo
<1>6. Fine(c) /\ c.t = "CLOSURE"
  BY <1>2, <1>5, StepHas DEF CallsFine
<1>7. x \in Nat
  BY ArgIs, OneOf
<1> HIDE DEF c, x
<1>8. /\ IsSequence(c.free) /\ Captures(c.fn, Len(c.free))
      /\ \A i \in 1..Len(c.free) : Fine(c.free[i])
  BY <1>6, ProperParts DEF Fine
<1>9. x < Len(c.free)
  BY <1>3, <1>4, <1>8 DEF Captures
<1>10. Len(c.free) \in Nat
  BY <1>8, SequenceForm
<1>11. x + 1 \in 1..Len(c.free)
  BY <1>7, <1>9, <1>10
<1>12. x < Len(c.free) /\ Fine(c.free[x + 1])
  BY <1>8, <1>9, <1>11
<1> QED BY <1>12 DEF c, x

LEMMA FreeRead ==
    ASSUME NEW Trees, MachineSteps(Trees), VM!GetFree
    PROVE  MachineInv'
<1> DEFINE c == VM!Frame.closure
           x == VM!Arg(1)
           o == IF x < Len(c.free) THEN c.free[x + 1] ELSE VM!Undefined
<1>1. VM!At({VM!OP.GET_FREE}) /\ VM!Yield(0, o)
  BY Zenon DEF VM!GetFree
<1>2. VM!More /\ VM!Op = OP.GET_FREE
  BY <1>1, AtMeans, SameInstructions
<1>3. Uses(0)
  BY <1>2, UsesAll DEF Loads
<1>4. Outcome(o, Functions, Quiet)
  BY <1>2, FreeThere, FineOutcome
<1> HIDE DEF o
<1> QED BY <1>1, <1>2, <1>3, <1>4, Yields

LEMMA BuiltinIs ==
    ASSUME NEW i
    PROVE  VM!Builtin(i).t = "BUILT_IN"
BY DEF VM!Builtin

LEMMA BuiltinRead ==
    ASSUME NEW Trees, MachineSteps(Trees), VM!GetBuiltin
    PROVE  MachineInv'
<1> DEFINE o == IF VM!Arg(1) \in 0..5 THEN VM!Builtin(VM!Arg(1)) ELSE VM!Exit
<1>1. VM!At({VM!OP.GET_BUILTIN}) /\ VM!Yield(0, o)
  BY Zenon DEF VM!GetBuiltin
<1>2. VM!More /\ VM!Op = OP.GET_BUILTIN
  BY <1>1, AtMeans, SameInstructions
<1>3. Uses(0)
  BY <1>2, UsesAll DEF Loads
<1>4. PICK code, p, op, d : Executing(code, p, op, d)
  BY <1>2, StepHas, StepBegins
<1>5. /\ op = OP.GET_BUILTIN /\ code \in Streams /\ p \in Starts(code) /\ p # Len(code)
      /\ op = ByteAt(code, p)
  BY <1>2, <1>4 DEF Executing
<1>6. ~NoBuiltins
  BY <1>2, <1>5, StepHas, InstructionReady
<1>7. line # 0
  BY <1>2, StepHas
<1>8. ~Quiet
  BY <1>2, <1>6, <1>7, StepHas DEF Quiet
<1>9. Proper(VM!Builtin(VM!Arg(1)), Functions, Quiet)
  <2>1. MadeOf(VM!Builtin(VM!Arg(1)), {}, Functions, Quiet)
    BY <1>8, BuiltinIs DEF MadeOf, Values
  <2> QED BY <2>1, ProperMade
<1>10. Outcome(o, Functions, Quiet)
  BY <1>9, PlainOutcome DEF Outcome
<1> HIDE DEF o
<1> QED BY <1>1, <1>2, <1>3, <1>10, Yields

LEMMA BuiltinCalled ==
    ASSUME NEW Trees, MachineSteps(Trees), VM!CallBuiltinFn
    PROVE  MachineInv'
<1> DEFINE n == VM!Arg(1)
           xs == VM!LastOperands(n)
           o == VM!CallBuiltin(VM!Callee.index, xs)
<1>1. VM!Calling("BUILT_IN") /\ VM!Yield(0, o)
  BY Zenon DEF VM!CallBuiltinFn
<1>2. VM!At({VM!OP.CALL}) /\ VM!Holds(n + 1) /\ VM!Callee.t = "BUILT_IN"
  BY <1>1, Zenon DEF VM!Calling
<1>3. VM!More /\ VM!Op = OP.CALL
  BY <1>2, AtMeans, SameInstructions
<1>4. n \in Nat
  BY <1>3, ArgIs, OneOf
<1>5. VM!Callee = VM!Operand(n + 1)
  BY DEF VM!Callee
<1> HIDE DEF n
<1>6. Fine(VM!Callee)
  <2>1. n + 1 \in Nat /\ n + 1 \in 1..n + 1
    BY <1>4
  <2> QED BY <1>2, <1>3, <1>5, <2>1, StepHas, OperandFine
<1>7. Uses(0)
  <2>1. ~Quiet
    BY <1>2, <1>6, ProperParts DEF Fine
  <2> QED BY <1>3, <2>1, UsesAll
<1>8. Outcome(o, Functions, Quiet)
  <2>1. VM!Holds(n)
    <3>1. sp \in Nat
      BY <1>3, StepHas
    <3> QED BY <1>2, <1>4, <3>1 DEF VM!Holds
  <2>2. IsSequence(xs) /\ Len(xs) = n /\ \A i \in 1..n : Fine(xs[i])
    BY <1>3, <1>4, <2>1, StepHas, OperandsFine
  <2> HIDE DEF xs
  <2> QED BY <2>2, BuiltinOutcome DEF Fine
<1> HIDE DEF o
<1> QED BY <1>1, <1>3, <1>7, <1>8, Yields

(* Instructions that leave nothing.                                        *)
LEMMA Aims ==
    ASSUME NEW code, NEW p, NEW op, NEW d, Executing(code, p, op, d)
    PROVE  /\ \E q : q = p + InstructionLength(op) /\ q - 1 = VM!Executed
           /\ \A t : VM!Jumped(t) = VM!Moved(t - 1)
           /\ op \in {OP.POP, OP.SET_GLOBAL, OP.SET_LOCAL, OP.JUMP_NOT_TRUTHY} =>
                /\ p + InstructionLength(op) \in Successors(code, p)
                /\ Pops(code, p) = 1 /\ Pushes(code, p) = 0
           /\ op = OP.JUMP => Pops(code, p) = 0 /\ Pushes(code, p) = 0
           /\ op \in Jumps => VM!Arg(1) \in Successors(code, p)
<1>1. /\ op = ByteAt(code, p) /\ VM!Executed = p + InstructionLength(op) - 1
      /\ p \in Nat /\ VM!Arg(1) = Operands(code, p)[1]
  BY DEF Executing
<1>2. InstructionLength(op) \in Nat
  BY Shapes DEF InstructionLength
<1>3. \E q : q = p + InstructionLength(op) /\ q - 1 = VM!Executed
  <2>1. PICK q : q = p + InstructionLength(op)
    OBVIOUS
  <2>2. q - 1 = VM!Executed
    BY <1>1, <1>2, <2>1
  <2> QED BY <2>1, <2>2
<1>4. \A t : VM!Jumped(t) = VM!Moved(t - 1)
  BY Zenon DEF VM!Jumped
<1>5. /\ op \in {OP.POP, OP.SET_GLOBAL, OP.SET_LOCAL, OP.JUMP_NOT_TRUTHY} =>
           op \notin Loads \cup {OP.JUMP, OP.RETURN} \cup BinaryOps
                \cup {OP.ARRAY, OP.HASH, OP.CALL, OP.CLOSURE}
      /\ op \in {OP.POP, OP.SET_GLOBAL, OP.SET_LOCAL} => op \notin Ends \cup Jumps
      /\ op \in {OP.POP, OP.SET_GLOBAL, OP.SET_LOCAL, OP.JUMP_NOT_TRUTHY, OP.JUMP} => op \in Silent
  BY Opcodes DEF Silent, Jumps, Ends, Loads, BinaryOps
<1>6. op \in Jumps <=> op = OP.JUMP \/ op = OP.JUMP_NOT_TRUTHY
  BY DEF Jumps
<1>7. op \in {OP.POP, OP.SET_GLOBAL, OP.SET_LOCAL, OP.JUMP_NOT_TRUTHY} =>
        p + InstructionLength(op) \in Successors(code, p)
  BY <1>1, <1>5, GoesOnTo
<1>8. op \in {OP.POP, OP.SET_GLOBAL, OP.SET_LOCAL, OP.JUMP_NOT_TRUTHY, OP.JUMP} => Pushes(code, p) = 0
  BY <1>1, <1>5, GoesOnTo
<1>9. /\ op \in {OP.POP, OP.SET_GLOBAL, OP.SET_LOCAL, OP.JUMP_NOT_TRUTHY} => Pops(code, p) = 1
      /\ op = OP.JUMP => Pops(code, p) = 0
  BY <1>1, <1>5, PopsOf
<1>10. op \in Jumps => VM!Arg(1) \in Successors(code, p)
  BY <1>1, <1>6, GoesOnTo
<1> QED BY <1>3, <1>4, <1>7, <1>8, <1>9, <1>10

(* An instruction that takes n operands, leaves nothing and keeps what is  *)
(* below the operands of the current call.                                 *)
LEMMA TakesAway ==
    ASSUME NEW Trees, MachineSteps(Trees), VM!More, status' = status,
           VM!Op \in {OP.POP, OP.SET_GLOBAL, OP.SET_LOCAL, OP.JUMP_NOT_TRUTHY},
           sp' = sp - 1,
           \/ frames' = VM!Moved(VM!Executed)
           \/ VM!Op \in Jumps /\ frames' = VM!Jumped(VM!Arg(1)),
           GlobalsFine', StackFine',
           \A i \in Nat : i < VM!Frame.bp => stack'[i] = stack[i]
    PROVE  MachineInv'
<1>1. PICK code, p, op, d : Executing(code, p, op, d)
  BY StepHas, StepBegins
<1>2. VM!Op = op
  BY <1>1 DEF Executing
<1>3. /\ 1 = Pops(code, p) /\ Pushes(code, p) = 0
      /\ p + InstructionLength(op) \in Successors(code, p)
      /\ op \in Jumps => VM!Arg(1) \in Successors(code, p)
      /\ \A t : VM!Jumped(t) = VM!Moved(t - 1)
  BY <1>1, <1>2, Aims
<1>4. PICK q : q = p + InstructionLength(op) /\ q - 1 = VM!Executed
  BY <1>1, Aims
<1>5. CASE frames' = VM!Moved(VM!Executed)
  <2>1. frames' = VM!Moved(q - 1) /\ q \in Successors(code, p)
    BY <1>3, <1>4, <1>5, Zenon
  <2> QED BY <1>1, <1>3, <2>1, Drops
<1>6. CASE VM!Op \in Jumps /\ frames' = VM!Jumped(VM!Arg(1))
  <2>1. PICK t : t = VM!Arg(1)
    OBVIOUS
  <2>2. frames' = VM!Moved(t - 1) /\ t \in Successors(code, p)
    BY <1>2, <1>3, <1>6, <2>1, Zenon
  <2> QED BY <1>1, <1>3, <2>2, Drops
<1> QED BY <1>5, <1>6

LEMMA ToStop ==
    ASSUME NEW Trees, MachineSteps(Trees), VM!Stop("undefined") \/ VM!Stop("error") \/ VM!Stop("done")
    PROVE  MachineInv'
BY StopStep DEF StopsHow

LEMMA Popped ==
    ASSUME NEW Trees, MachineSteps(Trees), VM!Pop
    PROVE  MachineInv'
<1>1. VM!At({VM!OP.POP})
      /\ IF VM!Holds(1) THEN /\ sp' = sp - 1
                             /\ frames' = VM!Moved(VM!Executed)
                             /\ UNCHANGED <<globals, stack, status>>
         ELSE VM!Stop("undefined")
  BY Zenon DEF VM!Pop
<1>2. VM!More /\ VM!Op = OP.POP
  BY <1>1, AtMeans, SameInstructions
<1>3. CASE VM!Stop("undefined")
  BY <1>3, ToStop
<1>4. CASE sp' = sp - 1 /\ frames' = VM!Moved(VM!Executed) /\ UNCHANGED <<globals, stack, status>>
  <2>1. Functions' = Functions /\ Quiet' = Quiet
    BY <1>2, <1>4, StepHas, SameEnvironment
  <2>2. StackFine' /\ GlobalsFine' /\ \A j \in Nat : stack'[j] = stack[j]
    BY <1>2, <1>4, <2>1, StepHas, StackStays, GlobalsStay
  <2> QED BY <1>2, <1>4, <2>2, TakesAway
<1> QED BY <1>1, <1>3, <1>4

LEMMA JumpMade ==
    ASSUME NEW Trees, MachineSteps(Trees), VM!Jump
    PROVE  MachineInv'
<1>1. /\ VM!At({VM!OP.JUMP}) /\ frames' = VM!Jumped(VM!Arg(1))
      /\ UNCHANGED <<globals, stack, sp, status>>
  BY Zenon DEF VM!Jump
<1>2. VM!More /\ VM!Op = OP.JUMP
  BY <1>1, AtMeans, SameInstructions
<1>3. PICK code, p, op, d : Executing(code, p, op, d)
  BY <1>2, StepHas, StepBegins
<1>4. op = OP.JUMP /\ op \in Jumps
  BY <1>2, <1>3 DEF Executing, Jumps
<1>5. /\ 0 = Pops(code, p) /\ Pushes(code, p) = 0 /\ VM!Arg(1) \in Successors(code, p)
      /\ \A t : VM!Jumped(t) = VM!Moved(t - 1)
  BY <1>3, <1>4, Aims
<1>6. PICK t : t = VM!Arg(1)
  OBVIOUS
<1>7. frames' = VM!Moved(t - 1) /\ t \in Successors(code, p)
  BY <1>1, <1>5, <1>6, Zenon
<1>8. Functions' = Functions /\ Quiet' = Quiet
  BY <1>1, <1>2, StepHas, SameEnvironment
<1>9. StackFine' /\ GlobalsFine' /\ \A j \in Nat : stack'[j] = stack[j]
  BY <1>1, <1>2, <1>8, StepHas, StackStays, GlobalsStay
<1>10. sp' = sp - 0
  BY <1>1, <1>2, StepHas
<1> QED BY <1>1, <1>2, <1>3, <1>5, <1>7, <1>9, <1>10, Drops

LEMMA ConditionalJumpMade ==
    ASSUME NEW Trees, MachineSteps(Trees), VM!JumpNotTruthy
    PROVE  MachineInv'
<1>1. /\ VM!At({VM!OP.JUMP_NOT_TRUTHY})
      /\ \/ /\ sp' = sp - 1
            /\ frames' = VM!Moved(VM!Executed) \/ frames' = VM!Jumped(VM!Arg(1))
            /\ UNCHANGED <<globals, stack, status>>
         \/ VM!Stop("undefined")
  BY Zenon DEF VM!JumpNotTruthy
<1>2. VM!More /\ VM!Op = OP.JUMP_NOT_TRUTHY /\ VM!Op \in Jumps
  BY <1>1, AtMeans, SameInstructions DEF Jumps
<1>3. CASE VM!Stop("undefined")
  BY <1>3, ToStop
<1>4. CASE /\ sp' = sp - 1
           /\ frames' = VM!Moved(VM!Executed) \/ frames' = VM!Jumped(VM!Arg(1))
           /\ UNCHANGED <<globals, stack, status>>
  <2>1. Functions' = Functions /\ Quiet' = Quiet
    BY <1>2, <1>4, StepHas, SameEnvironment
  <2>2. StackFine' /\ GlobalsFine' /\ \A j \in Nat : stack'[j] = stack[j]
    BY <1>2, <1>4, <2>1, StepHas, StackStays, GlobalsStay
  <2> QED BY <1>2, <1>4, <2>2, TakesAway
<1> QED BY <1>1, <1>3, <1>4

LEMMA GlobalWritten ==
    ASSUME NEW Trees, MachineSteps(Trees), VM!SetGlobal
    PROVE  MachineInv'
<1>1. /\ VM!At({VM!OP.SET_GLOBAL})
      /\ \/ /\ VM!Holds(1) /\ globals' = [globals EXCEPT ![VM!Arg(1)] = VM!Operand(1)]
            /\ sp' = sp - 1 /\ frames' = VM!Moved(VM!Executed)
            /\ UNCHANGED <<stack, status>>
         \/ VM!Stop("undefined")
  BY Zenon DEF VM!SetGlobal
<1>2. VM!More /\ VM!Op = OP.SET_GLOBAL
  BY <1>1, AtMeans, SameInstructions
<1>3. CASE VM!Stop("undefined")
  BY <1>3, ToStop
<1>4. CASE /\ VM!Holds(1) /\ globals' = [globals EXCEPT ![VM!Arg(1)] = VM!Operand(1)]
           /\ sp' = sp - 1 /\ frames' = VM!Moved(VM!Executed)
           /\ UNCHANGED <<stack, status>>
  <2>1. Functions' = Functions /\ Quiet' = Quiet
    BY <1>2, <1>4, StepHas, SameEnvironment
  <2>2. StackFine' /\ \A j \in Nat : stack'[j] = stack[j]
    BY <1>2, <1>4, <2>1, StepHas, StackStays
  <2>3. Fine(VM!Operand(1))
    <3>1. 1 \in 1..1
      OBVIOUS
    <3> QED BY <1>2, <1>4, <3>1, StepHas, OperandFine
  <2>4. GlobalsFine'
    <3>1. DOMAIN globals = GlobalSlots /\ \A g \in GlobalSlots : Fine(globals[g])
      BY <1>2, StepHas DEF GlobalsFine
    <3> DEFINE v == VM!Operand(1)
               x == VM!Arg(1)
    <3>2. globals' = [globals EXCEPT ![x] = v]
      BY <1>4
    <3>v. Proper(v, Functions, Quiet)
      BY <2>3 DEF Fine
    <3> HIDE DEF v, x
    <3>3. DOMAIN globals' = GlobalSlots
      BY <3>1, <3>2
    <3>4. ASSUME NEW g \in GlobalSlots PROVE Proper(globals'[g], Functions', Quiet')
      <4>1. globals'[g] = v \/ globals'[g] = globals[g]
        BY <3>1, <3>2
      <4> QED BY <2>1, <3>1, <3>v, <4>1 DEF Fine
    <3> QED BY <3>3, <3>4 DEF GlobalsFine, Fine
  <2> QED BY <1>2, <1>4, <2>2, <2>4, TakesAway
<1> QED BY <1>1, <1>3, <1>4

LEMMA LocalWritten ==
    ASSUME NEW Trees, MachineSteps(Trees), VM!SetLocal
    PROVE  MachineInv'
<1> DEFINE i == VM!Local(VM!Arg(1))
           v == VM!Operand(1)
<1>1. /\ VM!At({VM!OP.SET_LOCAL})
      /\ \/ /\ VM!Holds(1) /\ stack' = [stack EXCEPT ![i] = v]
            /\ sp' = sp - 1 /\ frames' = VM!Moved(VM!Executed)
            /\ UNCHANGED <<globals, status>>
         \/ VM!Stop("undefined")
  BY Zenon DEF VM!SetLocal
<1>2. VM!More /\ VM!Op = OP.SET_LOCAL
  BY <1>1, AtMeans, SameInstructions
<1>3. CASE VM!Stop("undefined")
  BY <1>3, ToStop
<1>4. CASE /\ VM!Holds(1) /\ stack' = [stack EXCEPT ![i] = v]
           /\ sp' = sp - 1 /\ frames' = VM!Moved(VM!Executed)
           /\ UNCHANGED <<globals, status>>
  <2>1. Functions' = Functions /\ Quiet' = Quiet
    BY <1>2, <1>4, StepHas, SameEnvironment
  <2>2. GlobalsFine'
    BY <1>2, <1>4, <2>1, StepHas, GlobalsStay
  <2>3. Fine(v)
    <3>1. 1 \in 1..1
      OBVIOUS
    <3> QED BY <1>2, <1>4, <3>1, StepHas, OperandFine
  <2>4. stack' = SlotWritten(stack, i, v)
    BY <1>4 DEF SlotWritten
  <2>5. i >= VM!Frame.bp /\ VM!Frame.bp \in Nat /\ i \in Nat
    <3>1. VM!Arg(1) \in Nat
      BY <1>2, ArgIs, OneOf
    <3>2. VM!Frame.bp \in Nat
      <4>1. PICK code, p, op, d : Executing(code, p, op, d)
        BY <1>2, StepHas, StepBegins
      <4> QED BY <4>1 DEF Executing, IsFrame
    <3>3. i = VM!Frame.bp + VM!Arg(1)
      BY Zenon DEF VM!Local
    <3> HIDE DEF i
    <3> QED BY <3>1, <3>2, <3>3
  <2> HIDE DEF i, v
  <2>6. StackFine' /\ \A j \in Nat : j # i => stack'[j] = stack[j]
    BY <1>2, <2>1, <2>3, <2>4, StepHas, StackWritten
  <2>7. \A j \in Nat : j < VM!Frame.bp => stack'[j] = stack[j]
    BY <2>5, <2>6
  <2> QED BY <1>2, <1>4, <2>2, <2>6, <2>7, TakesAway
<1> QED BY <1>1, <1>3, <1>4

(* Calls and returns.                                                      *)

LEMMA CallSum ==
    ASSUME NEW s \in Nat, NEW b \in Nat, NEW d \in Nat, NEW n \in Nat, n + 1 <= d,
           NEW e \in Nat, e = d - n, s - b >= d, NEW limit \in Nat, s <= limit + 1
    PROVE  /\ s - n \in Nat /\ (s - n) - b >= e /\ b < s - n /\ s - n <= limit + 1
           /\ s - b = d => (s - n) - b = e
OBVIOUS

(* A call pushes the caller on by one instruction, with the arguments and  *)
(* the function gone for the value that will be returned.                  *)
LEMMA CallerMoves ==
    ASSUME NEW Trees, MachineSteps(Trees), VM!More, VM!Op = OP.CALL,
           NEW STATE n, n = VM!Arg(1), n \in Nat, VM!Holds(n + 1)
    PROVE  /\ Stacked(VM!Moved(VM!Executed), stack, sp - n, Quiet)
           /\ Base(VM!Frame) < sp - n /\ sp - n \in Nat /\ sp - n <= STACK_SIZE + 1
<1>1. PICK code, p, op, d : Executing(code, p, op, d)
  BY StepHas, StepBegins
<1>2. /\ op = OP.CALL /\ op = ByteAt(code, p) /\ n = Operands(code, p)[1]
      /\ VM!Executed = p + InstructionLength(op) - 1 /\ p \in Nat
      /\ d \in Nat /\ Departs(code, p, d)
      /\ VM!Frame = frames[Len(frames)] /\ IsFrame(VM!Frame)
      /\ sp - Base(VM!Frame) >= d /\ (Quiet => sp - Base(VM!Frame) = d)
  BY <1>1 DEF Executing
<1>3. Pops(code, p) = n + 1
  BY <1>2, PopsOf
<1>4. op \notin Ends \cup Jumps /\ op \notin Silent
  <2>1. op = OP.CALL
    BY <1>2
  <2> QED BY ONLY <2>1, Opcodes DEF Silent, Jumps, Ends
<1>5. Pushes(code, p) = 1 /\ p + InstructionLength(op) \in Successors(code, p)
  BY <1>2, <1>4, GoesOnTo
<1>6. PICK q : q = p + InstructionLength(op)
  OBVIOUS
<1>7. InstructionLength(op) \in Nat
  BY Shapes DEF InstructionLength
<1>8. q \in Nat /\ VM!Executed = q - 1 /\ q \in Successors(code, p)
  BY <1>2, <1>5, <1>6, <1>7
<1> DEFINE e == d - Pops(code, p) + Pushes(code, p)
           f == VM!Frame
<1>9. <<q, e>> \in Reached(code) /\ n + 1 <= d
  BY <1>2, <1>3, <1>8 DEF Departs
<1>10. e = d - n /\ e \in Nat
  BY <1>2, <1>3, <1>5, <1>9
<1>11. code = f.closure.fn.code
  BY <1>1, Zenon DEF Executing, VM!Instructions
<1>12. f.bp \in Nat /\ Base(f) \in Nat /\ f.bp <= Base(f)
  BY <1>2, FrameNumbers
<1>13. sp \in Nat /\ sp <= STACK_SIZE + 1 /\ STACK_SIZE \in Nat
  BY StepHas DEF VM!Holds
<1>14. /\ sp - n \in Nat /\ (sp - n) - Base(f) >= e /\ (Quiet => (sp - n) - Base(f) = e)
       /\ Base(f) < sp - n /\ sp - n <= STACK_SIZE + 1
  <2>1. sp - Base(f) >= d /\ (Quiet => sp - Base(f) = d)
    BY <1>2
  <2> HIDE DEF e, f
  <2>2. d \in Nat /\ n + 1 <= d /\ sp - Base(f) >= d
    BY <1>2, <1>9, <2>1
  <2>3. /\ sp - n \in Nat /\ (sp - n) - Base(f) >= e /\ Base(f) < sp - n /\ sp - n <= STACK_SIZE + 1
        /\ sp - Base(f) = d => (sp - n) - Base(f) = e
    BY <1>10, <1>12, <1>13, <2>2, CallSum
  <2> QED BY <2>1, <2>3
<1>15. <<q, e>> \in Reached(f.closure.fn.code)
  BY <1>9, <1>11
<1> DEFINE t == sp - n
<1>16. f = frames[Len(frames)] /\ Stacked(frames, stack, sp, Quiet)
  BY <1>2, StepHas
<1>17. t \in Nat /\ t - Base(f) >= e /\ (Quiet => t - Base(f) = e)
  BY <1>14
<1> HIDE DEF e, f, t
<1>18. Stacked(MovedTo(frames, q - 1), stack, t, Quiet)
  BY <1>8, <1>10, <1>15, <1>16, <1>17, TopMoves
<1>19. VM!Moved(VM!Executed) = MovedTo(frames, q - 1)
  BY <1>8, Zenon DEF VM!Moved, MovedTo
<1> QED BY <1>14, <1>18, <1>19 DEF t, f

LEMMA ClosureCalled ==
    ASSUME NEW Trees, MachineSteps(Trees), VM!CallClosure
    PROVE  MachineInv'
<1> DEFINE n == VM!Arg(1)
           c == VM!Callee
           fs == VM!Moved(VM!Executed)
           t == sp - n
<1>1. VM!Calling("CLOSURE")
      /\ \/ VM!Stop("error") \/ VM!Stop("undefined")
         \/ /\ Len(frames) # MAX_FRAMES
            /\ frames' = Append(fs, VM!NewFrame(c, t))
            /\ sp' = t + c.fn.locals
            /\ UNCHANGED <<globals, stack, status>>
  BY Zenon DEF VM!CallClosure
<1>2. VM!At({VM!OP.CALL}) /\ VM!Holds(n + 1) /\ c.t = "CLOSURE"
  BY <1>1, Zenon DEF VM!Calling
<1>3. VM!More /\ VM!Op = OP.CALL
  BY <1>2, AtMeans, SameInstructions
<1>4. n \in Nat
  BY <1>3, ArgIs, OneOf
<1>5. CASE VM!Stop("error") \/ VM!Stop("undefined")
  BY <1>5, ToStop
<1>6. CASE /\ Len(frames) # MAX_FRAMES
           /\ frames' = Append(fs, VM!NewFrame(c, t))
           /\ sp' = t + c.fn.locals
           /\ UNCHANGED <<globals, stack, status>>
  <2>1. Functions' = Functions /\ Quiet' = Quiet /\ MainClosure' = MainClosure /\ Compiled' /\ PoolPlain'
    BY <1>3, <1>6, StepHas, SameEnvironment
  <2>2. StackFine' /\ GlobalsFine'
    BY <1>3, <1>6, <2>1, StepHas, StackStays, GlobalsStay
  <2>3. c = VM!Operand(n + 1)
    BY DEF VM!Callee
  <2>4. Fine(c) /\ c = stack[t - 1]
    <3> HIDE DEF n, c
    <3>1. n + 1 \in Nat /\ n + 1 \in 1..n + 1
      BY <1>4
    <3>2. Fine(c)
      BY <1>2, <1>3, <2>3, <3>1, StepHas, OperandFine
    <3>3. sp \in Nat
      BY <1>3, StepHas
    <3>4. sp - (n + 1) = t - 1
      BY <1>4, <3>3
    <3>5. c = stack[sp - (n + 1)]
      BY <2>3, Zenon DEF VM!Operand
    <3> QED BY <3>2, <3>4, <3>5
  <2>5. c.fn \in Functions
    BY <1>2, <2>4, ProperParts DEF Fine
  <2>6. c.fn.locals \in Nat /\ Runs(c.fn.code, FALSE)
    BY <1>3, <2>5, StepHas, FunctionReady
  <2>7. <<0, 0>> \in Reached(c.fn.code)
    BY <2>6, PathsBegin
  <2>8. /\ Stacked(fs, stack, t, Quiet) /\ Base(VM!Frame) < t /\ t <= STACK_SIZE + 1
    BY <1>2, <1>3, <1>4, CallerMoves
  <2> DEFINE k == Len(frames)
  <2>9. /\ Len(fs) = k
        /\ \A j \in 1..k : fs[j].closure = frames[j].closure /\ fs[j].bp = frames[j].bp
    <3>1. fs = MovedTo(frames, VM!Executed)
      BY Zenon DEF VM!Moved, MovedTo
    <3> HIDE DEF fs
    <3> QED BY <1>3, <3>1, StepHas, MovedFrames
  <2>10. Base(fs[Len(fs)]) < t
    <3>1. VM!Frame = frames[k] /\ k \in 1..k
      BY <1>3, StepHas, Zenon DEF VM!Frame
    <3>2. Base(fs[k]) = Base(VM!Frame)
      BY <2>9, <3>1 DEF Base
    <3> QED BY <2>8, <2>9, <3>2
  <2>11. VM!NewFrame(c, t) = [closure |-> c, ip |-> -1, bp |-> t]
    BY Zenon DEF VM!NewFrame
  <2> DEFINE g == VM!NewFrame(c, t)
  <2>12. frames' = Append(fs, g) /\ sp' = t + c.fn.locals
    BY <1>6
  <2>13. k # MAX_FRAMES /\ stack' = stack /\ status' = status
    BY <1>6
  <2>c. c.t = "CLOSURE" /\ g.closure = c
    BY <1>2, <2>11
  <2> HIDE DEF fs, c, t, k, g
  <2>14. Stacked(frames', stack', sp', Quiet)
    <3>1. Stacked(Append(fs, [closure |-> c, ip |-> -1, bp |-> t]), stack, t + c.fn.locals, Quiet)
      BY <2>4, <2>6, <2>7, <2>8, <2>10, FrameAdded
    <3> QED BY <2>11, <2>12, <2>13, <3>1 DEF g
  <2>15. /\ Len(frames') = k + 1 /\ \A j \in 1..k : frames'[j] = fs[j]
         /\ frames'[k+1] = g
    <3>1. IsSequence(fs)
      BY <2>8 DEF Stacked
    <3> QED BY <2>9, <2>12, <3>1, SequenceAppend
  <2>16. /\ k \in Nat /\ 1 \in 1..k /\ k <= MAX_FRAMES
         /\ frames[1].closure = MainClosure /\ frames[1].bp = 0
         /\ \A j \in 2..k : Fine(frames[j].closure) /\ frames[j].closure.t = "CLOSURE"
    <3>1. k \in Nat /\ k \in 1..k
      BY <1>3, StepHas DEF k
    <3>2. 1 \in 1..k
      BY <3>1
    <3> QED BY <1>3, <3>1, <3>2, StepHas DEF CallsFine, k
  <2>17. CallsFine'
    <3>1. k + 1 <= MAX_FRAMES
      BY <2>13, <2>16, SizesAssumption
    <3>2. frames'[1].closure = MainClosure' /\ frames'[1].bp = 0
      BY <2>1, <2>9, <2>15, <2>16
    <3>3. ASSUME NEW j \in 2..k + 1 PROVE Fine(frames'[j].closure) /\ frames'[j].closure.t = "CLOSURE"
      <4>1. CASE j = k + 1
        BY <2>4, <2>15, <2>c, <4>1
      <4>2. CASE j \in 2..k
        <5>1. j \in 1..k
          BY <2>16, <4>2
        <5> QED BY <2>9, <2>15, <2>16, <4>2, <5>1
      <4> QED BY <2>16, <4>1, <4>2
    <3>4. ASSUME NEW j \in 2..Len(frames') PROVE Proper(frames'[j].closure, Functions', Quiet')
      BY <2>1, <2>15, <3>3, <3>4 DEF Fine
    <3>5. \A j \in 2..Len(frames') : frames'[j].closure.t = "CLOSURE"
      BY <2>15, <3>3
    <3>6. Stacked(frames', stack', sp', Quiet')
      BY <2>1, <2>14
    <3> QED BY <2>15, <3>1, <3>2, <3>4, <3>5, <3>6 DEF CallsFine, Fine
  <2>18. LineCounted' /\ status' \in Stages
    BY <1>3, <2>13, StepHas DEF MachineInv, LineCounted
  <2> QED BY <2>1, <2>2, <2>17, <2>18 DEF MachineInv, RunningFine
<1> QED BY <1>1, <1>5, <1>6

LEMMA FrameReturned ==
    ASSUME NEW Trees, MachineSteps(Trees), VM!More, NEW STATE v, Fine(v), VM!ReturnFrom(v)
    PROVE  MachineInv'
<1> DEFINE k == Len(frames)
           b == VM!Frame.bp
           i == b - 1
<1>1. \/ VM!Stop("undefined")
      \/ /\ k # 1 /\ frames' = SubSeq(frames, 1, k - 1)
         /\ stack' = [stack EXCEPT ![b - 1] = v] /\ sp' = b
         /\ UNCHANGED <<globals, status>>
  BY Zenon DEF VM!ReturnFrom
<1>2. CASE VM!Stop("undefined")
  BY <1>2, ToStop
<1>3. CASE /\ k # 1 /\ frames' = SubSeq(frames, 1, k - 1)
           /\ stack' = [stack EXCEPT ![b - 1] = v] /\ sp' = b
           /\ UNCHANGED <<globals, status>>
  <2>1. Functions' = Functions /\ Quiet' = Quiet /\ MainClosure' = MainClosure /\ Compiled' /\ PoolPlain'
    BY <1>3, StepHas, SameEnvironment
  <2>2. GlobalsFine'
    BY <1>3, <2>1, StepHas, GlobalsStay
  <2>3. stack' = SlotWritten(stack, i, v)
    BY <1>3, Zenon DEF SlotWritten
  <2>4. k \in Nat /\ k \in 1..k /\ VM!Frame = frames[k] /\ Stacked(frames, stack, sp, Quiet)
    BY StepHas, Zenon DEF VM!Frame
  <2>5. b \in Nat /\ b = frames[k].bp
    <3>1. IsFrame(frames[k])
      BY <2>4 DEF Stacked
    <3> QED BY <2>4, <3>1 DEF IsFrame
  <2>6. k # 1 /\ sp' = b /\ status' = status /\ frames' = SubSeq(frames, 1, k - 1)
    BY <1>3
  <2> HIDE DEF i
  <2>7. StackFine' /\ \A j \in Nat : j # i => stack'[j] = stack[j]
    BY <2>1, <2>3, StepHas, StackWritten
  <2> HIDE DEF b
  <2>8. \A j \in Nat : j < b - 1 => stack'[j] = stack[j]
    BY <2>5, <2>7 DEF i
  <2>9. Stacked(frames', stack', sp', Quiet)
    <3>1. \A j \in Nat : j < frames[k].bp - 1 => stack'[j] = stack[j]
      BY <2>5, <2>8
    <3>2. Stacked(SubSeq(frames, 1, k - 1), stack', frames[k].bp, Quiet)
      BY <2>4, <2>6, <3>1, FrameRemoved
    <3> QED BY <2>5, <2>6, <3>2
  <2>10. Len(frames') = k - 1 /\ \A j \in 1..k - 1 : frames'[j] = frames[j]
    <3>1. IsSequence(frames)
      BY <2>4 DEF Stacked
    <3>2. k > 0
      BY <2>4
    <3> HIDE DEF k
    <3> QED BY <2>4, <2>6, <3>1, <3>2, SequenceFront DEF k
  <2>11. /\ k <= MAX_FRAMES /\ frames[1].closure = MainClosure /\ frames[1].bp = 0
         /\ \A j \in 2..k : Fine(frames[j].closure) /\ frames[j].closure.t = "CLOSURE"
    BY StepHas DEF CallsFine
  <2> HIDE DEF k
  <2>12. CallsFine'
    <3>1. 1 \in 1..k - 1 /\ \A j \in 2..k - 1 : j \in 1..k - 1 /\ j \in 2..k
      BY <2>4, <2>6
    <3>2. k - 1 <= MAX_FRAMES
      BY <2>4, <2>11, SizesAssumption
    <3>3. frames'[1].closure = MainClosure' /\ frames'[1].bp = 0
      BY <2>1, <2>10, <2>11, <3>1
    <3>4. ASSUME NEW j \in 2..Len(frames')
          PROVE  Proper(frames'[j].closure, Functions', Quiet') /\ frames'[j].closure.t = "CLOSURE"
      <4>1. j \in 2..k - 1
        BY <2>10
      <4>2. frames'[j] = frames[j] /\ Fine(frames[j].closure) /\ frames[j].closure.t = "CLOSURE"
        BY <2>10, <2>11, <3>1, <4>1
      <4> QED BY <2>1, <4>2 DEF Fine
    <3>5. Stacked(frames', stack', sp', Quiet')
      BY <2>1, <2>9
    <3> QED BY <2>10, <3>2, <3>3, <3>4, <3>5 DEF CallsFine, Fine
  <2>13. LineCounted' /\ status' \in Stages
    BY <2>6, StepHas DEF MachineInv, LineCounted
  <2> QED BY <2>1, <2>2, <2>7, <2>12, <2>13 DEF MachineInv, RunningFine
<1> QED BY <1>1, <1>2, <1>3

LEMMA ValueReturned ==
    ASSUME NEW Trees, MachineSteps(Trees), VM!ReturnValue \/ VM!Return
    PROVE  MachineInv'
<1>1. CASE VM!ReturnValue
  <2>1. /\ VM!At({VM!OP.RETURN_VALUE})
        /\ (VM!Holds(1) /\ VM!ReturnFrom(VM!Operand(1))) \/ VM!Stop("undefined")
    BY <1>1, Zenon DEF VM!ReturnValue
  <2>2. VM!More
    BY <2>1, AtMeans
  <2>3. CASE VM!Stop("undefined")
    BY <2>3, ToStop
  <2>4. CASE VM!Holds(1) /\ VM!ReturnFrom(VM!Operand(1))
    <3>1. 1 \in 1..1
      OBVIOUS
    <3>2. Fine(VM!Operand(1))
      BY <2>2, <2>4, <3>1, StepHas, OperandFine
    <3> QED BY <2>2, <2>4, <3>2, FrameReturned
  <2> QED BY <2>1, <2>3, <2>4
<1>2. CASE VM!Return
  <2>1. VM!At({VM!OP.RETURN}) /\ VM!ReturnFrom(VM!Null)
    BY <1>2, Zenon DEF VM!Return
  <2>2. VM!More
    BY <2>1, AtMeans
  <2>3. Fine(VM!Null)
    BY PlainObjects, ProperPlain DEF Fine
  <2> QED BY <2>1, <2>2, <2>3, FrameReturned
<1> QED BY <1>1, <1>2

LEMMA Halted ==
    ASSUME NEW Trees, MachineSteps(Trees), VM!CallOther \/ VM!Halt
    PROVE  MachineInv'
<1>1. VM!Stop("undefined") \/ VM!Stop("error") \/ VM!Stop("done")
  BY DEF VM!CallOther, VM!Halt
<1> QED BY <1>1, ToStop

(* The machine makes a step.                                               *)
LEMMA MachineKeeps ==
    ASSUME NEW Trees, MachineSteps(Trees), GlobalsReach, VM!NextVm
    PROVE  MachineInv'
BY ConstantPushed, LiteralPushed, BinaryDone, ComparisonDone, MinusDone, BangDone, ArrayBuilt,
   HashBuilt, Indexed, GlobalRead, LocalRead, ClosureMade, OwnClosurePushed, FreeRead,
   BuiltinRead, BuiltinCalled, Popped, JumpMade, ConditionalJumpMade, GlobalWritten,
   LocalWritten, ClosureCalled, ValueReturned, Halted
   DEF VM!NextVm

-----------------------------------------------------------------------------
(* The session *)

MachineSessionInv(Trees) == OperandSessionInv(Trees) /\ MachineInv

LEMMA LineBegun ==
    ASSUME MachineInv, ReadLine
    PROVE  MachineInv'
<1>1. line' = line + 1 /\ status' = "compiling" /\ UNCHANGED <<globals, pool>> /\ status = "idle"
  BY DEF ReadLine, Begin
<1>2. line \in Nat /\ PoolPlain /\ GlobalsFine
  BY DEF MachineInv, LineCounted
<1>3. line' \in Nat /\ line' # 0
  BY <1>1, <1>2
<1>4. Quiet' => Quiet
  <2>1. line' = 1 => line = 0
    BY <1>1, <1>2
  <2> QED BY <1>3, <2>1 DEF Quiet
<1>5. Functions \subseteq Functions'
  BY <1>1 DEF Functions
<1>6. GlobalsFine'
  BY <1>1, <1>2, <1>4, <1>5, GlobalsStay
<1>7. PoolPlain'
  BY <1>1, <1>2 DEF PoolPlain
<1> QED BY <1>1, <1>3, <1>6, <1>7 DEF MachineInv, LineCounted, Stages, RunningFine

LEMMA CompilerKeeps ==
    ASSUME NEW Trees, HoldsParts(Trees), OperandSessionInv(Trees), MachineInv, CompileStep
    PROVE  MachineInv'
<1>1. /\ status = "compiling" /\ status' = status /\ line' = line /\ UNCHANGED globals
      /\ NextCompiler
  BY DEF CompileStep
<1>2. PoolPlain /\ GlobalsFine /\ LineCounted
  BY DEF MachineInv
<1>3. SessionInv(Trees)' /\ CodeStays /\ SessionInv(Trees)
  <2>1. SessionInv(Trees)
    BY SessionOfTrees DEF OperandSessionInv
  <2>2. Next
    BY DEF Next
  <2> QED BY <2>1, <2>2, SessionStep
<1>4. IsSequence(pool) /\ IsSequence(pool')
  BY <1>3 DEF SessionInv, CompilerInv, PoolInv
<1>5. PoolPlain'
  BY <1>1, <1>2, <1>4, PlainStep
<1>7. Functions \subseteq Functions'
  BY <1>3, <1>4, FunctionsStay
<1>8. Quiet' => Quiet
  BY <1>1 DEF Quiet
<1>9. GlobalsFine'
  BY <1>1, <1>2, <1>7, <1>8, GlobalsStay
<1> QED BY <1>1, <1>2, <1>5, <1>9 DEF MachineInv, LineCounted, Stages, RunningFine

(* A program is run from its first instruction, on an empty stack.         *)
LEMMA FrameBegins ==
    ASSUME NEW code, Runs(code, TRUE), NEW st, NEW quiet
    PROVE  LET c == Closure(CompiledFunction(code, 0, 0), << >>)
           IN  Stacked(<< [closure |-> c, ip |-> -1, bp |-> 0] >>, st, 0, quiet)
<1> DEFINE c == Closure(CompiledFunction(code, 0, 0), << >>)
           f == [closure |-> c, ip |-> -1, bp |-> 0]
           fs == << f >>
<1>1. c.fn.code = code /\ c.fn.locals = 0
  BY DEF Closure, CompiledFunction
<1>2. f.closure = c /\ f.ip = -1 /\ f.bp = 0 /\ DOMAIN f = {"closure", "ip", "bp"}
  OBVIOUS
<1>3. <<0, 0>> \in Reached(code)
  BY PathsBegin
<1> HIDE DEF c, f
<1>4. IsSequence(fs) /\ Len(fs) = 1 /\ fs[1] = f /\ fs # << >>
  <2>1. fs \in Seq({f})
    OBVIOUS
  <2> QED BY <2>1 DEF IsSequence
<1> HIDE DEF fs
<1>5. IsFrame(f) /\ Base(f) = 0
  BY <1>1, <1>2, SizesAssumption DEF IsFrame, Base
<1>6. InStep(f, 0, quiet)
  <2>1. <<f.ip + 1, 0>> \in Reached(f.closure.fn.code)
    <3>1. f.ip + 1 = 0 /\ f.closure.fn.code = code
      BY <1>1, <1>2
    <3> QED BY <1>3, <3>1
  <2>2. 0 \in Nat /\ 0 - Base(f) >= 0 /\ 0 - Base(f) = 0
    BY <1>5
  <2> QED BY <2>1, <2>2, Zenon DEF InStep
<1>7. ASSUME NEW k \in 1..Len(fs) PROVE IsFrame(fs[k]) /\ InStep(fs[k], Upper(fs, 0, k), quiet)
  <2>1. k = 1
    BY <1>4
  <2> QED BY <1>4, <1>5, <1>6, <2>1 DEF Upper
<1>8. \A k \in 2..Len(fs) : OnTop(fs, st, k)
  <2>1. ASSUME NEW k \in 2..Len(fs) PROVE FALSE
    BY <1>4
  <2> QED BY <2>1
<1>9. Base(fs[Len(fs)]) <= 0
  BY <1>4, <1>5
<1>10. Stacked(fs, st, 0, quiet)
  BY <1>4, <1>7, <1>8, <1>9 DEF Stacked
<1> QED BY <1>10 DEF fs, f, c

LEMMA MachineLoaded ==
    ASSUME NEW Trees, OperandInv(Trees), MachineInv, Execute
    PROVE  MachineInv'
<1>1. /\ status = "compiling" /\ Compiled /\ UNCHANGED <<compilerVars, line>>
      /\ VM!Load(MainCode)
  BY Zenon DEF Execute, MainCode
<1>2. /\ stack' = [i \in VM!Slots |-> IF i = STACK_SIZE THEN VM!GlobalsPointer ELSE VM!Garbage]
      /\ sp' = 0 /\ status' = "running" /\ UNCHANGED globals
      /\ frames' = << VM!NewFrame(VM!Closure(VM!CompiledFunction(MainCode, 0, 0), << >>), 0) >>
  BY <1>1, Zenon DEF VM!Load
<1>3. /\ Functions' = Functions /\ MainClosure' = MainClosure /\ Compiled' /\ PoolPlain'
      /\ LineCounted /\ GlobalsFine
  BY <1>1, SameEnvironment DEF MachineInv
<1>4. Quiet' => Quiet
  BY <1>1, <1>2 DEF Quiet
<1>5. GlobalsFine'
  BY <1>2, <1>3, <1>4, GlobalsStay
<1>6. StackFine'
  <2>1. VM!Slots = 0..STACK_SIZE
    BY DEF VM!Slots
  <2>2. \A i \in 0..STACK_SIZE : stack'[i].t \in Scalars
    BY <1>2, <2>1, PlainObjects
  <2>3. DOMAIN stack' = 0..STACK_SIZE
    BY <1>2, <2>1
  <2> QED BY <2>2, <2>3, ProperPlain DEF StackFine, Fine
<1>7. frames' = << [closure |-> MainClosure, ip |-> -1, bp |-> 0] >>
  BY <1>2, Zenon DEF VM!NewFrame, VM!Closure, VM!CompiledFunction, MainClosure, Closure, CompiledFunction
<1>8. Stacked(frames', stack', sp', Quiet')
  <2>1. Runs(MainCode, TRUE)
    BY <1>1, MainReady
  <2> QED BY <1>2, <1>7, <2>1, FrameBegins DEF MainClosure
<1>9. CallsFine'
  <2> DEFINE f == [closure |-> MainClosure, ip |-> -1, bp |-> 0]
  <2>1. frames' = << f >> /\ f.closure = MainClosure /\ f.bp = 0
    BY <1>7
  <2> HIDE DEF f
  <2>2. Len(frames') = 1 /\ frames'[1] = f /\ 2..Len(frames') = {}
    BY <2>1
  <2>3. 1 <= MAX_FRAMES
    BY SizesAssumption
  <2> QED BY <1>3, <1>8, <2>1, <2>2, <2>3 DEF CallsFine
<1>10. LineCounted'
  BY <1>1, <1>2, <1>3 DEF LineCounted
<1> QED BY <1>2, <1>3, <1>5, <1>6, <1>9, <1>10 DEF MachineInv, RunningFine, Stages

LEMMA MachineLeft ==
    ASSUME MachineInv, ArrayOverrun \/ CompilationFailed \/ Report
    PROVE  MachineInv'
<1>1. UNCHANGED <<compilerVars, line, globals>> /\ status' \in Stages \ {"running", "compiling"}
  BY DEF ArrayOverrun, CompilationFailed, Report, Stages
<1> QED BY <1>1, Stops

LEMMA NothingHappens ==
    ASSUME MachineInv, UNCHANGED monkeyVars
    PROVE  MachineInv'
<1>1. UNCHANGED <<compilerVars, line, globals, stack, sp, frames, status>>
  BY DEF monkeyVars
<1>2. /\ Functions' = Functions /\ Quiet' = Quiet /\ MainClosure' = MainClosure
      /\ Compiled' = Compiled /\ PoolPlain'
  BY <1>1, SameEnvironment DEF MachineInv
<1>3. GlobalsFine'
  BY <1>1, <1>2, GlobalsStay DEF MachineInv
<1>4. StackFine => StackFine'
  BY <1>1, <1>2 DEF StackFine, Fine
<1>5. CallsFine => CallsFine'
  BY <1>1, <1>2 DEF CallsFine, Fine
<1> QED BY <1>1, <1>2, <1>3, <1>4, <1>5 DEF MachineInv, RunningFine, LineCounted

LEMMA MachineSessionStep ==
    ASSUME NEW Trees, HoldsParts(Trees), Balanced(Trees), MachineSessionInv(Trees),
           [Next]_monkeyVars, BuffersShort, BuffersShort', GlobalsReach
    PROVE  MachineSessionInv(Trees)'
<1>1. OperandSessionInv(Trees) /\ MachineInv
  BY DEF MachineSessionInv
<1>2. OperandSessionInv(Trees)'
  BY <1>1, OperandSessionStep
<1>3. OperandInv(Trees)
  BY <1>1 DEF OperandSessionInv, OperandInv, CodeSessionInv
<1>4. CASE CompileStep
  BY <1>1, <1>2, <1>4, CompilerKeeps DEF MachineSessionInv
<1>5. CASE MachineStep
  <2>1. VM!NextVm /\ UNCHANGED <<compilerVars, line>>
    BY <1>5, MachineKeepsPool DEF MachineStep, compilerVars
  <2>2. MachineSteps(Trees)
    BY <1>1, <1>3, <2>1 DEF MachineSteps
  <2>3. MachineInv'
    BY <2>1, <2>2, MachineKeeps
  <2> QED BY <1>2, <2>3 DEF MachineSessionInv
<1>6. CASE Execute
  BY <1>1, <1>2, <1>3, <1>6, MachineLoaded DEF MachineSessionInv
<1>7. CASE ArrayOverrun \/ CompilationFailed \/ Report \/ ReadLine \/ UNCHANGED monkeyVars
  BY <1>1, <1>2, <1>7, MachineLeft, LineBegun, NothingHappens DEF MachineSessionInv
<1> QED BY <1>4, <1>5, <1>6, <1>7 DEF Next

LEMMA MachineSessionBegins ==
    ASSUME NEW Trees, Sessions \subseteq Seq(ProgramsOf(Trees)), Init
    PROVE  MachineSessionInv(Trees)
<1>1. OperandSessionInv(Trees)
  BY OperandSessionBegins
<1>2. globals = [g \in GlobalSlots |-> VM!NullPointer] /\ status = "idle" /\ line = 0 /\ pool = << >>
  BY Zenon DEF Init, VM!InitVm
<1>3. GlobalsFine
  <2>1. \A g \in GlobalSlots : globals[g].t \in Scalars
    BY <1>2, PlainObjects
  <2> QED BY <1>2, <2>1, ProperPlain DEF GlobalsFine, Fine
<1>4. PoolPlain
  <2>1. Len(pool) = 0
    BY <1>2, NothingIsSequence
  <2> QED BY <2>1 DEF PoolPlain
<1> QED BY <1>1, <1>2, <1>3, <1>4 DEF MachineSessionInv, MachineInv, LineCounted, Stages, RunningFine

(* What the invariant says of the frames, one by one.                      *)
LEMMA FramesBelow ==
    ASSUME MachineInv, status = "running", NEW k \in 1..Len(frames)
    PROVE  /\ IsFrame(frames[k]) /\ InStep(frames[k], Upper(frames, sp, k), Quiet)
           /\ k # 1 => OnTop(frames, stack, k)
           /\ Base(frames[k]) <= sp /\ sp \in Nat
<1> DEFINE n == Len(frames)
<1>1. Stacked(frames, stack, sp, Quiet)
  BY DEF MachineInv, RunningFine, CallsFine
<1>2. n \in Nat /\ n \in 1..n /\ sp \in Nat
  BY <1>1, SequenceForm DEF Stacked
<1>3. \A j \in 1..n : IsFrame(frames[j]) /\ InStep(frames[j], Upper(frames, sp, j), Quiet)
  BY <1>1 DEF Stacked
<1>4. k # 1 => OnTop(frames, stack, k)
  <2>1. k # 1 => k \in 2..n
    BY <1>2
  <2> QED BY <1>1, <2>1 DEF Stacked
<1>5. Base(frames[n]) <= sp
  BY <1>1 DEF Stacked
<1>6. \A j \in 1..n : frames[j].bp \in Nat /\ Base(frames[j]) \in Nat /\ frames[j].bp <= Base(frames[j])
  BY <1>3, FrameNumbers
<1>7. Base(frames[k]) <= sp
  <2>1. CASE k = n
    BY <1>5, <2>1
  <2>2. CASE k # n
    <3>1. k + 1 \in 2..n /\ k + 1 \in 1..n /\ (k + 1) - 1 = k
      BY <1>2, <2>2
    <3>2. frames[k+1].bp > Base(frames[k])
      <4>1. OnTop(frames, stack, k + 1)
        BY <1>1, <3>1 DEF Stacked
      <4> QED BY <3>1, <4>1 DEF OnTop
    <3>3. k + 1 = n \/ frames[k+1].bp < frames[n].bp
      <4>1. k + 1 = n \/ k + 1 < n
        BY <1>2, <3>1
      <4> QED BY <1>1, <1>2, <3>1, <4>1, FramesRise
    <3> HIDE DEF n
    <3> QED BY <1>2, <1>5, <1>6, <3>1, <3>2, <3>3
  <2> QED BY <2>1, <2>2
<1> QED BY <1>2, <1>3, <1>4, <1>7

LEMMA NestedFrames ==
    ASSUME MachineInv
    PROVE  FramesNested
<1>1. SUFFICES ASSUME status = "running", NEW k \in 2..Len(frames)
               PROVE  /\ frames[k].bp > frames[k-1].bp + frames[k-1].closure.fn.locals
                      /\ stack[frames[k].bp - 1] = frames[k].closure
                      /\ frames[k].bp + frames[k].closure.fn.locals <= sp
  BY DEF FramesNested
<1>2. k \in 1..Len(frames) /\ k # 1
  OBVIOUS
<1>3. OnTop(frames, stack, k) /\ Base(frames[k]) <= sp
  BY <1>1, <1>2, FramesBelow
<1> QED BY <1>3 DEF OnTop, Base

LEMMA FramesDomain ==
    ASSUME MachineInv, status = "running"
    PROVE  DOMAIN frames = 1..Len(frames) /\ Len(frames) \in 1..MAX_FRAMES
<1>1. IsSequence(frames) /\ frames # << >> /\ Len(frames) <= MAX_FRAMES
  BY DEF MachineInv, RunningFine, CallsFine, Stacked
<1>2. DOMAIN frames = 1..Len(frames) /\ Len(frames) \in Nat /\ Len(frames) > 0
  BY <1>1, SequenceForm
<1> QED BY <1>1, <1>2, SizesAssumption

LEMMA DepthInStep ==
    ASSUME MachineInv
    PROVE  DepthAgrees
<1>1. SUFFICES ASSUME status = "running", NEW k \in DOMAIN frames
               PROVE  \E r \in Reached(frames[k].closure.fn.code) :
                        /\ r[1] = frames[k].ip + 1
                        /\ Depth(k) >= r[2]
                        /\ NoBuiltins => Depth(k) = r[2]
  BY Zenon DEF DepthAgrees
<1>2. InStep(frames[k], Upper(frames, sp, k), Quiet)
  BY <1>1, FramesDomain, FramesBelow
<1>3. Depth(k) = Upper(frames, sp, k) - Base(frames[k])
  BY Zenon DEF Depth, Top0, Upper, Base
<1>4. NoBuiltins => Quiet
  BY <1>1 DEF NoBuiltins, Quiet
<1> DEFINE f == frames[k]
<1>5. PICK d \in Nat : /\ <<f.ip + 1, d>> \in Reached(f.closure.fn.code)
                       /\ Depth(k) >= d
                       /\ Quiet => Depth(k) = d
  BY <1>2, <1>3, Zenon DEF InStep
<1> HIDE DEF f
<1>6. /\ <<f.ip + 1, d>>[1] = f.ip + 1 /\ <<f.ip + 1, d>>[2] = d
  OBVIOUS
<1>7. \E r \in Reached(f.closure.fn.code) :
         r[1] = f.ip + 1 /\ Depth(k) >= r[2] /\ (NoBuiltins => Depth(k) = r[2])
  BY <1>4, <1>5, <1>6
<1> QED BY <1>7 DEF f

LEMMA MachineTyped ==
    ASSUME NEW Trees, MachineSessionInv(Trees)
    PROVE  TypeOK
<1>1. MachineInv /\ OperandInv(Trees)
  BY DEF MachineSessionInv, OperandSessionInv, OperandInv, CodeSessionInv
<1>2. \A g \in GlobalSlots : globals[g].t \in Values
  BY <1>1, ProperParts DEF MachineInv, GlobalsFine, Fine
<1>3. ASSUME status = "running"
      PROVE  /\ DOMAIN stack = 0..STACK_SIZE /\ \A i \in 0..STACK_SIZE : stack[i].t \in Values
             /\ sp \in Nat
  <2>1. StackFine /\ CallsFine
    BY <1>1, <1>3 DEF MachineInv, RunningFine
  <2> QED BY <2>1, ProperParts DEF StackFine, Fine, CallsFine, Stacked
<1>4. ASSUME status = "running", NEW k \in DOMAIN frames
      PROVE  /\ frames[k].ip \in -1..Len(frames[k].closure.fn.code) - 1
             /\ frames[k].bp \in 0..STACK_SIZE + 1
  <2>1. k \in 1..Len(frames)
    BY <1>1, <1>4, FramesDomain
  <2>2. /\ IsFrame(frames[k]) /\ InStep(frames[k], Upper(frames, sp, k), Quiet)
        /\ Runs(frames[k].closure.fn.code, k = 1)
    BY <1>1, <1>4, <2>1, FramesBelow, FramesHave
  <2> DEFINE code == frames[k].closure.fn.code
             ip == frames[k].ip
             bp == frames[k].bp
  <2>3. PICK d : <<ip + 1, d>> \in Reached(code)
    BY <2>2 DEF InStep
  <2>4. ip + 1 \in 0..Len(code)
    BY <2>2, <2>3, PathsArrive DEF Arrives
  <2>5. ip \in Int /\ bp \in Nat /\ bp <= STACK_SIZE + 1 /\ Len(code) \in Nat
    BY <2>2 DEF IsFrame, Runs
  <2> HIDE DEF code, ip, bp
  <2>6. ip \in -1..Len(code) - 1 /\ bp \in 0..STACK_SIZE + 1
    BY <2>4, <2>5, SizesAssumption
  <2> QED BY <2>6 DEF code, ip, bp
<1>5. status \in {"idle", "compiling", "running", "done", "error", "undefined", "exited"}
  BY <1>1 DEF MachineInv, Stages
<1>6. status = "running" => Len(frames) \in 1..MAX_FRAMES
  BY <1>1, FramesDomain
<1> QED BY <1>2, <1>3, <1>4, <1>5, <1>6, Zenon DEF TypeOK

-----------------------------------------------------------------------------
(* The machine is well formed, whatever lines are entered and however they *)
(* end: its slots and globals hold values, the stack pointer is a number,  *)
(* no more calls are active than there are frames, and every one of them   *)
(* is before an instruction of its code or at its end.  The globals that   *)
(* are counted have slots; the buffers and the pool stay as short as an    *)
(* operand reaches.                                                        *)
THEOREM MachineWellFormed ==
    ASSUME NEW CONSTANT Trees, HoldsParts(Trees), Balanced(Trees),
           Sessions \subseteq Seq(ProgramsOf(Trees))
    PROVE  Spec /\ []BuffersShort /\ []GlobalsReach => []TypeOK
<1>1. Init => MachineSessionInv(Trees)
  BY MachineSessionBegins
<1>2. /\ MachineSessionInv(Trees) /\ [Next]_monkeyVars
      /\ BuffersShort /\ BuffersShort' /\ GlobalsReach
      => MachineSessionInv(Trees)'
  BY MachineSessionStep
<1>3. MachineSessionInv(Trees) => TypeOK
  BY MachineTyped
<1> QED BY <1>1, <1>2, <1>3, PTL DEF Spec

(* The frames of the active calls lie one above the other, and each call   *)
(* finds the closure it came through where the return will put its value.  *)
THEOREM FramesStayNested ==
    ASSUME NEW CONSTANT Trees, HoldsParts(Trees), Balanced(Trees),
           Sessions \subseteq Seq(ProgramsOf(Trees))
    PROVE  Spec /\ []BuffersShort /\ []GlobalsReach => []FramesNested
<1>1. Init => MachineSessionInv(Trees)
  BY MachineSessionBegins
<1>2. /\ MachineSessionInv(Trees) /\ [Next]_monkeyVars
      /\ BuffersShort /\ BuffersShort' /\ GlobalsReach
      => MachineSessionInv(Trees)'
  BY MachineSessionStep
<1>3. MachineSessionInv(Trees) => FramesNested
  BY NestedFrames DEF MachineSessionInv
<1> QED BY <1>1, <1>2, <1>3, PTL DEF Spec

(* No operand is ever missing: every active call has on the stack what its *)
(* code has there, instruction by instruction, and exactly that as long as *)
(* no builtin is about.                                                    *)
THEOREM DepthsAgree ==
    ASSUME NEW CONSTANT Trees, HoldsParts(Trees), Balanced(Trees),
           Sessions \subseteq Seq(ProgramsOf(Trees))
    PROVE  Spec /\ []BuffersShort /\ []GlobalsReach => []DepthAgrees
<1>1. Init => MachineSessionInv(Trees)
  BY MachineSessionBegins
<1>2. /\ MachineSessionInv(Trees) /\ [Next]_monkeyVars
      /\ BuffersShort /\ BuffersShort' /\ GlobalsReach
      => MachineSessionInv(Trees)'
  BY MachineSessionStep
<1>3. MachineSessionInv(Trees) => DepthAgrees
  BY DepthInStep DEF MachineSessionInv
<1> QED BY <1>1, <1>2, <1>3, PTL DEF Spec
-----------------------------------------------------------------------------
(* Why the machine does what is undefined *)

(* A value that is no object, or has one in it that is none.               *)
Unset(v) ==
    ~VM!IsObject(v) \/ (\E x \in VM!Parts(v) : ~VM!IsObject(x)) \/ VM!Dangling(v)

(* Values within values are found level by level, as Contents does.        *)
LEMMA WholeInItsParts ==
    ASSUME NEW o, ~Dangling(o)
    PROVE  IsObject(o) /\ \A x \in Parts(o) : IsObject(x)
<1> DEFINE f == CHOOSE g : IsLevels(o, g, MaxNesting)
<1>1. MaxNesting \in Nat /\ 0 \in 0..MaxNesting /\ 1 \in 0..MaxNesting
  BY DEF MaxNesting
<1>2. IsLevels(o, f, MaxNesting)
  BY <1>1, LevelsExist, Zenon
<1>3. \A d \in 0..MaxNesting : \A v \in f[d] : IsObject(v)
  BY Zenon DEF Dangling, Contents, IsLevels, Levels
<1> HIDE DEF f
<1>4. f[0] = {o} /\ f[1] = UNION {Parts(v) : v \in f[0]}
  BY <1>1, <1>2 DEF IsLevels, Levels
<1>5. f[1] = Parts(o)
  BY <1>4
<1> QED BY <1>1, <1>3, <1>4, <1>5

LEMMA SameParts ==
    /\ \A v : VM!IsObject(v) = IsObject(v)
    /\ \A v : VM!Parts(v) = Parts(v)
    /\ \A v : VM!Dangling(v) = Dangling(v)
    /\ \A v : VM!Textless(v) = Textless(v)
    /\ \A v : VM!IsPuts(v) = IsPuts(v)
    /\ \A v : VM!Hashable(v) = Hashable(v)
    /\ \A n : VM!Integer(n) = Integer(n)
<1>1. \A v : VM!IsObject(v) = IsObject(v)
  BY Zenon DEF VM!IsObject, IsObject
<1>2. \A v : VM!Parts(v) = Parts(v)
  BY Zenon DEF VM!Parts, Parts
<1>3. \A v : VM!Contents(v) = Contents(v)
  BY <1>2, Zenon DEF VM!Contents, Contents, VM!Parts, Parts, VM!MaxNesting, MaxNesting
<1>4. \A v : VM!Dangling(v) = Dangling(v) /\ VM!Textless(v) = Textless(v)
  BY <1>1, <1>3, Zenon DEF VM!Dangling, Dangling, VM!Textless, Textless
<1> QED BY <1>1, <1>2, <1>4, Zenon
        DEF VM!Hashable, Hashable, VM!Integer, Integer, VM!IsPuts, IsPuts

LEMMA UnsetShows ==
    ASSUME NEW v, Unset(v)
    PROVE  Dangling(v)
BY WholeInItsParts, SameParts DEF Unset

(* Most outcomes are not undefined.                                        *)
LEMMA OutcomesDiffer ==
    /\ \A o : o.t \in Values \cup {"ERROR", "exit", "COMPILED_FUNCTION"} => o # VM!Undefined
    /\ VM!Error # VM!Undefined /\ VM!Exit # VM!Undefined /\ VM!Null # VM!Undefined
    /\ \A n : VM!Integer(n) # VM!Undefined
    /\ \A b : VM!Boolean(b) # VM!Undefined
    /\ \A s : VM!String(s) # VM!Undefined
    /\ \A es : VM!ArrayOf(es) # VM!Undefined
    /\ \A ps : VM!HashOf(ps) # VM!Undefined
    /\ \A i : VM!Builtin(i) # VM!Undefined
    /\ \A fn, free : VM!Closure(fn, free) # VM!Undefined
<1>1. VM!Undefined.t = "undefined behaviour"
  BY DEF VM!Undefined
<1>2. \A o : o.t \in Values \cup {"ERROR", "exit", "COMPILED_FUNCTION"} => o # VM!Undefined
  BY <1>1 DEF Values
<1>3. /\ VM!Error.t = "ERROR" /\ VM!Exit.t = "exit" /\ VM!Null.t = "NULL"
      /\ \A n : VM!Integer(n).t = "INTEGER"
      /\ \A b : VM!Boolean(b).t = "BOOLEAN"
      /\ \A s : VM!String(s).t = "STRING"
      /\ \A es : VM!ArrayOf(es).t = "ARRAY"
      /\ \A ps : VM!HashOf(ps).t = "HASH"
      /\ \A i : VM!Builtin(i).t = "BUILT_IN"
      /\ \A fn, free : VM!Closure(fn, free).t = "CLOSURE"
  BY DEF VM!Error, VM!Exit, VM!Null, VM!Integer, VM!Boolean, VM!String, VM!ArrayOf, VM!HashOf,
         VM!Builtin, VM!Closure
<1> QED BY <1>1, <1>2, <1>3

LEMMA ProperDefined ==
    ASSUME NEW v, NEW fns, NEW quiet, Proper(v, fns, quiet)
    PROVE  v # VM!Undefined
BY ProperParts, OutcomesDiffer

(* The items of an array are parts of it.                                  *)
LEMMA ItemsArePartsOf ==
    ASSUME NEW a, a.t = "ARRAY", IsSequence(a.elements), NEW i \in 1..Len(a.elements),
           ~VM!IsObject(a.elements[i])
    PROVE  Unset(a)
<1>1. VM!Parts(a) = {a.elements[j] : j \in DOMAIN a.elements}
  BY DEF VM!Parts
<1>2. DOMAIN a.elements = 1..Len(a.elements)
  BY SequenceForm
<1> QED BY <1>1, <1>2 DEF Unset

LEMMA HashUndefined ==
    ASSUME NEW pairs, NEW key, NEW fns, NEW quiet, IsSequence(pairs),
           \A i \in DOMAIN pairs : Proper(pairs[i][2], fns, quiet),
           VM!HashItem(pairs, key) = VM!Undefined
    PROVE  \E i \in DOMAIN pairs : ~Hashable(pairs[i][1])
<1> DEFINE first == {i \in DOMAIN pairs : pairs[i][1] = key /\ \A j \in 1..i-1 : ~(pairs[j][1] = key)}
           visited == IF first = {} THEN DOMAIN pairs ELSE UNION {1..i : i \in first}
           known(i) == VM!IsObject(pairs[i][1]) /\ VM!Hashable(pairs[i][1])
<1>1. \/ VM!HashItem(pairs, key) \in {VM!Error, VM!Null}
      \/ \E i \in visited : ~known(i)
      \/ first # {} /\ VM!HashItem(pairs, key) = pairs[CHOOSE i \in first : TRUE][2]
  BY Zenon DEF VM!HashItem
<1>2. first # {} => (CHOOSE i \in first : TRUE) \in DOMAIN pairs
  BY Zenon
<1>3. visited \subseteq DOMAIN pairs
  <2>1. DOMAIN pairs = 1..Len(pairs) /\ Len(pairs) \in Nat
    BY SequenceForm
  <2>2. \A i \in first : 1..i \subseteq DOMAIN pairs
    BY <2>1
  <2> HIDE DEF first
  <2> QED BY <2>2
<1>4. ~(first # {} /\ VM!HashItem(pairs, key) = pairs[CHOOSE i \in first : TRUE][2])
  <2> HIDE DEF first
  <2> QED BY <1>2, ProperDefined, Zenon
<1>5. PICK i \in visited : ~known(i)
  BY <1>1, <1>4, OutcomesDiffer
<1>6. ~VM!Hashable(pairs[i][1])
  BY <1>5 DEF VM!IsObject, VM!Hashable
<1> QED BY <1>3, <1>5, <1>6, SameParts

LEMMA ItemUndefined ==
    ASSUME NEW left, NEW index, NEW fns, NEW quiet, Proper(left, fns, quiet),
           VM!Item(left, index) = VM!Undefined
    PROVE  \/ Unset(left) \/ Unset(index)
           \/ left.t = "HASH" /\ \E i \in DOMAIN left.pairs : ~Hashable(left.pairs[i][1])
<1> DEFINE o == VM!Item(left, index)
<1>1. /\ left.t = "ARRAY" => /\ IsSequence(left.elements)
                             /\ \A i \in 1..Len(left.elements) : Proper(left.elements[i], fns, quiet)
      /\ left.t = "HASH" => /\ IsSequence(left.pairs)
                            /\ \A i \in DOMAIN left.pairs : Proper(left.pairs[i][2], fns, quiet)
  BY ProperParts
<1>2. \/ ~VM!IsObject(left) \/ ~VM!IsObject(index) \/ o = VM!Error
      \/ left.t = "HASH" /\ o = VM!HashItem(left.pairs, index)
      \/ left.t = "ARRAY" /\ o = VM!ArrayItem(left.elements, index.int)
  BY Zenon DEF VM!Item, VM!IsObject
<1>3. CASE ~VM!IsObject(left) \/ ~VM!IsObject(index)
  BY <1>3, Zenon DEF Unset
<1>4. CASE left.t = "HASH" /\ o = VM!HashItem(left.pairs, index)
  BY <1>1, <1>4, HashUndefined
<1>5. ASSUME left.t = "ARRAY", o = VM!ArrayItem(left.elements, index.int) PROVE FALSE
  <2> DEFINE es == left.elements
             j == index.int
  <2>1. Len(es) \in Nat /\ \A i \in 1..Len(es) : Proper(es[i], fns, quiet)
    BY <1>1, <1>5, SequenceForm
  <2>2. o = IF j \in 0..Len(es) - 1 THEN es[j + 1] ELSE VM!Null
    BY <1>5 DEF VM!ArrayItem
  <2> HIDE DEF es, j, o
  <2>3. o # VM!Undefined
    <3>1. CASE j \in 0..Len(es) - 1
      <4>1. j + 1 \in 1..Len(es)
        BY <2>1, <3>1
      <4> QED BY <2>1, <2>2, <3>1, <4>1, ProperDefined
    <3>2. CASE j \notin 0..Len(es) - 1
      BY <2>2, <3>2, OutcomesDiffer
    <3> QED BY <3>1, <3>2
  <2> QED BY <2>3 DEF o
<1>6. o # VM!Error
  BY OutcomesDiffer
<1> QED BY <1>2, <1>3, <1>4, <1>5, <1>6

(* The builtins.                                                           *)
LEMMA LenUndefined ==
    ASSUME NEW args, IsSequence(args), VM!BuiltinLen(args) = VM!Undefined
    PROVE  \E i \in 1..Len(args) : Unset(args[i])
<1>1. DOMAIN args = 1..Len(args)
  BY SequenceForm
<1>2. \/ \E i \in DOMAIN args : ~VM!IsObject(args[i])
      \/ VM!BuiltinLen(args) = VM!Error
      \/ \E n : VM!BuiltinLen(args) = VM!Integer(n)
  BY DEF VM!BuiltinLen, VM!Checked
<1>3. \E i \in DOMAIN args : ~VM!IsObject(args[i])
  BY <1>2, OutcomesDiffer
<1> QED BY <1>1, <1>3 DEF Unset

LEMMA PutsUndefined ==
    ASSUME NEW args, IsSequence(args), VM!BuiltinPuts(args) = VM!Undefined
    PROVE  \E i \in 1..Len(args) : Unset(args[i]) \/ Textless(args[i])
<1>1. DOMAIN args = 1..Len(args)
  BY SequenceForm
<1>2. PICK i \in DOMAIN args : ~VM!Printable(args[i])
  BY OutcomesDiffer DEF VM!BuiltinPuts
<1>3. VM!Dangling(args[i]) \/ VM!Textless(args[i])
  BY <1>2, Zenon DEF VM!Printable
<1>4. Unset(args[i]) \/ Textless(args[i])
  BY <1>3, SameParts, Zenon DEF Unset
<1> QED BY <1>1, <1>4, Zenon

LEMMA ArrayItems ==
    ASSUME NEW a, NEW fns, NEW quiet, Proper(a, fns, quiet), a.t = "ARRAY"
    PROVE  /\ IsSequence(a.elements) /\ Len(a.elements) \in Nat
           /\ a.elements # << >> <=> Len(a.elements) > 0
           /\ \A i \in 1..Len(a.elements) :
                /\ Proper(a.elements[i], fns, quiet)
                /\ ~VM!IsObject(a.elements[i]) => Unset(a)
<1>1. IsSequence(a.elements) /\ \A i \in 1..Len(a.elements) : Proper(a.elements[i], fns, quiet)
  BY ProperParts
<1> QED BY <1>1, SequenceForm, ItemsArePartsOf

LEMMA FirstUndefined ==
    ASSUME NEW args, NEW fns, NEW quiet, Len(args) = 1 => Proper(args[1], fns, quiet),
           VM!Undefined \in {VM!BuiltinFirst(args), VM!BuiltinLast(args), VM!BuiltinRest(args)}
    PROVE  Len(args) = 1 /\ Unset(args[1])
<1> DEFINE a == args[1]
           es == a.elements
           rest == Tail(es)
<1>1. \/ Len(args) = 1 /\ ~VM!IsObject(a)
      \/ Len(args) = 1 /\ a.t = "ARRAY" /\ es # << >>
    <2>1. \A o : o \in {VM!Error, VM!Null} => o # VM!Undefined
      BY OutcomesDiffer
    <2> QED BY <2>1 DEF VM!BuiltinFirst, VM!BuiltinLast, VM!BuiltinRest, VM!ArrayArg
<1>2. CASE Len(args) = 1 /\ ~VM!IsObject(a)
  BY <1>2 DEF Unset
<1>3. CASE Len(args) = 1 /\ a.t = "ARRAY" /\ es # << >>
  <2>1. /\ IsSequence(es) /\ Len(es) \in Nat /\ Len(es) > 0
        /\ \A i \in 1..Len(es) : Proper(es[i], fns, quiet) /\ (~VM!IsObject(es[i]) => Unset(a))
    <3>1. Proper(a, fns, quiet)
      BY <1>3
    <3> HIDE DEF a
    <3> QED BY <1>3, <3>1, ArrayItems
  <2>2. /\ IsSequence(rest) /\ Len(rest) = Len(es) - 1
        /\ \A i \in 1..Len(es) - 1 : rest[i] = es[i+1]
    BY <2>1, SequenceTail
  <2>3. VM!IsObject(a)
    BY <1>3 DEF VM!IsObject
  <2>4. /\ VM!BuiltinFirst(args) = VM!Deref(es[1])
        /\ VM!BuiltinLast(args) = VM!Deref(es[Len(es)])
        /\ VM!BuiltinRest(args) = VM!Copied(rest, VM!ArrayOf(rest))
    BY <1>3, <2>3, Zenon DEF VM!BuiltinFirst, VM!BuiltinLast, VM!BuiltinRest, VM!ArrayArg
  <2> HIDE DEF a, es, rest
  <2>5. ASSUME NEW i \in 1..Len(es), VM!Deref(es[i]) = VM!Undefined PROVE Unset(a)
    <3>1. es[i] # VM!Undefined
      BY <2>1, ProperDefined
    <3>2. ~VM!IsObject(es[i])
      BY <2>5, <3>1 DEF VM!Deref, VM!Checked
    <3> QED BY <2>1, <3>2
  <2>6. ASSUME VM!Copied(rest, VM!ArrayOf(rest)) = VM!Undefined PROVE Unset(a)
    <3>1. PICK i \in DOMAIN rest : ~VM!IsObject(rest[i])
      BY <2>6, OutcomesDiffer DEF VM!Copied
    <3>2. i \in 1..Len(rest)
      BY <2>2, SequenceForm
    <3>3. i \in 1..Len(es) - 1 /\ i + 1 \in 1..Len(es)
      BY <2>1, <2>2, <3>2
    <3> QED BY <2>1, <2>2, <3>1, <3>3
  <2>7. 1 \in 1..Len(es) /\ Len(es) \in 1..Len(es)
    BY <2>1
  <2>8. Unset(a)
    BY <2>4, <2>5, <2>6, <2>7
  <2> QED BY <1>3, <2>8 DEF a
<1> QED BY <1>1, <1>2, <1>3

LEMMA PushUndefined ==
    ASSUME NEW args, NEW fns, NEW quiet, Len(args) = 2 => Proper(args[1], fns, quiet),
           VM!BuiltinPush(args) = VM!Undefined
    PROVE  Len(args) = 2 /\ (Unset(args[1]) \/ Unset(args[2]))
<1> DEFINE a == args[1]
           es == a.elements
           pushed == Append(es, args[2])
<1>1. \/ Len(args) = 2 /\ ~VM!IsObject(a)
      \/ Len(args) = 2 /\ a.t = "ARRAY" /\ VM!Copied(pushed, VM!ArrayOf(pushed)) = VM!Undefined
  BY OutcomesDiffer DEF VM!BuiltinPush
<1>2. CASE Len(args) = 2 /\ ~VM!IsObject(a)
  BY <1>2 DEF Unset
<1>3. CASE Len(args) = 2 /\ a.t = "ARRAY" /\ VM!Copied(pushed, VM!ArrayOf(pushed)) = VM!Undefined
  <2>1. /\ IsSequence(es) /\ Len(es) \in Nat
        /\ \A i \in 1..Len(es) : ~VM!IsObject(es[i]) => Unset(a)
    <3>1. Proper(a, fns, quiet)
      BY <1>3
    <3> HIDE DEF a
    <3> QED BY <1>3, <3>1, ArrayItems
  <2>2. /\ IsSequence(pushed) /\ Len(pushed) = Len(es) + 1
        /\ \A i \in 1..Len(es) : pushed[i] = es[i]
        /\ pushed[Len(es) + 1] = args[2]
    BY <2>1, SequenceAppend
  <2>3. DOMAIN pushed = 1..Len(pushed)
    BY <2>2, SequenceForm
  <2> HIDE DEF a, es, pushed
  <2>4. PICK i \in DOMAIN pushed : ~VM!IsObject(pushed[i])
    BY <1>3, OutcomesDiffer DEF VM!Copied
  <2>5. i \in 1..Len(es) \/ i = Len(es) + 1
    BY <2>1, <2>2, <2>3
  <2>6. Unset(a) \/ Unset(args[2])
    BY <2>1, <2>2, <2>4, <2>5 DEF Unset
  <2> QED BY <1>3, <2>6 DEF a
<1> QED BY <1>1, <1>2, <1>3

LEMMA BuiltinUndefined ==
    ASSUME NEW index, NEW args, IsSequence(args), NEW fns, NEW quiet,
           \A i \in 1..Len(args) : Proper(args[i], fns, quiet),
           VM!CallBuiltin(index, args) = VM!Undefined
    PROVE  \E i \in 1..Len(args) : Unset(args[i]) \/ (index = 4 /\ Textless(args[i]))
<1>1. /\ Len(args) = 1 => Proper(args[1], fns, quiet)
      /\ Len(args) = 2 => Proper(args[1], fns, quiet)
  OBVIOUS
<1>2. \/ VM!Undefined \in {VM!BuiltinLen(args), VM!BuiltinFirst(args), VM!BuiltinRest(args),
                           VM!BuiltinPush(args), VM!BuiltinLast(args), VM!Exit}
      \/ index = 4 /\ VM!BuiltinPuts(args) = VM!Undefined
  BY DEF VM!CallBuiltin
<1>3. CASE VM!Undefined = VM!BuiltinLen(args)
  <2>1. \E i \in 1..Len(args) : Unset(args[i])
    BY <1>3, LenUndefined
  <2> QED BY <2>1
<1>4. CASE VM!Undefined \in {VM!BuiltinFirst(args), VM!BuiltinLast(args), VM!BuiltinRest(args)}
  <2>1. Len(args) = 1 /\ Unset(args[1])
    BY <1>1, <1>4, FirstUndefined
  <2> QED BY <2>1
<1>5. CASE VM!BuiltinPush(args) = VM!Undefined
  <2>1. Len(args) = 2 /\ (Unset(args[1]) \/ Unset(args[2]))
    BY <1>1, <1>5, PushUndefined
  <2> QED BY <2>1
<1>6. CASE index = 4 /\ VM!BuiltinPuts(args) = VM!Undefined
  <2>1. \E i \in 1..Len(args) : Unset(args[i]) \/ Textless(args[i])
    BY <1>6, PutsUndefined
  <2> QED BY <1>6, <2>1
<1> QED BY <1>2, <1>3, <1>4, <1>5, <1>6, OutcomesDiffer

Fails == status' = "undefined"

(* The instruction takes n operands and perhaps more.                      *)
Wants(n) == n \in Nat /\ \A code, p, op, d : Executing(code, p, op, d) => n <= Pops(code, p)

LEMMA WantsWhatItUses ==
    ASSUME NEW Trees, MachineSteps(Trees), VM!More, NEW STATE n, Uses(n)
    PROVE  Wants(n)
<1>1. PICK code, p, op, d : Executing(code, p, op, d)
  BY StepHas, StepBegins
<1> QED BY <1>1 DEF Uses, Wants

LEMMA WantsAll ==
    ASSUME NEW Trees, MachineSteps(Trees), VM!More
    PROVE  /\ Wants(0)
           /\ VM!Op \in {OP.POP, OP.SET_GLOBAL, OP.SET_LOCAL, OP.JUMP_NOT_TRUTHY, OP.RETURN_VALUE}
                => Wants(1)
           /\ VM!Op = OP.CALL => VM!Arg(1) \in Nat /\ Wants(VM!Arg(1)) /\ Wants(VM!Arg(1) + 1)
<1>1. \A code, p, op, d : Executing(code, p, op, d) =>
         /\ VM!Op = op /\ op = ByteAt(code, p) /\ Pops(code, p) \in Nat
         /\ VM!Arg(1) = Operands(code, p)[1]
  BY DEF Executing, Departs
<1>2. Wants(0)
  BY <1>1 DEF Wants
<1>3. ASSUME VM!Op \in {OP.POP, OP.SET_GLOBAL, OP.SET_LOCAL, OP.JUMP_NOT_TRUTHY, OP.RETURN_VALUE}
      PROVE  Wants(1)
  <2>1. VM!Op \notin Loads \cup {OP.JUMP, OP.RETURN} \cup BinaryOps
                \cup {OP.ARRAY, OP.HASH, OP.CALL, OP.CLOSURE}
    BY <1>3, Opcodes DEF Loads, BinaryOps
  <2>2. \A code, p, op, d : Executing(code, p, op, d) => Pops(code, p) = 1
    BY <1>1, <2>1, PopsOf
  <2> QED BY <2>2 DEF Wants
<1>4. ASSUME VM!Op = OP.CALL PROVE VM!Arg(1) \in Nat /\ Wants(VM!Arg(1)) /\ Wants(VM!Arg(1) + 1)
  <2>1. VM!Arg(1) \in Nat
    BY <1>4, ArgIs, OneOf
  <2>2. \A code, p, op, d : Executing(code, p, op, d) => Pops(code, p) = VM!Arg(1) + 1
    BY <1>1, <1>4, PopsOf
  <2>3. PICK n : n = VM!Arg(1)
    OBVIOUS
  <2>4. n \in Nat /\ n + 1 \in Nat /\ n <= n + 1
    BY <2>1, <2>3
  <2>5. \A code, p, op, d : Executing(code, p, op, d) => n <= Pops(code, p) /\ n + 1 <= Pops(code, p)
    BY <2>2, <2>3, <2>4
  <2>6. Wants(n) /\ Wants(n + 1)
    BY <2>4, <2>5 DEF Wants
  <2> QED BY <2>1, <2>3, <2>6
<1> QED BY <1>2, <1>3, <1>4

LEMMA NoRoom ==
    ASSUME NEW n \in Nat, NEW d \in Nat, n <= d, NEW s \in Nat, NEW b \in Nat, s - b >= d,
           NEW limit \in Nat, ~(n <= s /\ (n > 0 => s <= limit + 1))
    PROVE  s > limit
OBVIOUS

(* What an instruction wants is there, unless the stack is used up.        *)
LEMMA OperandsTaken ==
    ASSUME NEW Trees, MachineSteps(Trees), VM!More, NEW STATE n, Wants(n)
    PROVE  /\ ~VM!Holds(n) => MachineFails
           /\ VM!Holds(n) => \A i \in 1..n : VM!Operand(i) \in Taken
<1>1. PICK code, p, op, d : Executing(code, p, op, d)
  BY StepHas, StepBegins
<1>2. /\ n \in Nat /\ n <= Pops(code, p) /\ Pops(code, p) \in Nat /\ Pops(code, p) <= d /\ d \in Nat
      /\ sp - Base(VM!Frame) >= d /\ IsFrame(VM!Frame)
      /\ code = VM!Instructions /\ p = VM!Ip
  BY <1>1 DEF Wants, Executing, Departs
<1>3. sp \in Nat /\ STACK_SIZE \in Nat /\ Base(VM!Frame) \in Nat
  BY <1>2, StepHas, FrameNumbers
<1>4. n <= d
  BY <1>2
<1>5. ASSUME ~VM!Holds(n) PROVE MachineFails
  <2>1. ~(n <= sp /\ (n > 0 => sp <= STACK_SIZE + 1))
    BY <1>5, Zenon DEF VM!Holds
  <2>2. sp > STACK_SIZE
    BY <1>2, <1>3, <1>4, <2>1, NoRoom
  <2> QED BY <2>2 DEF MachineFails, StackUsedUp
<1>6. ASSUME VM!Holds(n), NEW i \in 1..n PROVE VM!Operand(i) \in Taken
  <2>1. VM!Holds(i)
    BY <1>2, <1>3, <1>6 DEF VM!Holds
  <2>2. i \in 1..Pops(code, p)
    BY <1>2
  <2>3. i \in {j \in 1..Pops(VM!Instructions, VM!Ip) : VM!Holds(j)}
    BY <1>2, <2>1, <2>2, Zenon
  <2> QED BY <2>3, Zenon DEF Taken
<1> QED BY <1>5, <1>6

LEMMA UnsetExplains ==
    ASSUME NEW STATE v, v \in Taken, Unset(v)
    PROVE  MachineFails
BY UnsetShows DEF MachineFails, UnsetIsRead

LEMMA FailsNow ==
    ASSUME NEW STATE how, VM!Stop(how), Fails
    PROVE  how = "undefined"
BY DEF VM!Stop, Fails

LEMMA YieldFails ==
    ASSUME NEW Trees, MachineSteps(Trees), VM!More, NEW STATE n, Wants(n), NEW STATE o,
           VM!Yield(n, o), Fails, VM!Holds(n) /\ o = VM!Undefined => MachineFails
    PROVE  MachineFails
<1>1. status = "running"
  BY DEF VM!More
<1>2. \/ (~VM!Holds(n) \/ o = VM!Undefined) /\ VM!Stop("undefined")
      \/ VM!Stop("error") \/ VM!Stop("exited")
      \/ UNCHANGED <<globals, status>>
  BY Zenon DEF VM!Yield
<1>3. ~VM!Holds(n) \/ o = VM!Undefined
  BY <1>1, <1>2 DEF Fails, VM!Stop
<1> QED BY <1>3, OperandsTaken

LEMMA OnObjectsFails ==
    ASSUME NEW STATE n, n \in Nat, NEW STATE o, VM!Holds(n), VM!OnObjects(n, o) = VM!Undefined,
           \A i \in 1..n : VM!Operand(i) \in Taken, o # VM!Undefined
    PROVE  MachineFails
<1> DEFINE xs == VM!LastOperands(n)
<1>1. xs = [i \in 1..n |-> VM!Operand(n + 1 - i)]
  BY Zenon DEF VM!LastOperands
<1>2. PICK i \in DOMAIN xs : ~VM!IsObject(xs[i])
  BY DEF VM!OnObjects, VM!Checked
<1> HIDE DEF xs
<1>3. i \in 1..n /\ xs[i] = VM!Operand(n + 1 - i)
  BY <1>1, <1>2
<1>4. n + 1 - i \in 1..n
  BY <1>3
<1>5. VM!Operand(n + 1 - i) \in Taken /\ ~VM!IsObject(VM!Operand(n + 1 - i))
  BY <1>2, <1>3, <1>4
<1> QED BY <1>5, UnsetShows DEF MachineFails, UnsetIsRead, Unset

(* Constants, literals and operators.                                      *)
LEMMA ConstantFails ==
    ASSUME NEW Trees, MachineSteps(Trees), VM!PushConstant \/ VM!PushLiteral, Fails
    PROVE  MachineFails
<1>1. CASE VM!PushConstant
  <2> DEFINE o == IF VM!Arg(1) < Len(pool) THEN pool[VM!Arg(1) + 1] ELSE VM!Undefined
  <2>1. VM!At({VM!OP.CONSTANT}) /\ VM!Yield(0, o)
    BY <1>1, Zenon DEF VM!PushConstant
  <2>2. VM!More /\ VM!Op = OP.CONSTANT
    BY <2>1, AtMeans, SameInstructions
  <2>3. o # VM!Undefined
    BY <2>2, ConstantThere, OutcomesDiffer DEF Scalars
  <2> HIDE DEF o
  <2> QED BY <2>1, <2>2, <2>3, WantsAll, YieldFails
<1>2. CASE VM!PushLiteral
  <2> DEFINE o == IF VM!Op = VM!OP.NULL THEN VM!Null ELSE VM!Boolean(VM!Op = VM!OP.TRUE)
  <2>1. VM!At({VM!OP.TRUE, VM!OP.FALSE, VM!OP.NULL}) /\ VM!Yield(0, o)
    BY <1>2, Zenon DEF VM!PushLiteral
  <2>2. VM!More
    BY <2>1, AtMeans
  <2>3. o # VM!Undefined
    BY OutcomesDiffer
  <2> HIDE DEF o
  <2> QED BY <2>1, <2>2, <2>3, WantsAll, YieldFails
<1> QED BY <1>1, <1>2

LEMMA BinaryFails ==
    ASSUME NEW Trees, MachineSteps(Trees), VM!BinaryOperation, Fails
    PROVE  MachineFails
<1> DEFINE l == VM!Operand(2)
           r == VM!Operand(1)
           o == VM!Binary(VM!Op, l, r)
<1>1. VM!At({VM!OP.ADD, VM!OP.SUB, VM!OP.MUL, VM!OP.DIV}) /\ VM!Yield(2, VM!OnObjects(2, o))
  BY Zenon DEF VM!BinaryOperation
<1>2. VM!More /\ VM!Op \in {OP.ADD, OP.SUB, OP.MUL, OP.DIV}
      /\ VM!Op \in {VM!OP.ADD, VM!OP.SUB, VM!OP.MUL, VM!OP.DIV}
  BY <1>1, AtMeans, SameInstructions
<1>3. Uses(2)
  BY <1>2, UsesAll DEF BinaryOps
<1>4. Wants(2)
  BY <1>2, <1>3, WantsWhatItUses
<1>5. o = VM!Undefined => VM!Op = OP.DIV /\ r.t = "INTEGER" /\ r.int = 0
  <2>1. VM!BinaryInt(VM!Op, l.int, r.int) = VM!Undefined => VM!Op = VM!OP.DIV /\ r.int = 0
    BY <1>2, OutcomesDiffer DEF VM!BinaryInt
  <2>2. o = VM!Undefined =>
          r.t = "INTEGER" /\ VM!BinaryInt(VM!Op, l.int, r.int) = VM!Undefined
    BY OutcomesDiffer DEF VM!Binary
  <2> QED BY <2>1, <2>2, SameInstructions
<1> HIDE DEF o
<1>6. ASSUME VM!Holds(2), VM!OnObjects(2, o) = VM!Undefined PROVE MachineFails
  <2>1. \A i \in 1..2 : VM!Operand(i) \in Taken
    BY <1>2, <1>4, <1>6, OperandsTaken
  <2>2. CASE o # VM!Undefined
    BY <1>6, <2>1, <2>2, OnObjectsFails
  <2>3. CASE o = VM!Undefined
    <3>1. VM!Op = OP.DIV /\ r.t = "INTEGER" /\ r.int = 0
      BY <1>5, <2>3
    <3>2. VM!Holds(1)
      BY <1>2, <1>6, StepHas DEF VM!Holds
    <3> QED BY <3>1, <3>2 DEF MachineFails, DividesByZero
  <2> QED BY <2>2, <2>3
<1> QED BY <1>1, <1>2, <1>4, <1>6, YieldFails

LEMMA ComparisonFails ==
    ASSUME NEW Trees, MachineSteps(Trees), VM!Comparison, Fails
    PROVE  MachineFails
<1> DEFINE outcomes == IF VM!OnObjects(2, VM!Null) = VM!Null
                       THEN VM!Comparisons(VM!Op, VM!Operand(2), VM!Operand(1)) ELSE {VM!Undefined}
<1>1. /\ VM!At({VM!OP.EQUAL, VM!OP.NOT_EQUAL, VM!OP.GREATER_THAN})
      /\ \E o \in outcomes : VM!Yield(2, o)
  BY Zenon DEF VM!Comparison
<1>2. VM!More /\ VM!Op \in {OP.EQUAL, OP.NOT_EQUAL, OP.GREATER_THAN}
      /\ VM!Op \in {VM!OP.EQUAL, VM!OP.NOT_EQUAL, VM!OP.GREATER_THAN}
  BY <1>1, AtMeans, SameInstructions
<1>3. Uses(2)
  BY <1>2, UsesAll DEF BinaryOps
<1>4. Wants(2)
  BY <1>2, <1>3, WantsWhatItUses
<1>5. ASSUME NEW o \in outcomes, o = VM!Undefined PROVE VM!OnObjects(2, VM!Null) # VM!Null
  <2>1. SUFFICES ASSUME o \in VM!Comparisons(VM!Op, VM!Operand(2), VM!Operand(1)) PROVE FALSE
    BY <1>5
  <2>2. \A x, y : VM!CompareInt(VM!Op, x, y) # VM!Undefined
    BY <1>2, OutcomesDiffer, Zenon DEF VM!CompareInt
  <2>3. o = VM!Error \/ (\E x, y : o = VM!CompareInt(VM!Op, x, y)) \/ \E b : o = VM!Boolean(b)
    BY <2>1 DEF VM!Comparisons
  <2> QED BY <1>5, <2>2, <2>3, OutcomesDiffer
<1> HIDE DEF outcomes
<1>6. ASSUME VM!Holds(2), VM!OnObjects(2, VM!Null) # VM!Null PROVE MachineFails
  <2>1. \A i \in 1..2 : VM!Operand(i) \in Taken
    BY <1>2, <1>4, <1>6, OperandsTaken
  <2>2. VM!OnObjects(2, VM!Null) = VM!Undefined
    BY <1>6 DEF VM!OnObjects, VM!Checked
  <2> QED BY <1>6, <2>1, <2>2, OutcomesDiffer, OnObjectsFails
<1>7. ASSUME NEW o \in outcomes, VM!Yield(2, o) PROVE MachineFails
  BY <1>2, <1>4, <1>5, <1>6, <1>7, YieldFails
<1> QED BY <1>1, <1>7

LEMMA UnaryFails ==
    ASSUME NEW Trees, MachineSteps(Trees), VM!Minus \/ VM!Bang, Fails
    PROVE  MachineFails
<1>1. ASSUME NEW STATE o, o # VM!Undefined, VM!More, VM!Op \in {OP.MINUS, OP.BANG},
             VM!Yield(1, VM!OnObjects(1, o))
      PROVE  MachineFails
  <2>1. Uses(1)
    BY <1>1, UsesAll
  <2>2. Wants(1)
    BY <1>1, <2>1, WantsWhatItUses
  <2>3. VM!Holds(1) /\ VM!OnObjects(1, o) = VM!Undefined => MachineFails
    BY <1>1, <2>2, OperandsTaken, OnObjectsFails
  <2> QED BY <1>1, <2>2, <2>3, YieldFails
<1>2. CASE VM!Minus
  <2> DEFINE o == IF VM!Operand(1).t = "INTEGER" THEN VM!Integer(-VM!Operand(1).int) ELSE VM!Error
  <2>1. VM!At({VM!OP.MINUS}) /\ VM!Yield(1, VM!OnObjects(1, o))
    BY <1>2, Zenon DEF VM!Minus
  <2>2. VM!More /\ VM!Op \in {OP.MINUS, OP.BANG}
    BY <2>1, AtMeans, SameInstructions
  <2>3. o # VM!Undefined
    BY OutcomesDiffer
  <2> HIDE DEF o
  <2> QED BY <1>1, <2>1, <2>2, <2>3
<1>3. CASE VM!Bang
  <2> DEFINE o == VM!Boolean(~VM!Truthy(VM!Operand(1)))
  <2>1. VM!At({VM!OP.BANG}) /\ VM!Yield(1, VM!OnObjects(1, o))
    BY <1>3, Zenon DEF VM!Bang
  <2>2. VM!More /\ VM!Op \in {OP.MINUS, OP.BANG}
    BY <2>1, AtMeans, SameInstructions
  <2>3. o # VM!Undefined
    BY OutcomesDiffer
  <2> HIDE DEF o
  <2> QED BY <1>1, <2>1, <2>2, <2>3
<1> QED BY <1>2, <1>3

(* Arrays and hashes.                                                      *)
LEMMA BuildFails ==
    ASSUME NEW Trees, MachineSteps(Trees), VM!BuildArray \/ VM!BuildHash, Fails
    PROVE  MachineFails
<1> DEFINE n == VM!Arg(1)
           pairs == LET flat == VM!LastOperands(n)
                    IN  [i \in 1..n \div 2 |-> <<flat[2*i - 1], flat[2*i]>>]
<1>1. /\ VM!At({VM!OP.ARRAY}) \/ VM!At({VM!OP.HASH})
      /\ VM!Yield(n, VM!ArrayOf(VM!LastOperands(n))) \/ VM!Yield(n, VM!HashOf(pairs))
  BY Zenon DEF VM!BuildArray, VM!BuildHash
<1>2. VM!More /\ VM!Op \in {OP.ARRAY, OP.HASH}
  BY <1>1, AtMeans, SameInstructions
<1>3. Uses(n)
  BY <1>2, UsesAll
<1>4. Wants(n)
  BY <1>2, <1>3, WantsWhatItUses
<1> HIDE DEF n, pairs
<1> QED BY <1>1, <1>2, <1>4, OutcomesDiffer, YieldFails

LEMMA IndexFails ==
    ASSUME NEW Trees, MachineSteps(Trees), VM!IndexOperation, Fails
    PROVE  MachineFails
<1> DEFINE left == VM!Operand(2)
           index == VM!Operand(1)
           o == IF VM!Holds(2) THEN VM!Item(left, index) ELSE VM!Undefined
<1>1. VM!At({VM!OP.INDEX}) /\ VM!Yield(2, o)
  BY Zenon DEF VM!IndexOperation
<1>2. VM!More /\ VM!Op = OP.INDEX
  BY <1>1, AtMeans, SameInstructions
<1>3. Uses(2)
  BY <1>2, UsesAll DEF BinaryOps
<1>4. Wants(2)
  BY <1>2, <1>3, WantsWhatItUses
<1>5. ASSUME VM!Holds(2), o = VM!Undefined PROVE MachineFails
  <2>1. left \in Taken /\ index \in Taken
    <3>1. 1 \in 1..2 /\ 2 \in 1..2
      OBVIOUS
    <3> QED BY <1>2, <1>4, <1>5, <3>1, OperandsTaken
  <2>2. Fine(left)
    BY <1>2, <1>5, StepHas, OperandFine
  <2>3. VM!Item(left, index) = VM!Undefined
    BY <1>5
  <2> HIDE DEF left, index
  <2>4. \/ Unset(left) \/ Unset(index)
        \/ left.t = "HASH" /\ \E i \in DOMAIN left.pairs : ~Hashable(left.pairs[i][1])
    BY <2>2, <2>3, ItemUndefined DEF Fine
  <2>5. CASE left.t = "HASH" /\ \E i \in DOMAIN left.pairs : ~Hashable(left.pairs[i][1])
    BY <1>2, <2>1, <2>5 DEF MachineFails, KeyWithoutHash
  <2> QED BY <2>1, <2>4, <2>5, UnsetExplains
<1> HIDE DEF o
<1> QED BY <1>1, <1>2, <1>4, <1>5, YieldFails

(* Pops, jumps and variables.                                              *)
LEMMA PopFails ==
    ASSUME NEW Trees, MachineSteps(Trees), VM!Pop \/ VM!Jump \/ VM!JumpNotTruthy, Fails
    PROVE  MachineFails
<1>1. CASE VM!Pop
  <2>1. /\ VM!At({VM!OP.POP})
        /\ (~VM!Holds(1) \/ UNCHANGED status)
    BY <1>1, Zenon DEF VM!Pop
  <2>2. VM!More /\ VM!Op = OP.POP /\ status = "running"
    BY <2>1, AtMeans, SameInstructions
  <2>3. ~VM!Holds(1)
    BY <2>1, <2>2 DEF Fails
  <2> QED BY <2>2, <2>3, WantsAll, OperandsTaken
<1>2. CASE VM!Jump
  <2>1. VM!At({VM!OP.JUMP}) /\ UNCHANGED status
    BY <1>2, Zenon DEF VM!Jump
  <2> QED BY <2>1, AtMeans DEF Fails
<1>3. CASE VM!JumpNotTruthy
  <2>1. /\ VM!At({VM!OP.JUMP_NOT_TRUTHY})
        /\ (VM!OnObjects(1, VM!Null) # VM!Null \/ UNCHANGED status)
    BY <1>3, Zenon DEF VM!JumpNotTruthy
  <2>2. VM!More /\ VM!Op = OP.JUMP_NOT_TRUTHY /\ status = "running"
    BY <2>1, AtMeans, SameInstructions
  <2>3. Wants(1)
    BY <2>2, WantsAll
  <2>4. VM!OnObjects(1, VM!Null) = VM!Undefined
    BY <2>1, <2>2 DEF Fails, VM!OnObjects, VM!Checked
  <2>5. CASE VM!Holds(1)
    BY <2>2, <2>3, <2>4, <2>5, OperandsTaken, OnObjectsFails, OutcomesDiffer
  <2> QED BY <2>2, <2>3, <2>5, OperandsTaken
<1> QED BY <1>1, <1>2, <1>3

LEMMA GlobalFails ==
    ASSUME NEW Trees, MachineSteps(Trees), GlobalsReach, VM!GetGlobal \/ VM!SetGlobal, Fails
    PROVE  MachineFails
<1>1. ~VM!GlobalsKept => MachineFails
  BY DEF MachineFails, StackUsedUp
<1>2. CASE VM!GetGlobal
  <2> DEFINE o == IF VM!GlobalsKept THEN globals[VM!Arg(1)] ELSE VM!Undefined
  <2>1. VM!At({VM!OP.GET_GLOBAL}) /\ VM!Yield(0, o)
    BY <1>2, Zenon DEF VM!GetGlobal
  <2>2. VM!More /\ VM!Op = OP.GET_GLOBAL
    BY <2>1, AtMeans, SameInstructions
  <2>3. Fine(globals[VM!Arg(1)])
    BY <2>2, GlobalThere
  <2>4. o = VM!Undefined => ~VM!GlobalsKept
    BY <2>3, ProperDefined DEF Fine
  <2> HIDE DEF o
  <2> QED BY <1>1, <2>1, <2>2, <2>4, WantsAll, YieldFails
<1>3. CASE VM!SetGlobal
  <2>1. /\ VM!At({VM!OP.SET_GLOBAL})
        /\ (~(VM!Holds(1) /\ VM!GlobalsKept) \/ UNCHANGED status)
    BY <1>3, Zenon DEF VM!SetGlobal
  <2>2. VM!More /\ VM!Op = OP.SET_GLOBAL /\ status = "running"
    BY <2>1, AtMeans, SameInstructions
  <2>3. ~VM!Holds(1) \/ ~VM!GlobalsKept
    BY <2>1, <2>2 DEF Fails
  <2> QED BY <1>1, <2>2, <2>3, WantsAll, OperandsTaken
<1> QED BY <1>2, <1>3

LEMMA AboveTheStack ==
    ASSUME NEW b \in Nat, NEW x \in Nat, NEW locals \in Nat, x < locals, NEW s \in Nat,
           b + locals <= s, NEW limit \in Nat, b + x \notin 0..limit
    PROVE  s > limit
OBVIOUS

(* A local is one of those its function has, on a stack that is not used   *)
(* up.                                                                     *)
LEMMA LocalThere ==
    ASSUME NEW Trees, MachineSteps(Trees), VM!More, VM!Op \in {OP.GET_LOCAL, OP.SET_LOCAL},
           VM!Local(VM!Arg(1)) \notin VM!Slots
    PROVE  MachineFails
<1> DEFINE c == VM!Frame.closure
           x == VM!Arg(1)
<1>1. PICK code, p, op, d : Executing(code, p, op, d)
  BY StepHas, StepBegins
<1>2. /\ op \in {OP.GET_LOCAL, OP.SET_LOCAL} /\ code \in Streams /\ p \in Starts(code) /\ p # Len(code)
      /\ op = ByteAt(code, p) /\ x = Operands(code, p)[1] /\ (Len(frames) = 1 => code = MainCode)
      /\ VM!Frame = frames[Len(frames)] /\ IsFrame(VM!Frame)
      /\ d \in Nat /\ sp - Base(VM!Frame) >= d
  BY <1>1 DEF Executing
<1>3. code = c.fn.code
  BY <1>1, Zenon DEF Executing, VM!Instructions
<1>4. code # MainCode /\ x \in Used(code, op)
  BY <1>2, StepHas, InstructionReady
<1>5. Len(frames) \in 2..Len(frames) /\ Len(frames) \in 1..Len(frames)
  BY <1>2, <1>4, StepHas, FromTwo
<1>6. Fine(c) /\ c.t = "CLOSURE"
  BY <1>2, <1>5, StepHas DEF CallsFine
<1>7. x \in Nat
  BY ArgIs, OneOf
<1>8. Base(VM!Frame) \in Nat /\ VM!Frame.bp \in Nat /\ Base(VM!Frame) = VM!Frame.bp + c.fn.locals
  BY <1>2, FrameNumbers, Zenon DEF Base
<1>9. VM!Local(x) = VM!Frame.bp + x
  BY Zenon DEF VM!Local
<1> HIDE DEF c, x
<1>10. c.fn \in Functions
  BY <1>6, ProperParts DEF Fine
<1>11. c.fn.locals \in Nat /\ x < c.fn.locals
  <2>1. c.fn.locals \in Nat
    BY <1>10, StepHas, FunctionReady
  <2>2. x \in Used(c.fn.code, OP.GET_LOCAL) \cup Used(c.fn.code, OP.SET_LOCAL)
    BY <1>2, <1>3, <1>4
  <2> QED BY <1>10, <2>1, <2>2, StepHas, LocalsExist
<1>12. sp \in Nat /\ STACK_SIZE \in Nat /\ VM!Frame.bp + c.fn.locals <= sp
  <2>1. sp \in Nat /\ STACK_SIZE \in Nat
    BY StepHas
  <2>2. Base(VM!Frame) <= sp
    BY <1>2, <1>8, <2>1
  <2> QED BY <1>8, <2>1, <2>2
<1>13. VM!Frame.bp + x \notin 0..STACK_SIZE
  BY <1>9, Zenon DEF VM!Slots, x
<1>14. sp > STACK_SIZE
  BY <1>7, <1>8, <1>11, <1>12, <1>13, AboveTheStack
<1> QED BY <1>14 DEF MachineFails, StackUsedUp

LEMMA LocalFails ==
    ASSUME NEW Trees, MachineSteps(Trees), VM!GetLocal \/ VM!SetLocal, Fails
    PROVE  MachineFails
<1>1. CASE VM!GetLocal
  <2> DEFINE i == VM!Local(VM!Arg(1))
             o == IF i \in VM!Slots THEN stack[i] ELSE VM!Undefined
  <2>1. VM!At({VM!OP.GET_LOCAL}) /\ VM!Yield(0, o)
    BY <1>1, Zenon DEF VM!GetLocal
  <2>2. VM!More /\ VM!Op = OP.GET_LOCAL
    BY <2>1, AtMeans, SameInstructions
  <2>3. \A j \in 0..STACK_SIZE : Fine(stack[j])
    BY <2>2, StepHas DEF StackFine
  <2>4. o = VM!Undefined => i \notin VM!Slots
    BY <2>3, ProperDefined DEF Fine, VM!Slots
  <2>5. i \notin VM!Slots => MachineFails
    BY <2>2, LocalThere
  <2> HIDE DEF o
  <2> QED BY <2>1, <2>2, <2>4, <2>5, WantsAll, YieldFails
<1>2. CASE VM!SetLocal
  <2>1. /\ VM!At({VM!OP.SET_LOCAL})
        /\ (~(VM!Holds(1) /\ VM!Local(VM!Arg(1)) \in VM!Slots) \/ UNCHANGED status)
    BY <1>2, Zenon DEF VM!SetLocal
  <2>2. VM!More /\ VM!Op = OP.SET_LOCAL /\ status = "running"
    BY <2>1, AtMeans, SameInstructions
  <2>3. ~VM!Holds(1) \/ VM!Local(VM!Arg(1)) \notin VM!Slots
    BY <2>1, <2>2 DEF Fails
  <2> QED BY <2>2, <2>3, LocalThere, WantsAll, OperandsTaken
<1> QED BY <1>1, <1>2

(* Closures, builtins, calls and returns.                                  *)
LEMMA ClosureFails ==
    ASSUME NEW Trees, MachineSteps(Trees), VM!PushClosure \/ VM!CurrentClosure \/ VM!GetFree, Fails
    PROVE  MachineFails
<1>1. CASE VM!PushClosure
  <2> DEFINE n == VM!Arg(2)
             x == VM!Arg(1)
             o == IF x >= Len(pool) THEN VM!Undefined
                  ELSE IF pool[x + 1].t # "COMPILED_FUNCTION" THEN VM!Error
                  ELSE VM!Captured(pool[x + 1], n)
  <2>1. VM!At({VM!OP.CLOSURE}) /\ VM!Yield(n, o)
    BY <1>1, Zenon DEF VM!PushClosure
  <2>2. VM!More /\ VM!Op = OP.CLOSURE
    BY <2>1, AtMeans, SameInstructions
  <2>3. Uses(n)
    BY <2>2, UsesAll
  <2>4. Wants(n)
    BY <2>2, <2>3, WantsWhatItUses
  <2>5. x < Len(pool) /\ x \in Nat /\ Len(pool) \in Nat
    <3>1. PICK code, p, op, d : Executing(code, p, op, d)
      BY <2>2, StepHas, StepBegins
    <3>2. /\ op = OP.CLOSURE /\ code \in Streams /\ p \in Starts(code) /\ p # Len(code)
          /\ op = ByteAt(code, p) /\ x = Operands(code, p)[1]
      BY <2>2, <3>1 DEF Executing
    <3> QED BY <2>2, <3>2, StepHas, ArgIs, OneOf, InstructionReady
  <2>6. VM!Captured(pool[x + 1], n) # VM!Undefined
    BY OutcomesDiffer, Zenon DEF VM!Captured
  <2>7. o # VM!Undefined
    <3>1. ~(x >= Len(pool))
      BY <2>5
    <3> QED BY <2>6, <3>1, OutcomesDiffer
  <2> HIDE DEF o, n
  <2> QED BY <2>1, <2>2, <2>4, <2>7, YieldFails
<1>2. CASE VM!CurrentClosure
  <2>1. VM!At({VM!OP.CURRENT_CLOSURE}) /\ VM!Yield(0, VM!Frame.closure)
    BY <1>2, Zenon DEF VM!CurrentClosure
  <2>2. VM!More /\ VM!Op = OP.CURRENT_CLOSURE
    BY <2>1, AtMeans, SameInstructions
  <2>3. PICK code, p, op, d : Executing(code, p, op, d)
    BY <2>2, StepHas, StepBegins
  <2>4. /\ op = OP.CURRENT_CLOSURE /\ code \in Streams /\ p \in Starts(code) /\ p # Len(code)
        /\ op = ByteAt(code, p) /\ (Len(frames) = 1 => code = MainCode)
        /\ VM!Frame = frames[Len(frames)]
    BY <2>2, <2>3 DEF Executing
  <2>5. code # MainCode
    BY <2>2, <2>4, StepHas, InstructionReady
  <2>6. Fine(VM!Frame.closure)
    BY <2>2, <2>4, <2>5, StepHas, FramesHave
  <2>7. VM!Frame.closure # VM!Undefined
    BY <2>6, ProperDefined DEF Fine
  <2> QED BY <2>1, <2>2, <2>7, WantsAll, YieldFails
<1>3. CASE VM!GetFree
  <2> DEFINE c == VM!Frame.closure
             o == IF VM!Arg(1) < Len(c.free) THEN c.free[VM!Arg(1) + 1] ELSE VM!Undefined
  <2>1. VM!At({VM!OP.GET_FREE}) /\ VM!Yield(0, o)
    BY <1>3, Zenon DEF VM!GetFree
  <2>2. VM!More /\ VM!Op = OP.GET_FREE
    BY <2>1, AtMeans, SameInstructions
  <2>3. o # VM!Undefined
    BY <2>2, FreeThere, ProperDefined DEF Fine
  <2> HIDE DEF o
  <2> QED BY <2>1, <2>2, <2>3, WantsAll, YieldFails
<1> QED BY <1>1, <1>2, <1>3

LEMMA BuiltinFails ==
    ASSUME NEW Trees, MachineSteps(Trees), VM!GetBuiltin \/ VM!CallBuiltinFn, Fails
    PROVE  MachineFails
<1>1. CASE VM!GetBuiltin
  <2> DEFINE o == IF VM!Arg(1) \in 0..5 THEN VM!Builtin(VM!Arg(1)) ELSE VM!Exit
  <2>1. VM!At({VM!OP.GET_BUILTIN}) /\ VM!Yield(0, o)
    BY <1>1, Zenon DEF VM!GetBuiltin
  <2>2. VM!More
    BY <2>1, AtMeans
  <2>3. o # VM!Undefined
    BY OutcomesDiffer
  <2> HIDE DEF o
  <2> QED BY <2>1, <2>2, <2>3, WantsAll, YieldFails
<1>2. CASE VM!CallBuiltinFn
  <2> DEFINE n == VM!Arg(1)
             xs == VM!LastOperands(n)
             o == VM!CallBuiltin(VM!Callee.index, xs)
  <2>1. VM!Calling("BUILT_IN") /\ VM!Yield(0, o)
    BY <1>2, Zenon DEF VM!CallBuiltinFn
  <2>2. VM!At({VM!OP.CALL}) /\ VM!Holds(n + 1)
    BY <2>1, Zenon DEF VM!Calling
  <2>3. VM!More /\ VM!Op = OP.CALL
    BY <2>2, AtMeans, SameInstructions
  <2>4. n \in Nat /\ Wants(n) /\ Wants(0)
    BY <2>3, WantsAll
  <2> HIDE DEF n
  <2>5. VM!Holds(n)
    BY <2>2, <2>3, <2>4, StepHas DEF VM!Holds
  <2>6. \A i \in 1..n : VM!Operand(i) \in Taken
    BY <2>3, <2>4, <2>5, OperandsTaken
  <2>7. IsSequence(xs) /\ Len(xs) = n /\ \A i \in 1..n : Fine(xs[i])
    BY <2>3, <2>4, <2>5, StepHas, OperandsFine
  <2>8. \A i \in 1..n : n + 1 - i \in 1..n /\ xs[i] = VM!Operand(n + 1 - i)
    BY <2>4 DEF VM!LastOperands
  <2> HIDE DEF xs
  <2>9. ASSUME o = VM!Undefined PROVE MachineFails
    <3>1. PICK i \in 1..n : Unset(xs[i]) \/ (VM!Callee.index = 4 /\ Textless(xs[i]))
      BY <2>7, <2>9, BuiltinUndefined DEF Fine
    <3>2. xs[i] \in Taken
      BY <2>6, <2>8
    <3>3. CASE Unset(xs[i])
      BY <3>2, <3>3, UnsetExplains
    <3>4. CASE VM!Callee.index = 4 /\ Textless(xs[i])
      <4>1. IsPuts(VM!Callee)
        BY <2>1, <3>4, Zenon DEF VM!Calling, IsPuts
      <4>2. \E j \in 1..n : Textless(VM!Operand(j))
        BY <2>8, <3>4
      <4> QED BY <2>2, <2>3, <4>1, <4>2, Zenon DEF n, MachineFails, TextlessIsPut
    <3> QED BY <3>1, <3>3, <3>4
  <2> HIDE DEF o
  <2> QED BY <2>1, <2>3, <2>4, <2>9, YieldFails
<1> QED BY <1>1, <1>2

LEMMA CallFails ==
    ASSUME NEW Trees, MachineSteps(Trees), VM!CallClosure \/ VM!CallOther, Fails
    PROVE  MachineFails
<1> DEFINE n == VM!Arg(1)
<1>1. CASE VM!CallClosure
  <2>1. /\ VM!Calling("CLOSURE")
        /\ VM!Stop("error") \/ Len(frames) = MAX_FRAMES \/ UNCHANGED status
    BY <1>1, Zenon DEF VM!CallClosure
  <2>2. VM!At({VM!OP.CALL})
    BY <2>1, Zenon DEF VM!Calling
  <2>3. VM!Op = OP.CALL /\ status = "running"
    BY <2>2, AtMeans, SameInstructions
  <2>4. Len(frames) = MAX_FRAMES
    BY <2>1, <2>3 DEF Fails, VM!Stop
  <2> QED BY <2>3, <2>4 DEF MachineFails, FramesUsedUp
<1>2. CASE VM!CallOther
  <2>1. /\ VM!At({VM!OP.CALL})
        /\ \/ VM!Stop("error")
           \/ ~VM!Holds(n + 1) \/ VM!Callee.t = "garbage"
    BY <1>2, Zenon DEF VM!CallOther
  <2>2. VM!More /\ VM!Op = OP.CALL
    BY <2>1, AtMeans, SameInstructions
  <2>3. n \in Nat /\ Wants(n + 1)
    BY <2>2, WantsAll
  <2>4. ~VM!Holds(n + 1) \/ VM!Callee.t = "garbage"
    BY <2>1 DEF Fails, VM!Stop
  <2>5. VM!Callee = VM!Operand(n + 1)
    BY DEF VM!Callee
  <2> HIDE DEF n
  <2>6. ASSUME VM!Holds(n + 1), VM!Callee.t = "garbage" PROVE MachineFails
    <3>1. n + 1 \in 1..n + 1
      BY <2>3
    <3>2. VM!Callee \in Taken
      BY <2>2, <2>3, <2>5, <2>6, <3>1, OperandsTaken
    <3>3. Unset(VM!Callee)
      BY <2>6 DEF Unset, VM!IsObject
    <3> QED BY <3>2, <3>3, UnsetExplains
  <2> QED BY <2>2, <2>3, <2>4, <2>6, OperandsTaken
<1> QED BY <1>1, <1>2

LEMMA ReturnFails ==
    ASSUME NEW Trees, MachineSteps(Trees), VM!ReturnValue \/ VM!Return, Fails
    PROVE  MachineFails
<1>1. ASSUME NEW STATE v, VM!ReturnFrom(v), VM!More, VM!Op \in Ends PROVE MachineFails
  <2>1. Len(frames) = 1 \/ UNCHANGED status
    BY <1>1, Zenon DEF VM!ReturnFrom
  <2>2. Len(frames) = 1
    BY <1>1, <2>1 DEF Fails, VM!More
  <2> QED BY <1>1, <2>2 DEF MachineFails, MainReturns
<1>2. CASE VM!ReturnValue
  <2>1. /\ VM!At({VM!OP.RETURN_VALUE})
        /\ VM!ReturnFrom(VM!Operand(1)) \/ ~VM!Holds(1)
    BY <1>2, Zenon DEF VM!ReturnValue
  <2>2. VM!More /\ VM!Op = OP.RETURN_VALUE /\ VM!Op \in Ends
    BY <2>1, AtMeans, SameInstructions DEF Ends
  <2> QED BY <1>1, <2>1, <2>2, WantsAll, OperandsTaken
<1>3. CASE VM!Return
  <2>1. VM!At({VM!OP.RETURN}) /\ VM!ReturnFrom(VM!Null)
    BY <1>3, Zenon DEF VM!Return
  <2>2. VM!More /\ VM!Op \in Ends
    BY <2>1, AtMeans, SameInstructions DEF Ends
  <2> QED BY <1>1, <2>1, <2>2
<1> QED BY <1>2, <1>3

(* The machine fails where one of its causes is at hand.                   *)
LEMMA MachineExplained ==
    ASSUME NEW Trees, MachineSessionInv(Trees), GlobalsReach, MachineStep, status = "running", Fails
    PROVE  MachineFails
<1>1. VM!NextVm /\ UNCHANGED <<compilerVars, line>>
  BY MachineKeepsPool DEF MachineStep, compilerVars
<1>2. MachineSteps(Trees)
  BY <1>1 DEF MachineSessionInv, OperandSessionInv, OperandInv, CodeSessionInv, MachineSteps
<1>3. ~VM!Halt
  BY DEF VM!Halt, VM!Stop, Fails
<1> QED BY <1>1, <1>2, <1>3, ConstantFails, BinaryFails, ComparisonFails, UnaryFails, BuildFails,
           IndexFails, PopFails, GlobalFails, LocalFails, ClosureFails, BuiltinFails, CallFails,
           ReturnFails
        DEF VM!NextVm

(* The machine works only while it is running.                             *)
LEMMA MachineRuns ==
    ASSUME VM!NextVm
    PROVE  status = "running"
BY Zenon DEF VM!NextVm, VM!More, VM!At, VM!Calling, VM!PushConstant, VM!PushLiteral,
       VM!BinaryOperation, VM!Comparison, VM!Minus, VM!Bang, VM!BuildArray, VM!BuildHash,
       VM!IndexOperation, VM!Pop, VM!Jump, VM!JumpNotTruthy, VM!GetGlobal, VM!SetGlobal,
       VM!GetLocal, VM!SetLocal, VM!PushClosure, VM!CurrentClosure, VM!GetFree, VM!GetBuiltin,
       VM!CallClosure, VM!CallBuiltinFn, VM!CallOther, VM!ReturnValue, VM!Return, VM!Halt

(* Besides, compiling overruns an array, and the end prints a value.       *)
LEMMA StepExplained ==
    ASSUME NEW Trees, MachineSessionInv(Trees), GlobalsReach, Next, status # "undefined", Fails
    PROVE  \/ status = "compiling" /\ ArrayIsFull
           \/ status = "running" /\ MachineFails
           \/ status = "done" /\ ~Printable(VM!LastPopped)
<1>1. ~(ReadLine \/ CompileStep \/ CompilationFailed \/ Execute)
  BY DEF Fails, ReadLine, CompileStep, CompilationFailed, Execute, VM!Load
<1>2. CASE ArrayOverrun
  BY <1>2 DEF ArrayOverrun, Overruns, ArrayIsFull
<1>3. CASE Report
  <2>1. status \in {"done", "error"} /\ ~Shown
    BY <1>3 DEF Report, Fails
  <2>2. status # "error" /\ ~Printable(VM!LastPopped)
    BY <2>1, Zenon DEF Shown
  <2> QED BY <2>1, <2>2
<1>4. CASE MachineStep
  <2>1. status = "running"
    BY <1>4, MachineRuns DEF MachineStep
  <2> QED BY <1>4, <2>1, MachineExplained
<1> QED BY <1>1, <1>2, <1>3, <1>4 DEF Next

(* Nothing undefined happens to a program but for the causes that are      *)
(* listed.  Compiling, an array of the compiler is full.  Running, the     *)
(* stack or the frames are used up, the main program returns, a division   *)
(* is by zero, a hash is looked up that has a key without a hash, a value  *)
(* is read that was never set, or one is put of which no text can be made. *)
(* At the end, the value that is printed is of these last two.  In         *)
(* particular no operand, constant, local or captured value is ever        *)
(* missing below the limits.                                               *)
THEOREM UndefinedHasCause ==
    ASSUME NEW CONSTANT Trees, HoldsParts(Trees), Balanced(Trees),
           Sessions \subseteq Seq(ProgramsOf(Trees))
    PROVE  Spec /\ []BuffersShort /\ []GlobalsReach => UndefinedExplained
<1>1. Init => MachineSessionInv(Trees)
  BY MachineSessionBegins
<1>2. /\ MachineSessionInv(Trees) /\ [Next]_monkeyVars
      /\ BuffersShort /\ BuffersShort' /\ GlobalsReach
      => MachineSessionInv(Trees)'
  BY MachineSessionStep
<1>3. MachineSessionInv(Trees) /\ [Next]_monkeyVars /\ GlobalsReach
      => [status # "undefined" /\ status' = "undefined" =>
            \/ status = "compiling" /\ ArrayIsFull
            \/ status = "running" /\ MachineFails
            \/ status = "done" /\ ~Printable(VM!LastPopped)]_monkeyVars
  BY StepExplained DEF Fails
<1> QED BY <1>1, <1>2, <1>3, PTL DEF Spec, UndefinedExplained
=============================================================================
