--------------------------- MODULE CompilerProofs ---------------------------
(***************************************************************************)
(* Proofs about the compiler, whatever programs are compiled, alone or one *)
(* after the other as lines of a session.  First, its stacks stay in step: *)
(* every function literal that is entered is left on its own table and     *)
(* buffer, and what was compiled before is not touched.  Then, what it     *)
(* emits can be run, as long as no buffer reaches the 255 bytes that its   *)
(* length can count: every open scope has a certificate for its code, and  *)
(* every active call knows how many operands lie on the stack where it     *)
(* goes on.                                                                *)
(***************************************************************************)
EXTENDS Monkey, Foundations

-----------------------------------------------------------------------------
(* Tables only grow: no operation takes a slot back *)

Counted(ts) ==
    /\ IsSequence(ts) /\ Len(ts) > 0
    /\ \A k \in 1..Len(ts) : ts[k].num \in Nat

Grown(ts, new) ==
    /\ Counted(new) /\ Len(new) = Len(ts)
    /\ \A k \in 1..Len(ts) : ts[k].num <= new[k].num

LEMMA GrownItself ==
    ASSUME NEW ts, Counted(ts)
    PROVE  Grown(ts, ts)
BY SequenceForm DEF Grown, Counted

LEMMA GrownTwice ==
    ASSUME NEW ts, Counted(ts), NEW mid, Grown(ts, mid), NEW new, Grown(mid, new)
    PROVE  Grown(ts, new)
<1>1. ASSUME NEW k \in 1..Len(ts) PROVE ts[k].num <= new[k].num
  <2>1. ts[k].num <= mid[k].num /\ k \in 1..Len(mid) /\ k \in 1..Len(new)
    BY DEF Grown
  <2>2. mid[k].num <= new[k].num
    BY <2>1 DEF Grown
  <2>3. ts[k].num \in Nat /\ mid[k].num \in Nat /\ new[k].num \in Nat
    BY <2>1 DEF Grown, Counted
  <2> QED BY <2>1, <2>2, <2>3
<1> QED BY <1>1 DEF Grown

LEMMA DefineGrows ==
    ASSUME NEW ts, Counted(ts), NEW name
    PROVE  LET new == Symbols!Define(ts, name)
           IN  Grown(ts, new) /\ new[Len(ts)].num = ts[Len(ts)].num + 1
<1> DEFINE n == Len(ts)
           defined == Symbols!DefineSymbol(ts[n], name, Symbols!DefinitionScope(ts))
           new == [ts EXCEPT ![n] = defined]
<1>1. n \in 1..Len(ts) /\ DOMAIN ts = 1..Len(ts)
  BY SequenceForm DEF Counted
<1>2. defined.num = ts[n].num + 1
  BY DEF Symbols!DefineSymbol
<1>3. Symbols!Define(ts, name) = new
  BY Zenon DEF Symbols!Define
<1> HIDE DEF defined
<1>4. /\ IsSequence(new) /\ Len(new) = n
      /\ \A k \in 1..Len(ts) : new[k] = IF k = n THEN defined ELSE ts[k]
  BY <1>1, SequenceExcept DEF Counted
<1> HIDE DEF new
<1>5. ASSUME NEW k \in 1..Len(ts) PROVE new[k].num \in Nat /\ ts[k].num <= new[k].num
  <2>1. ts[k].num \in Nat
    BY DEF Counted
  <2>2. CASE k = n
    <3>1. new[k].num = ts[k].num + 1
      BY <1>2, <1>4, <2>2
    <3> QED BY <2>1, <3>1
  <2>3. CASE k # n
    <3>1. new[k].num = ts[k].num
      BY <1>4, <2>3
    <3> QED BY <2>1, <3>1
  <2> QED BY <2>2, <2>3
<1>6. Counted(new)
  BY <1>4, <1>5 DEF Counted
<1>7. Grown(ts, new)
  BY <1>4, <1>5, <1>6 DEF Grown
<1>8. new[n].num = ts[n].num + 1
  BY <1>1, <1>2, <1>4
<1> QED BY <1>3, <1>7, <1>8

(* The tables after each of the parameters, which exist for any number of  *)
(* parameters.                                                             *)
Steps(f, ts, names, n) ==
    [i \in 0..n |-> IF i = 0 THEN ts ELSE Symbols!Define(f[i-1], names[i])]

AreSteps(f, ts, names, n) == f = Steps(f, ts, names, n)

LEMMA StepsExist ==
    ASSUME NEW ts, NEW names, NEW n \in Nat
    PROVE  \E f : f = Steps(f, ts, names, n)
<1> DEFINE Missing == {m \in Nat : ~\E f : f = Steps(f, ts, names, m)}
<1>1. SUFFICES ASSUME Missing # {} PROVE FALSE
  OBVIOUS
<1>2. PICK m \in Missing : \A k \in Missing : m <= k
  <2>1. Missing \subseteq Nat
    OBVIOUS
  <2> QED BY <1>1, <2>1, LeastNumber, Zenon
<1>3. CASE m = 0
  <2> DEFINE f == [i \in 0..0 |-> ts]
  <2>1. f = Steps(f, ts, names, 0)
    BY DEF Steps
  <2> QED BY <1>2, <1>3, <2>1
<1>4. CASE m # 0
  <2>1. m \in Nat /\ m - 1 \in Nat /\ m - 1 \notin Missing
    BY <1>2, <1>4
  <2>2. PICK g : g = Steps(g, ts, names, m - 1)
    BY <2>1
  <2> DEFINE f == [i \in 0..m |-> IF i = m THEN Symbols!Define(g[m-1], names[m]) ELSE g[i]]
             next == Steps(f, ts, names, m)
  <2>3. ASSUME NEW i \in 0..m PROVE f[i] = IF i = 0 THEN ts ELSE Symbols!Define(f[i-1], names[i])
    <3>1. CASE i = m
      <4>1. f[m-1] = g[m-1]
        BY <2>1
      <4> QED BY <1>4, <2>1, <3>1, <4>1
    <3>2. CASE i # m
      <4>1. i \in 0..m-1 /\ f[i] = g[i] /\ (i # 0 => f[i-1] = g[i-1])
        BY <2>1, <3>2
      <4>2. g[i] = IF i = 0 THEN ts ELSE Symbols!Define(g[i-1], names[i])
        BY <2>2, <4>1 DEF Steps
      <4> QED BY <4>1, <4>2
    <3> QED BY <3>1, <3>2
  <2>4. f = Steps(f, ts, names, m)
    BY <2>3 DEF Steps
  <2> QED BY <1>2, <2>4
<1> QED BY <1>3, <1>4

GrownBy(ts, new, n) == Grown(ts, new) /\ new[Len(ts)].num = ts[Len(ts)].num + n

LEMMA StepsGrow ==
    ASSUME NEW ts, Counted(ts), NEW names, NEW n \in Nat, NEW f, AreSteps(f, ts, names, n)
    PROVE  \A i \in 0..n : GrownBy(ts, f[i], i)
<1> DEFINE Wrong == {i \in 0..n : ~GrownBy(ts, f[i], i)}
<1>1. SUFFICES ASSUME Wrong # {} PROVE FALSE
  OBVIOUS
<1>2. PICK m \in Wrong : \A k \in Wrong : m <= k
  <2>1. Wrong \subseteq Nat
    OBVIOUS
  <2> QED BY <1>1, <2>1, LeastNumber, Zenon
<1>3. Len(ts) \in 1..Len(ts) /\ ts[Len(ts)].num \in Nat
  BY SequenceForm DEF Counted
<1>4. CASE m = 0
  <2>1. f[0] = ts
    BY DEF AreSteps, Steps
  <2> QED BY <1>2, <1>3, <1>4, <2>1, GrownItself DEF GrownBy
<1>5. CASE m # 0
  <2>1. m \in 1..n /\ m - 1 \in 0..n /\ m - 1 \notin Wrong
    BY <1>2, <1>5
  <2>2. f[m] = Symbols!Define(f[m-1], names[m])
    BY <2>1 DEF AreSteps, Steps
  <2>3. Grown(ts, f[m-1]) /\ f[m-1][Len(ts)].num = ts[Len(ts)].num + (m - 1)
    BY <2>1 DEF GrownBy
  <2>4. Counted(f[m-1]) /\ Len(f[m-1]) = Len(ts)
    BY <2>3 DEF Grown
  <2>5. Grown(f[m-1], f[m]) /\ f[m][Len(ts)].num = f[m-1][Len(ts)].num + 1
    BY <2>2, <2>4, DefineGrows
  <2>6. Grown(ts, f[m])
    BY <2>3, <2>5, GrownTwice
  <2>7. f[m][Len(ts)].num = ts[Len(ts)].num + m
    BY <1>3, <2>1, <2>3, <2>5
  <2> QED BY <1>2, <2>6, <2>7 DEF GrownBy
<1> QED BY <1>4, <1>5

LEMMA ParametersGrow ==
    ASSUME NEW ts, Counted(ts), NEW names, Len(names) \in Nat
    PROVE  LET new == DefineParameters(ts, names)
           IN  Grown(ts, new) /\ new[Len(ts)].num = ts[Len(ts)].num + Len(names)
<1> DEFINE after == CHOOSE f : f = Steps(f, ts, names, Len(names))
<1>1. AreSteps(after, ts, names, Len(names))
  BY StepsExist, Zenon DEF AreSteps
<1>2. DefineParameters(ts, names) = after[Len(names)]
  BY DEF DefineParameters, Steps
<1> HIDE DEF after
<1>3. \A i \in 0..Len(names) : GrownBy(ts, after[i], i)
  BY <1>1, StepsGrow, Zenon
<1>4. Len(names) \in 0..Len(names)
  OBVIOUS
<1> QED BY <1>2, <1>3, <1>4, Zenon DEF GrownBy

LEMMA FreeGrows ==
    ASSUME NEW t, t.num \in Nat, NEW symbol
    PROVE  Symbols!DefineFree(t, symbol).num = t.num + 1
BY DEF Symbols!DefineFree

LEMMA ResolveGrows ==
    ASSUME NEW ts, Counted(ts), NEW name, NEW d
    PROVE  Grown(ts, Symbols!AfterResolve(ts, name, d))
<1> DEFINE captured(k) == IF k = d + 1 THEN ts[d].store[name] ELSE Symbols!FreeSymbol(ts[k-1], name)
           new == [k \in 1..Len(ts) |-> IF k <= d THEN ts[k]
                                        ELSE Symbols!DefineFree(ts[k], captured(k))]
<1>1. CASE ~Symbols!Captures(ts, name, d)
  <2>1. Symbols!AfterResolve(ts, name, d) = ts
    BY <1>1 DEF Symbols!AfterResolve
  <2> QED BY <2>1, GrownItself
<1>2. CASE Symbols!Captures(ts, name, d)
  <2>1. Len(ts) \in Nat /\ DOMAIN ts = 1..Len(ts)
    BY SequenceForm DEF Counted
  <2>2. Symbols!AfterResolve(ts, name, d) = new
    BY <1>2, <2>1, Zenon DEF Symbols!AfterResolve
  <2> HIDE DEF captured
  <2>3. ASSUME NEW k \in 1..Len(ts) PROVE new[k].num \in Nat /\ ts[k].num <= new[k].num
    <3>1. ts[k].num \in Nat
      BY DEF Counted
    <3>2. CASE k <= d
      <4>1. new[k] = ts[k]
        BY <3>2
      <4> QED BY <3>1, <4>1
    <3>3. CASE ~(k <= d)
      <4>1. new[k] = Symbols!DefineFree(ts[k], captured(k))
        BY <3>3
      <4>2. new[k].num = ts[k].num + 1
        BY <3>1, <4>1, FreeGrows
      <4> QED BY <3>1, <4>2
    <3> QED BY <3>2, <3>3
  <2>4. IsSequence(new) /\ Len(new) = Len(ts)
    <3> DEFINE S == {new[k] : k \in 1..Len(ts)}
    <3>1. new \in [1..Len(ts) -> S]
      OBVIOUS
    <3> HIDE DEF new, S
    <3> QED BY <2>1, <3>1, SequenceMade DEF IsSequence
  <2> HIDE DEF new
  <2>5. Counted(new)
    BY <2>3, <2>4 DEF Counted
  <2> QED BY <2>2, <2>3, <2>4, <2>5 DEF Grown
<1> QED BY <1>1, <1>2

LEMMA EnterCounted ==
    ASSUME NEW ts, Counted(ts), NEW name
    PROVE  LET new == Symbols!EnterTable(ts, name)
           IN  /\ Counted(new) /\ Len(new) = Len(ts) + 1 /\ new[Len(ts) + 1].num = 0
               /\ \A k \in 1..Len(ts) : new[k] = ts[k]
<1> DEFINE t == IF name = NULL THEN Symbols!EmptyTable
                ELSE Symbols!DefineFnName(Symbols!EmptyTable, name)
           new == Append(ts, t)
<1>1. Symbols!EnterTable(ts, name) = new
  BY DEF Symbols!EnterTable
<1>2. t.num = 0
  BY DEF Symbols!EmptyTable, Symbols!DefineFnName
<1> HIDE DEF t
<1>3. /\ IsSequence(new) /\ Len(new) = Len(ts) + 1 /\ new[Len(ts) + 1] = t
      /\ \A k \in 1..Len(ts) : new[k] = ts[k]
  BY SequenceAppend DEF Counted
<1> HIDE DEF new
<1>4. Len(ts) \in Nat
  BY SequenceForm DEF Counted
<1>5. ASSUME NEW k \in 1..Len(new) PROVE new[k].num \in Nat
  <2>1. CASE k \in 1..Len(ts)
    BY <1>3, <2>1 DEF Counted
  <2>2. CASE k = Len(ts) + 1
    BY <1>2, <1>3, <2>2
  <2> QED BY <1>3, <1>4, <2>1, <2>2
<1>6. Counted(new)
  BY <1>3, <1>4, <1>5 DEF Counted
<1>7. new[Len(ts) + 1].num = 0
  BY <1>2, <1>3
<1> QED BY <1>1, <1>3, <1>6, <1>7

LEMMA LeaveCounted ==
    ASSUME NEW ts, Counted(ts), Len(ts) > 1
    PROVE  LET new == OuterTables(ts)
           IN  /\ Counted(new) /\ Len(new) = Len(ts) - 1
               /\ \A k \in 1..Len(ts) - 1 : new[k] = ts[k]
<1> DEFINE new == SubSeq(ts, 1, Len(ts) - 1)
<1>1. OuterTables(ts) = new
  BY DEF OuterTables, Symbols!LeaveTable
<1>2. /\ IsSequence(new) /\ Len(new) = Len(ts) - 1
      /\ \A k \in 1..Len(ts) - 1 : new[k] = ts[k]
  BY SequenceFront DEF Counted
<1> HIDE DEF new
<1>3. Len(ts) \in Nat
  BY SequenceForm DEF Counted
<1>4. ASSUME NEW k \in 1..Len(new) PROVE new[k].num \in Nat
  <2>1. k \in 1..Len(ts) /\ k \in 1..Len(ts) - 1
    BY <1>2, <1>3
  <2> QED BY <1>2, <2>1 DEF Counted
<1>5. Counted(new)
  BY <1>2, <1>3, <1>4 DEF Counted
<1> QED BY <1>1, <1>2, <1>5

-----------------------------------------------------------------------------
(* The stack of active calls *)

(* What an active call holds is part of the program.                       *)
IsItem(Trees, item) ==
    /\ item.do = "compile" => item.node \in Trees
    /\ item.do = "consequence" => item.consequence \in Seq(Trees)
    /\ item.do \in {"consequence", "alternative"} => item.alternative \in Seq(Trees) \cup {NULL}
    /\ item.do = "endFunction" => item.params \in Nat

Pending(Trees, items) ==
    /\ IsSequence(items)
    /\ \A i \in 1..Len(items) : IsItem(Trees, items[i])

(* No function literal ends in these calls, and they store nothing.        *)
Ordinary(item) ==
    /\ item.do # "endFunction"
    /\ item.do = "emit" => \/ item.operands = << >>
                           \/ item.op \notin {OP.SET_LOCAL, OP.SET_GLOBAL}
Plain(Trees, items) ==
    /\ Pending(Trees, items)
    /\ \A i \in 1..Len(items) : Ordinary(items[i])

(* What a call that works in table k counts on: the table has counted the  *)
(* parameters, or has the slot in which a value is going to be stored.     *)
Slots(ts, k) == 0..ts[k].num - 1
Stores(ts, k, op, xs) ==
    /\ op = OP.SET_LOCAL /\ xs # << >> => k > 1 /\ xs[1] \in Slots(ts, k)
    /\ op = OP.SET_GLOBAL /\ xs # << >> => xs[1] \in Slots(ts, 1)
Suits(ts, item, k) ==
    /\ item.do = "endFunction" => item.params <= ts[k].num
    /\ item.do = "emit" => Stores(ts, k, item.op, item.operands)

(* The depth d[i] of the table in which call i works: the innermost for    *)
(* the first, the program's own behind the last, and one less behind each  *)
(* end of a function literal.                                              *)
Depths(ts, items, d) ==
    /\ d \in [1..Len(items) + 1 -> Nat]
    /\ d[1] = Len(ts) /\ d[Len(items) + 1] = 1
    /\ \A i \in 1..Len(items) + 1 : d[i] \in 1..Len(ts)
    /\ \A i \in 1..Len(items) : Suits(ts, items[i], d[i])
    /\ \A i \in 1..Len(items) :
         IF items[i].do = "endFunction"
         THEN d[i+1] = d[i] - 1 /\ \A j \in i+1..Len(items) + 1 : d[j] < d[i]
         ELSE d[i+1] = d[i]
OpenTables(ts, items) == \E d : Depths(ts, items, d)

(* Calls that can be made where the innermost table is current.            *)
Callable(Trees, ts, items) ==
    /\ Pending(Trees, items)
    /\ \A i \in 1..Len(items) : items[i].do # "endFunction" /\ Suits(ts, items[i], Len(ts))

LEMMA PlainCallable ==
    ASSUME NEW Trees, NEW items, Plain(Trees, items), NEW ts
    PROVE  Callable(Trees, ts, items)
BY DEF Plain, Callable, Ordinary, Suits, Stores

(* Slots are not lost.                                                     *)
LEMMA SuitsGrown ==
    ASSUME NEW Trees, NEW ts, Counted(ts), NEW new, Counted(new), NEW k \in 1..Len(ts),
           k <= Len(new), ts[k].num <= new[k].num, ts[1].num <= new[1].num,
           NEW item, IsItem(Trees, item), Suits(ts, item, k)
    PROVE  Suits(new, item, k)
<1>1. /\ ts[k].num \in Nat /\ new[k].num \in Nat /\ ts[1].num \in Nat /\ new[1].num \in Nat
  <2>1. k \in 1..Len(new) /\ 1 \in 1..Len(ts) /\ 1 \in 1..Len(new)
    BY SequenceForm DEF Counted
  <2> QED BY <2>1 DEF Counted
<1>2. item.do = "endFunction" => item.params <= new[k].num
  BY <1>1 DEF IsItem, Suits
<1>3. Slots(ts, k) \subseteq Slots(new, k) /\ Slots(ts, 1) \subseteq Slots(new, 1)
  <2>1. ASSUME NEW a \in Nat, NEW b \in Nat, a <= b
        PROVE  0..a - 1 \subseteq 0..b - 1
    BY <2>1
  <2> QED BY <1>1, <2>1 DEF Slots
<1>4. item.do = "emit" => Stores(new, k, item.op, item.operands)
  BY <1>3 DEF Suits, Stores
<1> QED BY <1>2, <1>4 DEF Suits

LEMMA OpenGrows ==
    ASSUME NEW Trees, NEW ts, Counted(ts), NEW new, Grown(ts, new), NEW items,
           Pending(Trees, items), OpenTables(ts, items)
    PROVE  OpenTables(new, items)
<1>1. PICK d : Depths(ts, items, d)
  BY DEF OpenTables
<1>2. Len(new) = Len(ts)
  BY DEF Grown
<1>3. ASSUME NEW i \in 1..Len(items)
      PROVE  Suits(new, items[i], d[i])
  <2>1. Len(items) \in Nat /\ Len(ts) \in Nat /\ Len(ts) > 0
    BY SequenceForm DEF Pending, Counted
  <2>2. d[i] \in 1..Len(ts) /\ Suits(ts, items[i], d[i])
    BY <1>1, <2>1 DEF Depths
  <2>3. ts[d[i]].num <= new[d[i]].num /\ ts[1].num <= new[1].num
    BY <2>1, <2>2 DEF Grown
  <2>4. IsItem(Trees, items[i])
    BY DEF Pending
  <2> QED BY <1>2, <2>2, <2>3, <2>4, SuitsGrown DEF Grown
<1>4. Depths(new, items, d)
  BY <1>1, <1>2, <1>3 DEF Depths
<1> QED BY <1>4 DEF OpenTables

(* A call ends ...                                                         *)
LEMMA OpenTail ==
    ASSUME NEW Trees, NEW ts, Counted(ts), NEW items, Pending(Trees, items), items # << >>,
           OpenTables(ts, items)
    PROVE  /\ Pending(Trees, Tail(items)) /\ IsItem(Trees, Head(items))
           /\ Head(items).do # "endFunction" => OpenTables(ts, Tail(items))
           /\ Suits(ts, Head(items), Len(ts))
           /\ Head(items).do = "endFunction" =>
                /\ Len(ts) > 1
                /\ OpenTables(OuterTables(ts), Tail(items))
<1> DEFINE rest == Tail(items)
<1>1. PICK d : Depths(ts, items, d)
  BY DEF OpenTables
<1>2. Len(items) \in Nat /\ Len(items) > 0 /\ Len(ts) \in Nat
  BY SequenceForm DEF Pending, Counted
<1>3. /\ IsSequence(rest) /\ Len(rest) = Len(items) - 1
      /\ \A i \in 1..Len(items) - 1 : rest[i] = items[i+1]
      /\ Head(items) = items[1]
  BY SequenceTail DEF Pending
<1> HIDE DEF rest
<1>4. Pending(Trees, rest)
  BY <1>2, <1>3 DEF Pending
<1>5. IsItem(Trees, Head(items)) /\ Suits(ts, Head(items), Len(ts))
  BY <1>1, <1>2, <1>3 DEF Pending, Depths
<1> DEFINE e == [i \in 1..Len(rest) + 1 |-> d[i+1]]
<1>6. /\ e \in [1..Len(rest) + 1 -> Nat] /\ e[Len(rest) + 1] = 1 /\ e[1] = d[2]
      /\ \A i \in 1..Len(rest) + 1 : e[i] = d[i+1]
  BY <1>1, <1>2, <1>3 DEF Depths
<1> HIDE DEF e
<1>7. ASSUME NEW new, \A k \in 1..Len(new) : new[k] = ts[k], 1 \in 1..Len(new),
             e[1] = Len(new), \A i \in 1..Len(rest) + 1 : e[i] \in 1..Len(new)
      PROVE  OpenTables(new, rest)
  <2>1. ASSUME NEW i \in 1..Len(rest)
        PROVE  /\ Suits(new, rest[i], e[i])
               /\ IF rest[i].do = "endFunction"
                  THEN e[i+1] = e[i] - 1 /\ \A j \in i+1..Len(rest) + 1 : e[j] < e[i]
                  ELSE e[i+1] = e[i]
    <3>1. /\ i+1 \in 1..Len(items) /\ rest[i] = items[i+1] /\ i \in 1..Len(rest) + 1
          /\ i+1 \in 1..Len(rest) + 1
      BY <1>2, <1>3
    <3>2. e[i] = d[i+1] /\ e[i+1] = d[(i+1) + 1]
      BY <1>6, <3>1
    <3>3. new[e[i]] = ts[d[i+1]] /\ new[1] = ts[1]
      BY <1>7, <3>1, <3>2
    <3>4. Suits(ts, items[i+1], d[i+1])
      BY <1>1, <3>1 DEF Depths
    <3>5. Suits(new, rest[i], e[i])
      BY <3>1, <3>2, <3>3, <3>4, Zenon DEF Suits, Stores, Slots
    <3>6. CASE rest[i].do = "endFunction"
      <4>1. /\ d[(i+1) + 1] = d[i+1] - 1
            /\ \A j \in (i+1) + 1..Len(items) + 1 : d[j] < d[i+1]
        BY <1>1, <3>1, <3>6 DEF Depths
      <4>2. ASSUME NEW j \in i+1..Len(rest) + 1 PROVE e[j] < e[i]
        <5>1. j \in 1..Len(rest) + 1 /\ j+1 \in (i+1) + 1..Len(items) + 1
          BY <1>2, <1>3
        <5> QED BY <1>6, <3>2, <4>1, <5>1
      <4> QED BY <3>2, <3>5, <3>6, <4>1, <4>2
    <3>7. CASE rest[i].do # "endFunction"
      <4>1. d[(i+1) + 1] = d[i+1]
        BY <1>1, <3>1, <3>7 DEF Depths
      <4> QED BY <3>2, <3>5, <3>7, <4>1
    <3> QED BY <3>6, <3>7
  <2>2. Depths(new, rest, e)
    BY <1>6, <1>7, <2>1 DEF Depths
  <2> QED BY <2>2 DEF OpenTables
<1>8. CASE Head(items).do # "endFunction"
  <2>1. d[2] = Len(ts)
    BY <1>1, <1>2, <1>3, <1>8 DEF Depths
  <2>2. \A i \in 1..Len(rest) + 1 : e[i] \in 1..Len(ts)
    BY <1>1, <1>2, <1>3, <1>6 DEF Depths
  <2>3. OpenTables(ts, rest)
    <3>1. 1 \in 1..Len(ts)
      <4> DEFINE n == Len(ts)
      <4>1. n \in Nat /\ n > 0
        BY SequenceForm DEF Counted
      <4> HIDE DEF n
      <4>2. 1 \in 1..n
        BY <4>1
      <4> QED BY <4>2 DEF n
    <3> QED BY <1>6, <1>7, <2>1, <2>2, <3>1
  <2> QED BY <1>4, <1>5, <1>8, <2>3 DEF rest
<1>9. CASE Head(items).do = "endFunction"
  <2>1. /\ d[2] = Len(ts) - 1
        /\ \A j \in 2..Len(items) + 1 : d[j] < Len(ts) /\ d[j] \in 1..Len(ts)
    BY <1>1, <1>2, <1>3, <1>9 DEF Depths
  <2>2. Len(ts) > 1
    <3>1. d[2] \in 1..Len(ts)
      BY <1>2, <2>1
    <3> QED BY <1>2, <2>1, <3>1
  <2> DEFINE new == OuterTables(ts)
  <2>3. Len(new) = Len(ts) - 1 /\ \A k \in 1..Len(ts) - 1 : new[k] = ts[k]
    BY <2>2, LeaveCounted
  <2> HIDE DEF new
  <2>4. ASSUME NEW i \in 1..Len(rest) + 1 PROVE e[i] \in 1..Len(new)
    <3>1. e[i] = d[i+1] /\ i+1 \in 2..Len(items) + 1
      BY <1>2, <1>3, <1>6
    <3>2. d[i+1] < Len(ts) /\ d[i+1] \in 1..Len(ts)
      BY <2>1, <3>1
    <3> QED BY <1>2, <2>3, <3>1, <3>2
  <2>5. OpenTables(new, rest)
    <3>1. 1 \in 1..Len(new)
      BY <1>2, <2>2, <2>3
    <3> QED BY <1>6, <1>7, <2>1, <2>3, <2>4, <3>1
  <2> QED BY <1>3, <1>4, <1>5, <1>9, <2>1, <2>2, <2>5 DEF rest, new
<1> QED BY <1>8, <1>9

(* ... or makes other calls first.                                         *)
LEMMA OpenPrepend ==
    ASSUME NEW Trees, NEW ts, Counted(ts), NEW items, Callable(Trees, ts, items),
           NEW rest, Pending(Trees, rest), OpenTables(ts, rest)
    PROVE  Pending(Trees, items \o rest) /\ OpenTables(ts, items \o rest)
<1> DEFINE all == items \o rest
           n == Len(items)
<1>1. PICK d : Depths(ts, rest, d)
  BY DEF OpenTables
<1>2. n \in Nat /\ Len(rest) \in Nat /\ Len(ts) \in Nat /\ Len(ts) > 0
  BY SequenceForm DEF Callable, Pending, Counted
<1>3. /\ IsSequence(all) /\ Len(all) = n + Len(rest)
      /\ \A i \in 1..n + Len(rest) : all[i] = IF i <= n THEN items[i] ELSE rest[i - n]
  BY SequenceConcat DEF Callable, Pending
<1> HIDE DEF all
<1>4. Pending(Trees, all)
  <2>1. ASSUME NEW i \in 1..n + Len(rest) PROVE IsItem(Trees, all[i])
    <3>1. CASE i <= n
      BY <1>2, <1>3, <3>1 DEF Callable, Pending
    <3>2. CASE ~(i <= n)
      <4>1. i - n \in 1..Len(rest) /\ all[i] = rest[i - n]
        BY <1>2, <1>3, <3>2
      <4> QED BY <4>1 DEF Pending
    <3> QED BY <3>1, <3>2
  <2> QED BY <1>3, <2>1 DEF Pending
<1> DEFINE e == [i \in 1..Len(all) + 1 |-> IF i <= n THEN Len(ts) ELSE d[i - n]]
<1>5. /\ \A i \in 1..Len(all) + 1 : e[i] = IF i <= n THEN Len(ts) ELSE d[i - n]
      /\ \A i \in 1..Len(all) + 1 : e[i] \in 1..Len(ts)
      /\ e[1] = Len(ts) /\ e[Len(all) + 1] = 1
      /\ e \in [1..Len(all) + 1 -> Nat]
  BY <1>1, <1>2, <1>3 DEF Depths
<1> HIDE DEF e
<1>6. ASSUME NEW i \in 1..Len(all)
      PROVE  /\ Suits(ts, all[i], e[i])
             /\ IF all[i].do = "endFunction"
                THEN e[i+1] = e[i] - 1 /\ \A j \in i+1..Len(all) + 1 : e[j] < e[i]
                ELSE e[i+1] = e[i]
  <2>1. i \in 1..Len(all) + 1 /\ i+1 \in 1..Len(all) + 1 /\ i \in 1..n + Len(rest)
    BY <1>2, <1>3
  <2>2. CASE i <= n
    <3>1. all[i].do # "endFunction" /\ Suits(ts, all[i], Len(ts))
      BY <1>2, <1>3, <2>1, <2>2 DEF Callable
    <3>2. e[i] = Len(ts)
      BY <1>5, <2>1, <2>2
    <3>3. e[i+1] = Len(ts)
      <4>1. d[1] = Len(ts)
        BY <1>1 DEF Depths
      <4>2. i+1 <= n \/ (i+1) - n = 1
        BY <1>2, <2>2
      <4> QED BY <1>2, <1>5, <2>1, <4>1, <4>2
    <3> QED BY <3>1, <3>2, <3>3
  <2>3. CASE ~(i <= n)
    <3> DEFINE k == i - n
    <3>1. k \in 1..Len(rest) /\ all[i] = rest[k]
      BY <1>2, <1>3, <2>1, <2>3
    <3>2. e[i] = d[k] /\ e[i+1] = d[k+1]
      <4>1. ~(i+1 <= n) /\ (i+1) - n = k + 1
        BY <1>2, <2>3
      <4> QED BY <1>5, <2>1, <2>3, <4>1
    <3>s. Suits(ts, all[i], e[i])
      <4>1. Suits(ts, rest[k], d[k])
        <5> HIDE DEF k
        <5> QED BY <1>1, <3>1 DEF Depths
      <4> QED BY <3>1, <3>2, <4>1
    <3>3. CASE all[i].do = "endFunction"
      <4>1. /\ d[k+1] = d[k] - 1
            /\ \A j \in k+1..Len(rest) + 1 : d[j] < d[k]
        <5> HIDE DEF k
        <5> QED BY <1>1, <3>1, <3>3 DEF Depths
      <4>2. ASSUME NEW j \in i+1..Len(all) + 1 PROVE e[j] < e[i]
        <5>1. /\ j \in 1..Len(all) + 1 /\ ~(j <= n) /\ j - n \in k+1..Len(rest) + 1
          BY <1>2, <1>3, <2>3
        <5>2. e[j] = d[j - n]
          BY <1>5, <5>1
        <5> QED BY <3>2, <4>1, <5>1, <5>2
      <4> HIDE DEF k
      <4> QED BY <3>1, <3>2, <3>3, <3>s, <4>1, <4>2
    <3>4. CASE all[i].do # "endFunction"
      <4>1. d[k+1] = d[k]
        <5> HIDE DEF k
        <5> QED BY <1>1, <3>1, <3>4 DEF Depths
      <4> QED BY <3>2, <3>4, <3>s, <4>1
    <3> QED BY <3>3, <3>4
  <2> QED BY <2>2, <2>3
<1>7. Depths(ts, all, e)
  BY <1>5, <1>6 DEF Depths
<1> QED BY <1>4, <1>7 DEF OpenTables, all

(* Lists of calls in which no function literal ends                        *)
LEMMA PlainOne ==
    ASSUME NEW Trees, NEW x, IsItem(Trees, x), Ordinary(x)
    PROVE  Plain(Trees, << x >>)
BY SequenceOfOne DEF Plain, Pending

LEMMA PlainConcat ==
    ASSUME NEW Trees, NEW s, Plain(Trees, s), NEW t, Plain(Trees, t)
    PROVE  Plain(Trees, s \o t)
<1>1. Len(s) \in Nat /\ Len(t) \in Nat
  BY SequenceForm DEF Plain, Pending
<1>2. /\ IsSequence(s \o t) /\ Len(s \o t) = Len(s) + Len(t)
      /\ \A i \in 1..Len(s) + Len(t) : (s \o t)[i] = IF i <= Len(s) THEN s[i] ELSE t[i - Len(s)]
  BY SequenceConcat DEF Plain, Pending
<1>3. ASSUME NEW i \in 1..Len(s) + Len(t)
      PROVE  IsItem(Trees, (s \o t)[i]) /\ Ordinary((s \o t)[i])
  <2>1. CASE i <= Len(s)
    BY <1>1, <1>2, <2>1 DEF Plain, Pending
  <2>2. CASE ~(i <= Len(s))
    <3>1. i - Len(s) \in 1..Len(t) /\ (s \o t)[i] = t[i - Len(s)]
      BY <1>1, <1>2, <2>2
    <3> QED BY <3>1 DEF Plain, Pending
  <2> QED BY <2>1, <2>2
<1> QED BY <1>2, <1>3 DEF Plain, Pending

LEMMA PlainEmit ==
    ASSUME NEW Trees, NEW op, NEW operands,
           operands = << >> \/ op \notin {OP.SET_LOCAL, OP.SET_GLOBAL}
    PROVE  Plain(Trees, << EmitLater(op, operands) >>)
BY PlainOne DEF EmitLater, IsItem, Ordinary

LEMMA PlainCount ==
    ASSUME NEW Trees, NEW op \in {OP.ARRAY, OP.HASH, OP.CALL}, NEW n
    PROVE  Plain(Trees, << EmitLater(op, << n >>) >>)
<1>1. op \notin {OP.SET_LOCAL, OP.SET_GLOBAL}
  BY DEF OP
<1> QED BY <1>1, PlainEmit

LEMMA PlainCompile ==
    ASSUME NEW Trees, NEW node \in Trees
    PROVE  Plain(Trees, << Compile(node) >>)
BY PlainOne DEF Compile, IsItem, Ordinary

LEMMA PlainCompileAll ==
    ASSUME NEW Trees, NEW nodes \in Seq(Trees)
    PROVE  Plain(Trees, CompileAll(nodes))
<1> DEFINE S == {Compile(node) : node \in Trees}
           all == [i \in 1..Len(nodes) |-> Compile(nodes[i])]
<1>1. Len(nodes) \in Nat /\ CompileAll(nodes) = all /\ \A i \in 1..Len(nodes) : nodes[i] \in Trees
  BY DEF CompileAll
<1>2. all \in [1..Len(nodes) -> S]
  BY <1>1
<1>3. IsSequence(all) /\ Len(all) = Len(nodes)
  <2> HIDE DEF all, S
  <2> QED BY <1>1, <1>2, SequenceMade DEF IsSequence
<1>4. ASSUME NEW i \in 1..Len(nodes) PROVE IsItem(Trees, all[i]) /\ Ordinary(all[i])
  BY <1>1 DEF Compile, IsItem, Ordinary
<1> HIDE DEF all
<1> QED BY <1>1, <1>3, <1>4 DEF Plain, Pending

LEMMA PlainPair ==
    ASSUME NEW Trees, NEW x, NEW y, Plain(Trees, << x >>), Plain(Trees, << y >>)
    PROVE  Plain(Trees, << x, y >>)
<1>1. << x, y >> = << x >> \o << y >>
  BY PairJoined
<1> QED BY <1>1, PlainConcat

LEMMA PlainThree ==
    ASSUME NEW Trees, NEW x, NEW y, NEW z, Plain(Trees, << x >>), Plain(Trees, << y >>),
           Plain(Trees, << z >>)
    PROVE  Plain(Trees, << x, y, z >>)
<1>1. << x, y, z >> = << x, y >> \o << z >>
  BY PairJoined, ThreeJoined
<1> QED BY <1>1, PlainPair, PlainConcat

-----------------------------------------------------------------------------
(* The invariant of the compiler *)

CallsInv(Trees) ==
    /\ Pending(Trees, todo)
    /\ err = NULL => OpenTables(tables, todo)
    /\ err # NULL => todo = << >>

ScopesInv == IsSequence(scopes) /\ Len(scopes) = Len(tables)

PoolInv ==
    /\ IsSequence(pool)
    /\ \A i \in 1..Len(pool) :
         pool[i].t = "COMPILED_FUNCTION" => pool[i].params <= pool[i].locals

CompilerInv(Trees) == Counted(tables) /\ CallsInv(Trees) /\ ScopesInv /\ PoolInv

(* What a step may do to what the closures and the code rely on.           *)
CodeStays ==
    /\ Len(pool) <= Len(pool') /\ \A i \in DOMAIN pool : pool'[i] = pool[i]
    /\ tables[1].num <= tables'[1].num

LEMMA InvClosed ==
    ASSUME NEW Trees, CompilerInv(Trees)
    PROVE  FunctionsClosed
<1>1. ASSUME Compiled PROVE Len(tables) = 1
  <2>1. todo = << >> /\ OpenTables(tables, todo)
    BY <1>1 DEF Compiled, CompilerInv, CallsInv
  <2>2. Len(todo) = 0
    BY <2>1, EmptySeq
  <2>3. PICK d : Depths(tables, todo, d)
    BY <2>1 DEF OpenTables
  <2> QED BY <2>2, <2>3 DEF Depths
<1>2. ASSUME NEW fn \in Functions PROVE fn.params <= fn.locals
  <2>1. DOMAIN pool = 1..Len(pool)
    BY SequenceForm DEF CompilerInv, PoolInv
  <2> QED BY <2>1 DEF Functions, CompilerInv, PoolInv
<1> QED BY <1>1, <1>2 DEF FunctionsClosed, CompilerInv, ScopesInv

LEMMA FirstTableGrows ==
    ASSUME Counted(tables), Grown(tables, tables')
    PROVE  tables[1].num <= tables'[1].num
BY SequenceForm DEF Counted, Grown

LEMMA PoolUnchanged ==
    ASSUME PoolInv, UNCHANGED pool
    PROVE  /\ PoolInv' /\ Len(pool) <= Len(pool')
           /\ \A i \in DOMAIN pool : pool'[i] = pool[i]
BY SequenceForm DEF PoolInv

LEMMA PoolExtended ==
    ASSUME PoolInv, NEW STATE object, AddConstant(object),
           object.t = "COMPILED_FUNCTION" => object.params <= object.locals
    PROVE  /\ PoolInv' /\ Len(pool) <= Len(pool')
           /\ \A i \in DOMAIN pool : pool'[i] = pool[i]
<1>1. Len(pool) \in Nat /\ DOMAIN pool = 1..Len(pool)
  BY SequenceForm DEF PoolInv
<1>2. /\ IsSequence(pool') /\ Len(pool') = Len(pool) + 1
      /\ \A i \in 1..Len(pool) : pool'[i] = pool[i]
      /\ pool'[Len(pool) + 1] = object
  BY SequenceAppend DEF AddConstant, PoolInv
<1>3. ASSUME NEW i \in 1..Len(pool'), pool'[i].t = "COMPILED_FUNCTION"
      PROVE  pool'[i].params <= pool'[i].locals
  <2>1. CASE i \in 1..Len(pool)
    BY <1>2, <1>3, <2>1 DEF PoolInv
  <2>2. CASE i = Len(pool) + 1
    BY <1>2, <1>3, <2>2
  <2> QED BY <1>1, <1>2, <2>1, <2>2
<1> QED BY <1>1, <1>2, <1>3 DEF PoolInv

LEMMA ScopeWritten ==
    ASSUME Counted(tables), ScopesInv,
           NEW STATE scope, scopes' = [scopes EXCEPT ![Len(scopes)] = scope]
    PROVE  IsSequence(scopes') /\ Len(scopes') = Len(scopes)
<1>1. Len(scopes) \in 1..Len(scopes)
  BY SequenceForm DEF Counted, ScopesInv
<1> QED BY <1>1, SequenceExcept DEF ScopesInv

(* A step within the functions that are open: it makes calls that end none *)
(* of them, or just returns.                                               *)
LEMMA StepWithin ==
    ASSUME NEW Trees, CompilerInv(Trees), todo # << >>, Head(todo).do # "endFunction",
           Grown(tables, tables'), IsSequence(scopes'), Len(scopes') = Len(scopes),
           PoolInv', UNCHANGED err,
           NEW STATE items, Callable(Trees, tables', items),
           todo' = items \o Tail(todo) \/ todo' = Tail(todo)
    PROVE  CompilerInv(Trees)'
<1>1. err = NULL
  BY DEF CompilerInv, CallsInv
<1>2. Pending(Trees, Tail(todo)) /\ OpenTables(tables, Tail(todo))
  BY <1>1, OpenTail DEF CompilerInv, CallsInv
<1>3. OpenTables(tables', Tail(todo)) /\ Counted(tables')
  BY <1>2, OpenGrows DEF CompilerInv, Grown
<1>4. Pending(Trees, todo') /\ OpenTables(tables', todo')
  <2>1. CASE todo' = Tail(todo)
    BY <1>2, <1>3, <2>1
  <2>2. CASE todo' = items \o Tail(todo)
    BY <1>2, <1>3, <2>2, OpenPrepend
  <2> QED BY <2>1, <2>2
<1>5. CallsInv(Trees)'
  BY <1>1, <1>4 DEF CallsInv
<1>6. Counted(tables)'
  BY DEF Grown
<1>7. ScopesInv'
  BY DEF ScopesInv, Grown, CompilerInv
<1> QED BY <1>5, <1>6, <1>7 DEF CompilerInv

(* The steps of compile(), by what they call and change                    *)
LEMMA VisitedNode ==
    ASSUME NEW Trees, CompilerInv(Trees), NEW type, Visiting(type)
    PROVE  /\ todo # << >> /\ Head(todo).do # "endFunction"
           /\ Node \in Trees /\ Node.type = type
<1>1. todo # << >> /\ Head(todo).do = "compile" /\ Node.type = type
  BY DEF Visiting
<1>2. err = NULL
  BY <1>1 DEF CompilerInv, CallsInv
<1>3. IsItem(Trees, Head(todo))
  BY <1>1, <1>2, OpenTail DEF CompilerInv, CallsInv
<1> QED BY <1>1, <1>3 DEF IsItem, Node

LEMMA ResumedCall ==
    ASSUME NEW Trees, CompilerInv(Trees), NEW what, Resuming(what)
    PROVE  todo # << >> /\ Head(todo).do = what /\ IsItem(Trees, Head(todo))
<1>1. todo # << >> /\ Head(todo).do = what
  BY DEF Resuming
<1>2. err = NULL
  BY <1>1 DEF CompilerInv, CallsInv
<1> QED BY <1>1, <1>2, OpenTail DEF CompilerInv, CallsInv

(* A node that is compiled by compiling its parts first.                   *)
LEMMA StepCalls ==
    ASSUME NEW Trees, CompilerInv(Trees), todo # << >>, Head(todo).do # "endFunction",
           UNCHANGED <<tables, scopes, pool, err>>,
           NEW STATE items, Plain(Trees, items), Call(items)
    PROVE  CompilerInv(Trees)' /\ CodeStays
<1>1. Grown(tables, tables')
  BY GrownItself DEF CompilerInv
<1>2. IsSequence(scopes') /\ Len(scopes') = Len(scopes)
  BY DEF CompilerInv, ScopesInv
<1>3. PoolInv' /\ CodeStays
  BY <1>1, PoolUnchanged, FirstTableGrows DEF CompilerInv, CodeStays
<1> QED BY <1>1, <1>2, <1>3, StepWithin, PlainCallable DEF Call

(* A step that emits, and may make calls.                                  *)
LEMMA StepEmits ==
    ASSUME NEW Trees, CompilerInv(Trees), todo # << >>, Head(todo).do # "endFunction",
           UNCHANGED <<tables, pool, err>>,
           NEW STATE scope, scopes' = [scopes EXCEPT ![Len(scopes)] = scope],
           NEW STATE items, Plain(Trees, items), Call(items) \/ Return
    PROVE  CompilerInv(Trees)' /\ CodeStays
<1>1. Grown(tables, tables')
  BY GrownItself DEF CompilerInv
<1>2. IsSequence(scopes') /\ Len(scopes') = Len(scopes)
  BY ScopeWritten DEF CompilerInv
<1>3. PoolInv' /\ CodeStays
  BY <1>1, PoolUnchanged, FirstTableGrows DEF CompilerInv, CodeStays
<1> QED BY <1>1, <1>2, <1>3, StepWithin, PlainCallable DEF Call, Return

LEMMA LetStep ==
    ASSUME NEW Trees, HoldsParts(Trees), CompilerInv(Trees), LetStatement
    PROVE  CompilerInv(Trees)' /\ CodeStays
<1>1. /\ todo # << >> /\ Head(todo).do # "endFunction"
      /\ Node \in Trees /\ Node.type = "LET"
  BY VisitedNode DEF LetStatement
<1> DEFINE symbol == Symbols!Defined(tables, Node.name)
           op == IF symbol.scope = "GLOBAL" THEN OP.SET_GLOBAL ELSE OP.SET_LOCAL
           items == << Compile(Node.value), EmitLater(op, <<symbol.index>>) >>
<1>2. Call(items) /\ UNCHANGED <<scopes, pool, err>>
  BY DEF LetStatement
<1>3. Grown(tables, tables') /\ Len(tables) \in Nat /\ Len(tables) > 0
  BY DefineGrows, SequenceForm DEF LetStatement, CompilerInv, Counted
<1>4. Callable(Trees, tables', items)
  <2> DEFINE value == Compile(Node.value)
             store == EmitLater(op, << symbol.index >>)
             n == Len(tables)
  <2>1. IsItem(Trees, value) /\ value.do # "endFunction" /\ Suits(tables', value, n)
    BY <1>1 DEF HoldsParts, Compile, IsItem, Suits
  <2>2. symbol.index \in Slots(tables', n)
    <3>1. symbol.index = tables[n].num
      BY DEF Symbols!Defined, Symbols!NewSymbol
    <3>2. tables'[n].num = tables[n].num + 1
      BY DefineGrows DEF LetStatement, CompilerInv
    <3>3. tables[n].num \in Nat
      BY <1>3 DEF CompilerInv, Counted
    <3> QED BY <3>1, <3>2, <3>3 DEF Slots
  <2>3. symbol.scope = IF n = 1 THEN "GLOBAL" ELSE "LOCAL"
    BY DEF Symbols!Defined, Symbols!NewSymbol, Symbols!DefinitionScope
  <2>4. OP.SET_LOCAL # OP.SET_GLOBAL
    BY DEF OP
  <2> HIDE DEF symbol
  <2>5. Stores(tables', n, op, << symbol.index >>)
    <3>1. << symbol.index >>[1] = symbol.index
      OBVIOUS
    <3>2. CASE n = 1
      <4>1. op = OP.SET_GLOBAL
        BY <2>3, <3>2
      <4>2. symbol.index \in Slots(tables', 1)
        BY <2>2, <3>2
      <4> HIDE DEF op, n
      <4> QED BY <2>4, <3>1, <4>1, <4>2 DEF Stores
    <3>3. CASE n # 1
      <4>1. op = OP.SET_LOCAL
        BY <2>3, <3>3
      <4>2. n \in Nat /\ n > 0
        BY <1>3
      <4> HIDE DEF op, n
      <4>3. n > 1
        BY <3>3, <4>2
      <4> QED BY <2>2, <2>4, <3>1, <4>1, <4>3 DEF Stores
    <3> QED BY <3>2, <3>3
  <2>6. IsItem(Trees, store) /\ store.do # "endFunction" /\ Suits(tables', store, n)
    BY <2>5 DEF IsItem, EmitLater, Suits
  <2>7. items = << value, store >>
    OBVIOUS
  <2> HIDE DEF items, value, store, n
  <2>8. Len(tables') = n
    BY <1>3 DEF Grown, n
  <2>9. IsSequence(items) /\ Len(items) = 2 /\ items[1] = value /\ items[2] = store
    <3>1. << value, store >> \in Seq({value, store})
      OBVIOUS
    <3> QED BY <2>7, <3>1 DEF IsSequence
  <2> QED BY <2>1, <2>6, <2>8, <2>9 DEF Callable, Pending
<1> HIDE DEF items
<1>5. IsSequence(scopes') /\ Len(scopes') = Len(scopes)
  BY <1>2 DEF CompilerInv, ScopesInv
<1>6. PoolInv' /\ CodeStays
  BY <1>2, <1>3, PoolUnchanged, FirstTableGrows DEF CompilerInv, CodeStays
<1> QED BY <1>1, <1>2, <1>3, <1>4, <1>5, <1>6, StepWithin DEF Call

LEMMA ConstantStep ==
    ASSUME NEW Trees, CompilerInv(Trees), Constant
    PROVE  CompilerInv(Trees)' /\ CodeStays
<1>1. todo # << >> /\ Head(todo).do # "endFunction"
  BY VisitedNode DEF Constant
<1>2. PICK object : AddConstant(object) /\ object.t # "COMPILED_FUNCTION"
  <2>1. CASE AddConstant(Integer(Node.int))
    BY <2>1 DEF Integer
  <2>2. CASE AddConstant(String(Node.string))
    BY <2>2 DEF String
  <2> QED BY <2>1, <2>2 DEF Constant
<1>3. Grown(tables, tables')
  BY GrownItself DEF CompilerInv, Constant
<1>4. /\ PoolInv' /\ Len(pool) <= Len(pool')
      /\ \A i \in DOMAIN pool : pool'[i] = pool[i]
  BY <1>2, PoolExtended DEF CompilerInv
<1>5. CodeStays
  BY <1>3, <1>4, FirstTableGrows DEF CompilerInv, CodeStays
<1>6. IsSequence(scopes') /\ Len(scopes') = Len(scopes)
  <2>1. scopes' = [scopes EXCEPT ![Len(scopes)] = Emit(scopes[Len(scopes)], OP.CONSTANT, <<NextConstant>>)]
    BY DEF Constant, EmitNow
  <2> QED BY <2>1, ScopeWritten DEF CompilerInv
<1>7. Plain(Trees, << EmitLater(OP.POP, << >>) >>)
  BY PlainEmit
<1> QED BY <1>1, <1>3, <1>4, <1>5, <1>6, <1>7, StepWithin, PlainCallable DEF Constant, Return

(* An undefined variable ends all calls and leaves the functions open.     *)
LEMMA IdentifierStep ==
    ASSUME NEW Trees, CompilerInv(Trees), Identifier
    PROVE  CompilerInv(Trees)' /\ CodeStays
<1>1. todo # << >> /\ Head(todo).do # "endFunction"
  BY VisitedNode DEF Identifier
<1>2. PoolInv'
  BY PoolUnchanged DEF Identifier, CompilerInv
<1>3. ASSUME NEW d \in DOMAIN tables, tables' = Symbols!AfterResolve(tables, Node.name, d),
             scopes' = [scopes EXCEPT ![Len(scopes)] =
                           EmitLoad(scopes[Len(scopes)], Symbols!Resolved(tables, Node.name, d))],
             Return, UNCHANGED err
      PROVE  CompilerInv(Trees)' /\ CodeStays
  <2>1. Grown(tables, tables')
    BY <1>3, ResolveGrows DEF CompilerInv
  <2>2. IsSequence(scopes') /\ Len(scopes') = Len(scopes)
    BY <1>3, ScopeWritten DEF CompilerInv
  <2>3. CodeStays
    BY <2>1, PoolUnchanged, FirstTableGrows DEF CompilerInv, CodeStays, Identifier
  <2>4. Plain(Trees, << EmitLater(OP.POP, << >>) >>)
    BY PlainEmit
  <2> QED BY <1>1, <1>2, <1>3, <2>1, <2>2, <2>3, <2>4, StepWithin, PlainCallable DEF Return
<1>4. ASSUME err' = "undefined variable", todo' = << >>, UNCHANGED <<tables, scopes>>
      PROVE  CompilerInv(Trees)' /\ CodeStays
  <2>1. IsSequence(<< >>) /\ Len(<< >>) = 0
    BY EmptySeq DEF IsSequence
  <2>2. CallsInv(Trees)'
    <3>1. Pending(Trees, << >>)
      BY <2>1 DEF Pending
    <3>2. err' # NULL
      BY <1>4, MessageAssumption
    <3> QED BY <1>4, <3>1, <3>2 DEF CallsInv
  <2>3. Grown(tables, tables')
    BY <1>4, GrownItself DEF CompilerInv
  <2>4. CodeStays
    BY <2>3, PoolUnchanged, FirstTableGrows DEF CompilerInv, CodeStays, Identifier
  <2> QED BY <1>2, <1>4, <2>2, <2>4 DEF CompilerInv, ScopesInv
<1> QED BY <1>3, <1>4 DEF Identifier

LEMMA FlatPairs ==
    ASSUME NEW Trees, NEW pairs \in Seq(Trees \X Trees)
    PROVE  LET n == Len(pairs)
               flat == [i \in 1..2*n |-> pairs[(i + 1) \div 2][2 - (i % 2)]]
           IN  flat \in Seq(Trees)
<1> DEFINE n == Len(pairs)
           flat == [i \in 1..2*n |-> pairs[(i + 1) \div 2][2 - (i % 2)]]
<1>1. n \in Nat /\ \A k \in 1..n : pairs[k][1] \in Trees /\ pairs[k][2] \in Trees
  OBVIOUS
<1>2. ASSUME NEW i \in 1..2*n PROVE pairs[(i + 1) \div 2][2 - (i % 2)] \in Trees
  <2>1. (i + 1) \div 2 \in 1..n /\ 2 - (i % 2) \in {1, 2}
    <3> HIDE DEF n
    <3> QED BY <1>1
  <2> QED BY <1>1, <2>1
<1>3. flat \in [1..2*n -> Trees]
  BY <1>2
<1>4. 2*n \in Nat
  BY <1>1
<1> HIDE DEF n, flat
<1>5. flat \in Seq(Trees)
  BY <1>3, <1>4, SequenceMade
<1> QED BY <1>5 DEF flat, n

(* Statements and expressions whose parts are compiled before anything is  *)
(* emitted                                                                 *)
LEMMA OperandsStep ==
    ASSUME NEW Trees, HoldsParts(Trees), CompilerInv(Trees),
           \/ ExpressionStatement \/ ReturnStatement
           \/ InfixExpression \/ PrefixExpression
           \/ ArrayLiteral \/ HashLiteral \/ IndexExpression \/ CallExpression
    PROVE  CompilerInv(Trees)' /\ CodeStays
<1>1. CASE ExpressionStatement
  <2>1. Node \in Trees /\ Node.type = "EXPR" /\ todo # << >> /\ Head(todo).do # "endFunction"
    BY <1>1, VisitedNode DEF ExpressionStatement
  <2>2. Plain(Trees, << Compile(Node.value), EmitLater(OP.POP, << >>) >>)
    BY <2>1, PlainCompile, PlainEmit, PlainPair DEF HoldsParts
  <2> QED BY <1>1, <2>1, <2>2, StepCalls DEF ExpressionStatement
<1>2. CASE ReturnStatement
  <2>1. Node \in Trees /\ Node.type = "RETURN" /\ todo # << >> /\ Head(todo).do # "endFunction"
    BY <1>2, VisitedNode DEF ReturnStatement
  <2>2. Plain(Trees, << Compile(Node.value), EmitLater(OP.RETURN_VALUE, << >>) >>)
    BY <2>1, PlainCompile, PlainEmit, PlainPair DEF HoldsParts
  <2> QED BY <1>2, <2>1, <2>2, StepCalls DEF ReturnStatement
<1>3. CASE InfixExpression
  <2>1. Node \in Trees /\ Node.type = "INFIX" /\ todo # << >> /\ Head(todo).do # "endFunction"
    BY <1>3, VisitedNode DEF InfixExpression
  <2> DEFINE operands == IF Node.operator = "<" THEN <<Node.right, Node.left>>
                         ELSE <<Node.left, Node.right>>
             items == CompileAll(operands) \o << EmitLater(InfixOp(Node.operator), << >>) >>
  <2>2. operands \in Seq(Trees)
    BY <2>1 DEF HoldsParts
  <2>3. Call(items) /\ UNCHANGED <<tables, scopes, pool, err>>
    BY <1>3 DEF InfixExpression
  <2> HIDE DEF operands
  <2>4. Plain(Trees, items)
    BY <2>2, PlainCompileAll, PlainEmit, PlainConcat
  <2> HIDE DEF items
  <2> QED BY <2>1, <2>3, <2>4, StepCalls
<1>4. CASE PrefixExpression
  <2>1. Node \in Trees /\ Node.type = "PREFIX" /\ todo # << >> /\ Head(todo).do # "endFunction"
    BY <1>4, VisitedNode DEF PrefixExpression
  <2> DEFINE op == IF Node.operator = "!" THEN OP.BANG ELSE OP.MINUS
             items == << Compile(Node.right), EmitLater(op, << >>) >>
  <2>2. Call(items) /\ UNCHANGED <<tables, scopes, pool, err>>
    BY <1>4 DEF PrefixExpression
  <2> HIDE DEF op
  <2>3. Plain(Trees, items)
    BY <2>1, PlainCompile, PlainEmit, PlainPair DEF HoldsParts
  <2> HIDE DEF items
  <2> QED BY <2>1, <2>2, <2>3, StepCalls
<1>5. CASE ArrayLiteral
  <2>1. Node \in Trees /\ Node.type = "ARRAY" /\ todo # << >> /\ Head(todo).do # "endFunction"
    BY <1>5, VisitedNode DEF ArrayLiteral
  <2> DEFINE items == CompileAll(Node.elements) \o << EmitLater(OP.ARRAY, <<Len(Node.elements)>>) >>
  <2>2. Plain(Trees, items)
    BY <2>1, PlainCompileAll, PlainCount, PlainConcat DEF HoldsParts
  <2> QED BY <1>5, <2>1, <2>2, StepCalls DEF ArrayLiteral
<1>6. CASE HashLiteral
  <2>1. Node \in Trees /\ Node.type = "HASH" /\ todo # << >> /\ Head(todo).do # "endFunction"
    BY <1>6, VisitedNode DEF HashLiteral
  <2> DEFINE n == Len(Node.pairs)
             flat == [i \in 1..2*n |-> Node.pairs[(i + 1) \div 2][2 - (i % 2)]]
             items == CompileAll(flat) \o << EmitLater(OP.HASH, <<2 * n>>) >>
  <2>2. Call(items) /\ UNCHANGED <<tables, scopes, pool, err>>
    BY <1>6 DEF HashLiteral
  <2>3. flat \in Seq(Trees)
    BY <2>1, FlatPairs DEF HoldsParts
  <2> HIDE DEF flat
  <2>4. Plain(Trees, items)
    BY <2>3, PlainCompileAll, PlainCount, PlainConcat
  <2> HIDE DEF items
  <2> QED BY <2>1, <2>2, <2>4, StepCalls
<1>7. CASE IndexExpression
  <2>1. Node \in Trees /\ Node.type = "INDEX" /\ todo # << >> /\ Head(todo).do # "endFunction"
    BY <1>7, VisitedNode DEF IndexExpression
  <2>2. Plain(Trees, << Compile(Node.left), Compile(Node.index), EmitLater(OP.INDEX, << >>) >>)
    BY <2>1, PlainCompile, PlainEmit, PlainThree DEF HoldsParts
  <2> QED BY <1>7, <2>1, <2>2, StepCalls DEF IndexExpression
<1>8. CASE CallExpression
  <2>1. Node \in Trees /\ Node.type = "CALL" /\ todo # << >> /\ Head(todo).do # "endFunction"
    BY <1>8, VisitedNode DEF CallExpression
  <2> DEFINE items == << Compile(Node.fn) >> \o CompileAll(Node.args)
                      \o << EmitLater(OP.CALL, <<Len(Node.args)>>) >>
  <2>2. Plain(Trees, << Compile(Node.fn) >>) /\ Plain(Trees, CompileAll(Node.args))
    BY <2>1, PlainCompile, PlainCompileAll DEF HoldsParts
  <2>3. Plain(Trees, items)
    BY <2>2, PlainCount, PlainConcat
  <2> QED BY <1>8, <2>1, <2>3, StepCalls DEF CallExpression
<1> QED BY <1>1, <1>2, <1>3, <1>4, <1>5, <1>6, <1>7, <1>8

LEMMA ConditionalStep ==
    ASSUME NEW Trees, HoldsParts(Trees), CompilerInv(Trees),
           IfExpression \/ IfConsequence \/ IfAlternative \/ IfEnd
    PROVE  CompilerInv(Trees)' /\ CodeStays
<1>1. CASE IfExpression
  <2>1. Node \in Trees /\ Node.type = "IF" /\ todo # << >> /\ Head(todo).do # "endFunction"
    BY <1>1, VisitedNode DEF IfExpression
  <2> DEFINE then == [do |-> "consequence", consequence |-> Node.consequence,
                      alternative |-> Node.alternative]
             items == << Compile(Node.condition), then >>
  <2>2. IsItem(Trees, then) /\ Ordinary(then)
    BY <2>1 DEF HoldsParts, IsItem, Ordinary
  <2>3. Call(items) /\ UNCHANGED <<tables, scopes, pool, err>>
    BY <1>1 DEF IfExpression
  <2> HIDE DEF then
  <2>4. Plain(Trees, items)
    BY <2>1, <2>2, PlainCompile, PlainOne, PlainPair DEF HoldsParts
  <2> HIDE DEF items
  <2> QED BY <2>1, <2>3, <2>4, StepCalls
<1>2. CASE IfConsequence
  <2>1. todo # << >> /\ Head(todo).do = "consequence" /\ IsItem(Trees, Head(todo))
    BY <1>2, ResumedCall DEF IfConsequence
  <2> DEFINE else == [do |-> "alternative", alternative |-> Head(todo).alternative,
                      jumpNotTruthy |-> Top.length]
             items == CompileAll(Head(todo).consequence) \o << else >>
             scope == Emit(scopes[Len(scopes)], OP.JUMP_NOT_TRUTHY, BackpatchLater)
  <2>2. IsItem(Trees, else) /\ Ordinary(else)
    BY <2>1 DEF IsItem, Ordinary
  <2>3. /\ Call(items) /\ UNCHANGED <<tables, pool, err>>
        /\ scopes' = [scopes EXCEPT ![Len(scopes)] = scope]
    BY <1>2 DEF IfConsequence, EmitNow
  <2> HIDE DEF else, scope
  <2>4. Plain(Trees, items)
    BY <2>1, <2>2, PlainCompileAll, PlainOne, PlainConcat DEF IsItem
  <2> HIDE DEF items
  <2> QED BY <2>1, <2>3, <2>4, StepEmits
<1>3. CASE IfAlternative
  <2>1. todo # << >> /\ Head(todo).do = "alternative" /\ IsItem(Trees, Head(todo))
    BY <1>3, ResumedCall DEF IfAlternative
  <2> DEFINE this == Head(todo)
             kept == WithoutLastPop(Top)
             jumped == Emit(kept, OP.JUMP, BackpatchLater)
             patched == ChangeOperand(jumped, this.jumpNotTruthy, jumped.length)
             end == [do |-> "endIf", jump |-> kept.length, popped |-> this.alternative # NULL]
  <2>2. IsItem(Trees, end) /\ Ordinary(end)
    BY DEF IsItem, Ordinary
  <2>3. UNCHANGED <<tables, pool, err>>
    BY <1>3 DEF IfAlternative
  <2>4. CASE this.alternative = NULL
    <3>1. /\ scopes' = [scopes EXCEPT ![Len(scopes)] = Emit(patched, OP.NULL, << >>)]
          /\ Call(<< end >>)
      BY <1>3, <2>4 DEF IfAlternative
    <3> HIDE DEF end, patched
    <3>2. Plain(Trees, << end >>)
      BY <2>2, PlainOne
    <3> QED BY <2>1, <2>3, <3>1, <3>2, StepEmits
  <2>5. CASE this.alternative # NULL
    <3>1. /\ scopes' = [scopes EXCEPT ![Len(scopes)] = patched]
          /\ Call(CompileAll(this.alternative) \o << end >>)
      BY <1>3, <2>5 DEF IfAlternative
    <3>2. this.alternative \in Seq(Trees)
      BY <2>1, <2>5 DEF IsItem
    <3> HIDE DEF end, patched
    <3>3. Plain(Trees, CompileAll(this.alternative) \o << end >>)
      BY <2>2, <3>2, PlainCompileAll, PlainOne, PlainConcat
    <3> QED BY <2>1, <2>3, <3>1, <3>3, StepEmits
  <2> QED BY <2>4, <2>5
<1>4. CASE IfEnd
  <2>1. todo # << >> /\ Head(todo).do = "endIf"
    BY <1>4, ResumedCall DEF IfEnd
  <2> DEFINE kept == IF Head(todo).popped THEN WithoutLastPop(Top) ELSE Top
             scope == ChangeOperand(kept, Head(todo).jump, kept.length)
  <2>2. /\ Return /\ UNCHANGED <<tables, pool, err>>
        /\ scopes' = [scopes EXCEPT ![Len(scopes)] = scope]
    BY <1>4 DEF IfEnd
  <2>3. Plain(Trees, << EmitLater(OP.POP, << >>) >>)
    BY PlainEmit
  <2> HIDE DEF scope
  <2> QED BY <2>1, <2>2, <2>3, StepEmits
<1> QED BY <1>1, <1>2, <1>3, <1>4

(* A function literal is entered, with a new table for its end.            *)
LEMMA OpenEntered ==
    ASSUME NEW Trees, NEW ts, Counted(ts), NEW rest, Pending(Trees, rest), OpenTables(ts, rest),
           NEW new, Counted(new), Len(new) = Len(ts) + 1,
           \A k \in 1..Len(ts) : ts[k].num <= new[k].num,
           NEW end, IsItem(Trees, end), end.do = "endFunction", end.params <= new[Len(new)].num
    PROVE  Pending(Trees, << end >> \o rest) /\ OpenTables(new, << end >> \o rest)
<1> DEFINE one == << end >>
           all == one \o rest
<1>1. PICK d : Depths(ts, rest, d)
  BY DEF OpenTables
<1>2. Len(rest) \in Nat /\ Len(ts) \in Nat /\ Len(ts) > 0
  BY SequenceForm DEF Pending, Counted
<1>3. /\ IsSequence(all) /\ Len(all) = Len(rest) + 1
      /\ all[1] = end /\ \A i \in 2..Len(rest) + 1 : all[i] = rest[i-1]
  <2>1. IsSequence(one) /\ Len(one) = 1 /\ one[1] = end
    BY SequenceOfOne
  <2> HIDE DEF one
  <2>2. /\ IsSequence(all) /\ Len(all) = Len(one) + Len(rest)
        /\ \A i \in 1..Len(one) + Len(rest) :
             all[i] = IF i <= Len(one) THEN one[i] ELSE rest[i - Len(one)]
    BY <2>1, SequenceConcat DEF Pending
  <2> HIDE DEF all
  <2> QED BY <1>2, <2>1, <2>2
<1> HIDE DEF all
<1>4. Pending(Trees, all)
  <2>1. ASSUME NEW i \in 1..Len(all) PROVE IsItem(Trees, all[i])
    <3>1. CASE i = 1
      BY <1>3, <3>1
    <3>2. CASE i # 1
      <4>1. i - 1 \in 1..Len(rest) /\ all[i] = rest[i-1]
        BY <1>2, <1>3, <3>2
      <4> QED BY <4>1 DEF Pending
    <3> QED BY <3>1, <3>2
  <2> QED BY <1>3, <2>1 DEF Pending
<1> DEFINE e == [i \in 1..Len(all) + 1 |-> IF i = 1 THEN Len(new) ELSE d[i-1]]
<1>5. /\ \A i \in 2..Len(all) + 1 : e[i] = d[i-1] /\ e[i] \in 1..Len(ts)
      /\ \A i \in 1..Len(all) + 1 : e[i] \in 1..Len(new)
      /\ e[1] = Len(new) /\ e[2] = Len(ts) /\ e[Len(all) + 1] = 1
      /\ e \in [1..Len(all) + 1 -> Nat]
  BY <1>1, <1>2, <1>3 DEF Depths
<1> HIDE DEF e
<1>6. ASSUME NEW i \in 1..Len(all)
      PROVE  /\ Suits(new, all[i], e[i])
             /\ IF all[i].do = "endFunction"
                THEN e[i+1] = e[i] - 1 /\ \A j \in i+1..Len(all) + 1 : e[j] < e[i]
                ELSE e[i+1] = e[i]
  <2>1. CASE i = 1
    <3>1. all[i] = end /\ e[i] = Len(new) /\ e[i+1] = e[i] - 1
      BY <1>2, <1>3, <1>5, <2>1
    <3>2. ASSUME NEW j \in i+1..Len(all) + 1 PROVE e[j] < e[i]
      BY <1>2, <1>3, <1>5, <2>1
    <3>3. Suits(new, all[i], e[i])
      BY <3>1 DEF Suits
    <3> QED BY <3>1, <3>2, <3>3
  <2>2. CASE i # 1
    <3> DEFINE k == i - 1
    <3>1. k \in 1..Len(rest) /\ all[i] = rest[k] /\ i \in 2..Len(all) + 1 /\ i+1 \in 2..Len(all) + 1
      BY <1>2, <1>3, <2>2
    <3>2. e[i] = d[k] /\ e[i+1] = d[k+1] /\ d[k] \in 1..Len(ts)
      <4>1. (i+1) - 1 = k + 1
        BY <1>2
      <4> QED BY <1>5, <3>1, <4>1
    <3>s. Suits(new, all[i], e[i])
      <4>1. Suits(ts, rest[k], d[k]) /\ IsItem(Trees, rest[k])
        <5> HIDE DEF k
        <5> QED BY <1>1, <3>1 DEF Depths, Pending
      <4>2. d[k] <= Len(new) /\ 1 \in 1..Len(ts)
        BY <1>2, <3>2
      <4> HIDE DEF k
      <4>3. Suits(new, rest[k], d[k])
        BY <3>2, <4>1, <4>2, SuitsGrown
      <4> QED BY <3>1, <3>2, <4>3
    <3>3. CASE all[i].do = "endFunction"
      <4>1. d[k+1] = d[k] - 1 /\ \A j \in k+1..Len(rest) + 1 : d[j] < d[k]
        <5> HIDE DEF k
        <5> QED BY <1>1, <3>1, <3>3 DEF Depths
      <4>2. ASSUME NEW j \in i+1..Len(all) + 1 PROVE e[j] < e[i]
        <5>1. /\ j \in 2..Len(all) + 1 /\ j - 1 \in k+1..Len(rest) + 1
          BY <1>2, <1>3, <2>2
        <5>2. e[j] = d[j - 1]
          BY <1>5, <5>1
        <5> QED BY <3>2, <4>1, <5>1, <5>2
      <4> HIDE DEF k
      <4>3. e[i+1] = e[i] - 1
        BY <3>2, <4>1
      <4> QED BY <3>3, <3>s, <4>2, <4>3
    <3>4. CASE all[i].do # "endFunction"
      <4>1. d[k+1] = d[k]
        <5> HIDE DEF k
        <5> QED BY <1>1, <3>1, <3>4 DEF Depths
      <4> QED BY <3>2, <3>4, <3>s, <4>1
    <3> QED BY <3>3, <3>4
  <2> QED BY <2>1, <2>2
<1>7. Depths(new, all, e)
  BY <1>5, <1>6 DEF Depths
<1> QED BY <1>4, <1>7 DEF OpenTables, all, one

LEMMA FunctionLiteralStep ==
    ASSUME NEW Trees, HoldsParts(Trees), CompilerInv(Trees), FunctionLiteral
    PROVE  CompilerInv(Trees)' /\ CodeStays
<1>1. Node \in Trees /\ Node.type = "FN" /\ todo # << >> /\ Head(todo).do # "endFunction"
  BY VisitedNode DEF FunctionLiteral
<1>2. err = NULL /\ err' = NULL
  BY <1>1 DEF CompilerInv, CallsInv, FunctionLiteral
<1> DEFINE entered == Symbols!EnterTable(tables, Node.name)
           end == [do |-> "endFunction", params |-> Len(Node.params)]
           body == CompileAll(Node.body)
           rest == Tail(todo)
<1>3. /\ Counted(entered) /\ Len(entered) = Len(tables) + 1 /\ entered[Len(tables) + 1].num = 0
      /\ \A k \in 1..Len(tables) : entered[k] = tables[k]
  BY EnterCounted DEF CompilerInv
<1>4. Len(tables) \in Nat /\ Len(tables) > 0 /\ \A k \in 1..Len(tables) : tables[k].num \in Nat
  BY SequenceForm DEF CompilerInv, Counted
<1>5. Len(Node.params) \in Nat
  BY <1>1 DEF HoldsParts
<1>6. Grown(entered, tables') /\ tables'[Len(entered)].num = entered[Len(entered)].num + Len(Node.params)
  <2>1. tables' = DefineParameters(entered, Node.params)
    BY DEF FunctionLiteral
  <2> HIDE DEF entered
  <2> QED BY <1>3, <1>5, <2>1, ParametersGrow
<1>7. todo' = (body \o << end >>) \o rest
  BY DEF FunctionLiteral, Call
<1>8. Plain(Trees, body)
  BY <1>1, PlainCompileAll DEF HoldsParts
<1>9. IsItem(Trees, end) /\ end.do = "endFunction" /\ end.params = Len(Node.params)
  BY <1>5 DEF IsItem
<1> HIDE DEF entered, end, body, rest
<1>10. Pending(Trees, rest) /\ OpenTables(tables, rest)
  BY <1>1, <1>2, OpenTail DEF CompilerInv, CallsInv, rest
<1>11. /\ Counted(tables') /\ Len(tables') = Len(tables) + 1
       /\ tables'[Len(tables')].num = Len(Node.params)
       /\ \A k \in 1..Len(tables) : tables[k].num <= tables'[k].num
  <2>1. Counted(tables') /\ Len(tables') = Len(entered)
    BY <1>6 DEF Grown
  <2>2. ASSUME NEW k \in 1..Len(tables) PROVE tables[k].num <= tables'[k].num
    <3>1. k \in 1..Len(entered) /\ entered[k] = tables[k]
      BY <1>3, <1>4
    <3> QED BY <1>6, <3>1 DEF Grown
  <2> QED BY <1>3, <1>5, <1>6, <2>1, <2>2
<1>12. Pending(Trees, << end >> \o rest) /\ OpenTables(tables', << end >> \o rest)
  <2>1. end.params <= tables'[Len(tables')].num
    BY <1>5, <1>9, <1>11
  <2> QED BY <1>9, <1>10, <1>11, <2>1, OpenEntered DEF CompilerInv
<1>13. Pending(Trees, todo') /\ OpenTables(tables', todo')
  <2>1. IsSequence(body) /\ IsSequence(<< end >>) /\ IsSequence(rest)
    BY <1>8, <1>10, SequenceOfOne DEF Plain, Pending
  <2>2. todo' = body \o (<< end >> \o rest)
    BY <1>7, <2>1, SequenceRegroup
  <2> QED BY <1>8, <1>11, <1>12, <2>2, OpenPrepend, PlainCallable
<1>14. CallsInv(Trees)'
  BY <1>2, <1>13 DEF CallsInv
<1>15. ScopesInv'
  <2>1. IsSequence(scopes') /\ Len(scopes') = Len(scopes) + 1
    BY SequenceAppend DEF FunctionLiteral, CompilerInv, ScopesInv
  <2> QED BY <1>11, <2>1 DEF ScopesInv, CompilerInv
<1>16. PoolInv' /\ CodeStays
  <2>1. UNCHANGED pool
    BY DEF FunctionLiteral
  <2> QED BY <1>4, <1>11, <2>1, PoolUnchanged DEF CompilerInv, CodeStays
<1> QED BY <1>11, <1>14, <1>15, <1>16 DEF CompilerInv

(* ... and left: its table is the innermost, its slots hold its parameters.*)
LEMMA FunctionEndStep ==
    ASSUME NEW Trees, CompilerInv(Trees), FunctionEnd
    PROVE  CompilerInv(Trees)' /\ CodeStays
<1>1. todo # << >> /\ Head(todo).do = "endFunction"
  BY ResumedCall DEF FunctionEnd
<1>2. err = NULL /\ err' = NULL
  BY <1>1 DEF CompilerInv, CallsInv, FunctionEnd
<1>3. /\ Pending(Trees, Tail(todo)) /\ Len(tables) > 1
      /\ Head(todo).params <= tables[Len(tables)].num
      /\ OpenTables(OuterTables(tables), Tail(todo))
  BY <1>1, <1>2, OpenTail DEF CompilerInv, CallsInv, Suits
<1>4. /\ tables' = OuterTables(tables) /\ todo' = Tail(todo)
      /\ AddConstant(CompiledFunction(Code(Returning(Top)), tables[Len(tables)].num, Head(todo).params))
  BY DEF FunctionEnd, Return
<1>5. /\ Counted(tables') /\ Len(tables') = Len(tables) - 1
      /\ \A k \in 1..Len(tables) - 1 : tables'[k] = tables[k]
  BY <1>3, <1>4, LeaveCounted DEF CompilerInv
<1>6. CallsInv(Trees)'
  BY <1>2, <1>3, <1>4 DEF CallsInv
<1>7. ScopesInv'
  <2> DEFINE outer == SubSeq(scopes, 1, Len(scopes) - 1)
             loaded == EmitLoads(outer[Len(outer)], tables[Len(tables)].free)
             scope == Emit(loaded, OP.CLOSURE, <<NextConstant, Len(tables[Len(tables)].free)>>)
  <2>1. scopes' = [outer EXCEPT ![Len(outer)] = scope]
    BY DEF FunctionEnd
  <2>2. Len(scopes) \in Nat /\ Len(scopes) = Len(tables) /\ IsSequence(scopes)
    BY SequenceForm DEF CompilerInv, ScopesInv
  <2>3. IsSequence(outer) /\ Len(outer) = Len(scopes) - 1
    BY <1>3, <2>2, SequenceFront
  <2> HIDE DEF scope, outer
  <2>4. Len(outer) \in 1..Len(outer)
    BY <1>3, <2>2, <2>3
  <2>5. IsSequence(scopes') /\ Len(scopes') = Len(outer)
    BY <2>1, <2>3, <2>4, SequenceExcept
  <2> QED BY <1>5, <2>2, <2>3, <2>5 DEF ScopesInv
<1>8. /\ PoolInv' /\ Len(pool) <= Len(pool')
      /\ \A i \in DOMAIN pool : pool'[i] = pool[i]
  <2> DEFINE object == CompiledFunction(Code(Returning(Top)), tables[Len(tables)].num, Head(todo).params)
  <2>1. object.params <= object.locals
    BY <1>3 DEF CompiledFunction
  <2>2. AddConstant(object)
    BY <1>4
  <2> HIDE DEF object
  <2> QED BY <2>1, <2>2, PoolExtended DEF CompilerInv
<1>9. CodeStays
  <2>1. 1 \in 1..Len(tables) - 1 /\ tables[1].num \in Nat
    BY <1>3, SequenceForm DEF CompilerInv, Counted
  <2> QED BY <1>5, <1>8, <2>1 DEF CodeStays
<1> QED BY <1>5, <1>6, <1>7, <1>8, <1>9 DEF CompilerInv

LEMMA CompilerStep ==
    ASSUME NEW Trees, HoldsParts(Trees), CompilerInv(Trees), NextCompiler
    PROVE  CompilerInv(Trees)' /\ CodeStays
<1>1. CASE EmitOperator
  <2>1. todo # << >> /\ Head(todo).do = "emit"
    BY <1>1, ResumedCall DEF EmitOperator
  <2>2. Plain(Trees, << EmitLater(OP.POP, << >>) >>)
    BY PlainEmit
  <2> DEFINE scope == Emit(scopes[Len(scopes)], Head(todo).op, Head(todo).operands)
  <2>3. /\ scopes' = [scopes EXCEPT ![Len(scopes)] = scope]
        /\ Return /\ UNCHANGED <<tables, pool, err>>
    BY <1>1 DEF EmitOperator, EmitNow
  <2> HIDE DEF scope
  <2> QED BY <2>1, <2>2, <2>3, StepEmits
<1>2. CASE BooleanLiteral
  <2>1. todo # << >> /\ Head(todo).do # "endFunction"
    BY <1>2, VisitedNode DEF BooleanLiteral
  <2>2. Plain(Trees, << EmitLater(OP.POP, << >>) >>)
    BY PlainEmit
  <2> DEFINE scope == Emit(scopes[Len(scopes)], IF Node.bool THEN OP.TRUE ELSE OP.FALSE, << >>)
  <2>3. /\ scopes' = [scopes EXCEPT ![Len(scopes)] = scope]
        /\ Return /\ UNCHANGED <<tables, pool, err>>
    BY <1>2 DEF BooleanLiteral, EmitNow
  <2> HIDE DEF scope
  <2> QED BY <2>1, <2>2, <2>3, StepEmits
<1> QED BY <1>1, <1>2, LetStep, ConstantStep, IdentifierStep, OperandsStep, ConditionalStep,
           FunctionLiteralStep, FunctionEndStep DEF NextCompiler

(* A program is entered: for the first time, or after another one.         *)
LEMMA Entered ==
    ASSUME NEW Trees, NEW program \in Seq(Trees), NEW ts, Counted(ts), Len(ts) = 1
    PROVE  Pending(Trees, CompileAll(program)) /\ OpenTables(ts, CompileAll(program))
<1> DEFINE items == CompileAll(program)
<1>1. Plain(Trees, items)
  BY PlainCompileAll
<1> HIDE DEF items
<1>2. Len(items) \in Nat
  BY <1>1, SequenceForm DEF Plain, Pending
<1> DEFINE d == [i \in 1..Len(items) + 1 |-> 1]
<1>3. /\ d \in [1..Len(items) + 1 -> Nat] /\ \A i \in 1..Len(items) + 1 : d[i] = 1
      /\ 1 \in 1..Len(items) + 1 /\ Len(items) + 1 \in 1..Len(items) + 1
  BY <1>2
<1> HIDE DEF d
<1>4. ASSUME NEW i \in 1..Len(items)
      PROVE  d[i+1] = d[i] /\ items[i].do # "endFunction" /\ Suits(ts, items[i], d[i])
  <2>1. i \in 1..Len(items) + 1 /\ i+1 \in 1..Len(items) + 1
    BY <1>2
  <2>2. Callable(Trees, ts, items)
    BY <1>1, PlainCallable
  <2> QED BY <1>3, <2>1, <2>2 DEF Callable
<1>5. Depths(ts, items, d)
  BY <1>3, <1>4 DEF Depths
<1> QED BY <1>1, <1>5 DEF OpenTables, Plain, items

LEMMA OneTable ==
    ASSUME NEW t, t.num \in Nat
    PROVE  Counted(<< t >>) /\ Len(<< t >>) = 1
BY SequenceOfOne DEF Counted

LEMMA CompilerBegins ==
    ASSUME NEW Trees, Programs \subseteq Seq(Trees), InitCompiler
    PROVE  CompilerInv(Trees)
<1>1. PICK program \in Programs : todo = CompileAll(program)
  BY DEF InitCompiler
<1>2. Counted(tables) /\ Len(tables) = 1
  BY OneTable DEF InitCompiler, Symbols!BuiltinTable
<1>3. CallsInv(Trees)
  BY <1>1, <1>2, Entered DEF CallsInv, InitCompiler
<1>4. ScopesInv
  BY <1>2, SequenceOfOne DEF ScopesInv, InitCompiler
<1>5. PoolInv
  <2>1. IsSequence(<< >>) /\ Len(<< >>) = 0
    BY EmptySeq DEF IsSequence
  <2> QED BY <2>1 DEF PoolInv, InitCompiler
<1> QED BY <1>2, <1>3, <1>4, <1>5 DEF CompilerInv

(* Whatever the programs are, every function literal that is entered is    *)
(* left again, on its own table and buffer, and a compiled function has a  *)
(* slot for each of its parameters.                                        *)
THEOREM FunctionsAreClosed ==
    ASSUME NEW CONSTANT Trees, HoldsParts(Trees), Programs \subseteq Seq(Trees)
    PROVE  SpecCompiler => []FunctionsClosed
<1>1. InitCompiler => CompilerInv(Trees)
  BY CompilerBegins
<1>2. CompilerInv(Trees) /\ [NextCompiler]_compilerVars => CompilerInv(Trees)'
  <2>1. CASE UNCHANGED compilerVars
    BY <2>1 DEF compilerVars, CompilerInv, CallsInv, ScopesInv, PoolInv
  <2> QED BY <2>1, CompilerStep
<1>3. CompilerInv(Trees) => FunctionsClosed
  BY InvClosed
<1> QED BY <1>1, <1>2, <1>3, PTL DEF SpecCompiler

-----------------------------------------------------------------------------
(* The same over the lines of a session, whichever of them fail *)

LEMMA MachineKeepsPool ==
    ASSUME VM!NextVm
    PROVE  UNCHANGED pool
BY DEF VM!NextVm,
    VM!PushConstant, VM!PushLiteral, VM!BinaryOperation, VM!Comparison,
       VM!Minus, VM!Bang, VM!BuildArray, VM!BuildHash, VM!IndexOperation,
       VM!Pop, VM!Jump, VM!JumpNotTruthy, VM!GetGlobal, VM!SetGlobal,
       VM!GetLocal, VM!SetLocal, VM!PushClosure, VM!CurrentClosure,
       VM!GetFree, VM!GetBuiltin, VM!CallClosure, VM!CallBuiltinFn,
       VM!CallOther, VM!ReturnValue, VM!Return, VM!Halt

SessionInv(Trees) ==
    /\ CompilerInv(Trees)
    /\ session \in Seq(Seq(Trees)) /\ line \in Nat

LEMMA LineBegins ==
    ASSUME NEW Trees, SessionInv(Trees), ReadLine
    PROVE  SessionInv(Trees)' /\ CodeStays
<1>1. /\ line' = line + 1 /\ line < Len(session) /\ session' = session
      /\ Begin(session[line'])
  BY DEF ReadLine
<1>2. line' \in 1..Len(session)
  BY <1>1 DEF SessionInv
<1> DEFINE program == session[line']
<1>3. program \in Seq(Trees)
  BY <1>2 DEF SessionInv
<1>4. /\ todo' = CompileAll(program) /\ tables' = << tables[1] >>
      /\ scopes' = << EmptyScope >> /\ err' = NULL /\ UNCHANGED pool
  BY <1>1 DEF Begin, GlobalTable
<1> HIDE DEF program
<1>5. tables[1].num \in Nat
  BY SequenceForm DEF SessionInv, CompilerInv, Counted
<1>6. Counted(tables') /\ Len(tables') = 1 /\ tables'[1] = tables[1]
  BY <1>4, <1>5, OneTable
<1>7. CallsInv(Trees)'
  BY <1>3, <1>4, <1>6, Entered DEF CallsInv
<1>8. ScopesInv'
  BY <1>4, <1>6, SequenceOfOne DEF ScopesInv
<1>9. PoolInv' /\ CodeStays
  BY <1>4, <1>5, <1>6, PoolUnchanged DEF SessionInv, CompilerInv, CodeStays
<1> QED BY <1>1, <1>2, <1>6, <1>7, <1>8, <1>9 DEF SessionInv, CompilerInv

LEMMA NothingCompiled ==
    ASSUME NEW Trees, SessionInv(Trees), UNCHANGED <<compilerVars, session, line>>
    PROVE  SessionInv(Trees)' /\ CodeStays
<1>1. SessionInv(Trees)'
  BY DEF compilerVars, SessionInv, CompilerInv, CallsInv, ScopesInv, PoolInv
<1>2. tables[1].num \in Nat
  BY SequenceForm DEF SessionInv, CompilerInv, Counted
<1>3. CodeStays
  BY <1>2, PoolUnchanged DEF compilerVars, SessionInv, CompilerInv, CodeStays
<1> QED BY <1>1, <1>3

LEMMA SessionStep ==
    ASSUME NEW Trees, HoldsParts(Trees), SessionInv(Trees), [Next]_monkeyVars
    PROVE  SessionInv(Trees)' /\ CodeStays
<1>1. CASE CompileStep
  <2>1. CompilerInv(Trees)' /\ CodeStays
    BY <1>1, CompilerStep DEF CompileStep, SessionInv
  <2> QED BY <1>1, <2>1 DEF CompileStep, SessionInv
<1>2. CASE MachineStep
  <2>1. UNCHANGED <<compilerVars, session, line>>
    BY <1>2, MachineKeepsPool DEF MachineStep, compilerVars
  <2> QED BY <2>1, NothingCompiled
<1>3. CASE CompilationFailed \/ ArrayOverrun \/ Execute \/ Report \/ UNCHANGED monkeyVars
  <2>1. UNCHANGED <<compilerVars, session, line>>
    BY <1>3 DEF CompilationFailed, ArrayOverrun, Execute, Report, monkeyVars
  <2> QED BY <2>1, NothingCompiled
<1> QED BY <1>1, <1>2, <1>3, LineBegins DEF Next

LEMMA SessionBegins ==
    ASSUME NEW Trees, Sessions \subseteq Seq(Seq(Trees)), Init
    PROVE  SessionInv(Trees)
<1>1. Counted(tables) /\ Len(tables) = 1
  BY OneTable DEF Init, Symbols!BuiltinTable
<1>2. IsSequence(<< >>) /\ Len(<< >>) = 0
  BY EmptySeq DEF IsSequence
<1>3. CallsInv(Trees)
  <2>1. << >> \in Seq(Trees) /\ CompileAll(<< >>) = << >>
    BY DEF CompileAll
  <2>2. Pending(Trees, << >>) /\ OpenTables(tables, << >>)
    BY <1>1, <2>1, Entered
  <2> QED BY <2>2 DEF CallsInv, Init
<1>4. ScopesInv
  BY <1>1, SequenceOfOne DEF ScopesInv, Init
<1>5. PoolInv
  BY <1>2 DEF PoolInv, Init
<1> QED BY <1>1, <1>3, <1>4, <1>5 DEF SessionInv, CompilerInv, Init

(* A session of any lines, as far as it does not write past the pool's     *)
(* array: what its lines compile rests on the functions and constants of   *)
(* the earlier ones and on their globals' slots, and no line, whether it   *)
(* fails or not, changes these.                                            *)
THEOREM EarlierCodeIsKept ==
    ASSUME NEW CONSTANT Trees, HoldsParts(Trees), Sessions \subseteq Seq(Seq(Trees))
    PROVE  Spec => EarlierCodeStays
<1>1. Init => SessionInv(Trees)
  BY SessionBegins
<1>2. SessionInv(Trees) /\ [Next]_monkeyVars => SessionInv(Trees)'
  BY SessionStep
<1>3. SessionInv(Trees) /\ [Next]_monkeyVars =>
        [/\ Len(pool) <= Len(pool') /\ \A i \in DOMAIN pool : pool'[i] = pool[i]
         /\ tables[1].num <= tables'[1].num]_monkeyVars
  BY SessionStep DEF CodeStays
<1> QED BY <1>1, <1>2, <1>3, PTL DEF Spec, EarlierCodeStays

(* Over the lines of a session, too, no function stays open: after a line  *)
(* that failed within functions the next one begins in the program.        *)
THEOREM FunctionsAreClosedInSessions ==
    ASSUME NEW CONSTANT Trees, HoldsParts(Trees), Sessions \subseteq Seq(Seq(Trees))
    PROVE  Spec => []FunctionsClosed
<1>1. Init => SessionInv(Trees)
  BY SessionBegins
<1>2. SessionInv(Trees) /\ [Next]_monkeyVars => SessionInv(Trees)'
  BY SessionStep
<1>3. SessionInv(Trees) => FunctionsClosed
  BY InvClosed DEF SessionInv
<1> QED BY <1>1, <1>2, <1>3, PTL DEF Spec

-----------------------------------------------------------------------------
(* One scope: what is written in its buffer and what becomes of its code *)

Note == [op : OpCode \cup {NULL}, pos : Nat]
ScopeSet == [bytes : Seq(Byte), length : Nat, last : Note, prev : Note]
IsScope(s) == s \in ScopeSet /\ s.length <= Len(s.bytes)

Renoted(s, n, note) == [s EXCEPT !.length = n, !.last = note]

LEMMA Noted ==
    ASSUME NEW s \in ScopeSet, NEW n \in Nat, NEW note \in Note
    PROVE  LET new == Renoted(s, n, note)
           IN  /\ new \in ScopeSet /\ new.length = n /\ new.last = note
               /\ new.bytes = s.bytes /\ new.prev = s.prev
BY DEF ScopeSet, Renoted

LEMMA CodeOfScope ==
    ASSUME NEW s, IsScope(s)
    PROVE  /\ Code(s) \in Seq(Byte) /\ Len(Code(s)) = s.length
           /\ \A i \in 1..s.length : Code(s)[i] = s.bytes[i]
<1> DEFINE bytes == s.bytes
           n == s.length
<1>1. bytes \in Seq(Byte) /\ n \in Nat /\ n <= Len(bytes)
  BY DEF IsScope, ScopeSet
<1> HIDE DEF bytes, n
<1>2. /\ SubSeq(bytes, 1, n) \in Seq(Byte) /\ Len(SubSeq(bytes, 1, n)) = n
      /\ \A i \in 1..n : SubSeq(bytes, 1, n)[i] = bytes[i]
  BY <1>1
<1> QED BY <1>2 DEF Code, bytes, n

(* Bytes written within the buffer or at its end.                          *)
LEMMA Written ==
    ASSUME NEW bytes \in Seq(Byte), NEW pos \in Nat, pos <= Len(bytes), NEW new \in Seq(Byte)
    PROVE  LET all == WriteAt(bytes, pos, new)
               end == pos + Len(new)
           IN  /\ all \in Seq(Byte)
               /\ Len(all) = IF end <= Len(bytes) THEN Len(bytes) ELSE end
               /\ \A i \in 1..pos : all[i] = bytes[i]
               /\ \A i \in 1..Len(new) : all[pos + i] = new[i]
               /\ \A i \in end + 1..Len(bytes) : all[i] = bytes[i]
<1> DEFINE n == Len(bytes)
           m == Len(new)
           end == pos + m
           before == SubSeq(bytes, 1, pos)
           after == SubSeq(bytes, end + 1, n)
           half == before \o new
           all == half \o after
           rest == IF end <= n THEN n - end ELSE 0
<1>1. n \in Nat /\ m \in Nat /\ end \in Nat /\ pos <= n
  OBVIOUS
<1>2. before \in Seq(Byte) /\ Len(before) = pos /\ \A i \in 1..pos : before[i] = bytes[i]
  OBVIOUS
<1>e. end = pos + m /\ rest = IF end <= n THEN n - end ELSE 0
  OBVIOUS
<1> HIDE DEF end, rest
<1>3. /\ after \in Seq(Byte) /\ Len(after) = rest
      /\ \A i \in 1..rest : after[i] = bytes[end + i]
  BY <1>1, <1>e
<1> HIDE DEF before, after, n, m
<1>4. /\ half \in Seq(Byte) /\ Len(half) = end
      /\ \A i \in 1..pos : half[i] = before[i]
      /\ \A i \in 1..m : half[pos + i] = new[i]
  <2>1. Len(before) = pos /\ Len(new) = m
    BY <1>2 DEF m
  <2>2. before \in Seq(Byte)
    BY <1>2
  <2>3. half \in Seq(Byte) /\ Len(half) = Len(before) + Len(new)
    BY <2>2
  <2>4. \A i \in 1..Len(before) : half[i] = before[i]
    BY <2>2
  <2>5. \A i \in 1..Len(new) : half[Len(before) + i] = new[i]
    BY <2>2
  <2> HIDE DEF half
  <2> QED BY <1>e, <2>1, <2>3, <2>4, <2>5
<1> HIDE DEF half
<1>5. /\ all \in Seq(Byte) /\ Len(all) = end + rest
      /\ \A i \in 1..end : all[i] = half[i]
      /\ \A i \in 1..rest : all[end + i] = after[i]
  <2>1. half \in Seq(Byte) /\ after \in Seq(Byte) /\ Len(half) = end /\ Len(after) = rest
    BY <1>3, <1>4
  <2>a. half \in Seq(Byte) /\ after \in Seq(Byte)
    BY <2>1
  <2>2. all \in Seq(Byte) /\ Len(all) = Len(half) + Len(after)
    BY <2>a
  <2>3. \A i \in 1..Len(half) : all[i] = half[i]
    BY <2>a
  <2>4. \A i \in 1..Len(after) : all[Len(half) + i] = after[i]
    BY <2>a
  <2> HIDE DEF all
  <2> QED BY <2>1, <2>2, <2>3, <2>4
<1>6. all = WriteAt(bytes, pos, new)
  BY DEF WriteAt, half, before, after, n, end, m
<1> HIDE DEF all
<1>7. \A i \in 1..pos : all[i] = bytes[i]
  BY <1>1, <1>2, <1>4, <1>5, <1>e
<1>8. \A i \in 1..m : all[pos + i] = new[i]
  BY <1>1, <1>4, <1>5, <1>e
<1>9. \A i \in end + 1..n : all[i] = bytes[i]
  <2>1. ASSUME NEW i \in end + 1..n PROVE all[i] = bytes[i]
    <3>1. i - end \in 1..rest /\ end + (i - end) = i
      BY <1>1, <1>e
    <3>2. all[end + (i - end)] = after[i - end] /\ after[i - end] = bytes[end + (i - end)]
      BY <1>3, <1>5, <3>1
    <3> QED BY <3>1, <3>2
  <2> QED BY <2>1
<1>10. Len(all) = IF end <= n THEN n ELSE end
  BY <1>1, <1>5, <1>e
<1> QED BY <1>5, <1>6, <1>7, <1>8, <1>9, <1>10 DEF end, n, m

(* emit.  A length that would pass its byte begins again from 0.           *)
LEMMA EmitFields ==
    ASSUME NEW s, IsScope(s), NEW op, NEW xs, Takes(op, xs)
    PROVE  LET new == Emit(s, op, xs)
           IN  /\ IsScope(new) /\ Len(s.bytes) <= Len(new.bytes)
               /\ s.length + InstructionLength(op) <= Len(new.bytes)
               /\ new.last = [op |-> op, pos |-> s.length] /\ new.prev = s.last
               /\ s.length + InstructionLength(op) < 256 =>
                    /\ new.length = s.length + InstructionLength(op)
                    /\ Code(new) = Code(s) \o Make(op, xs)
<1> DEFINE made == Make(op, xs)
           size == InstructionLength(op)
           n == s.length
           bytes == s.bytes
           new == Emit(s, op, xs)
           all == WriteAt(bytes, n, made)
<1>1. made \in Seq(Byte) /\ Len(made) = size /\ size \in 1..4
  BY LaidBytes, LengthOfInstruction
<1>2. bytes \in Seq(Byte) /\ n \in Nat /\ n <= Len(bytes) /\ s.last \in Note
  BY DEF IsScope, ScopeSet
<1>3. new = [bytes |-> all, length |-> UInt8(n + Len(made)), prev |-> s.last,
             last |-> [op |-> op, pos |-> n]]
  BY DEF Emit
<1> HIDE DEF made, size, n, bytes, new, all
<1>4. /\ all \in Seq(Byte) /\ Len(all) >= Len(bytes) /\ Len(all) >= n + size
      /\ \A i \in 1..n : all[i] = bytes[i]
      /\ \A i \in 1..size : all[n + i] = made[i]
  <2>1. LET end == n + Len(made)
        IN  /\ all \in Seq(Byte)
            /\ Len(all) = IF end <= Len(bytes) THEN Len(bytes) ELSE end
            /\ \A i \in 1..n : all[i] = bytes[i]
            /\ \A i \in 1..Len(made) : all[n + i] = made[i]
    BY <1>1, <1>2, Written, Zenon DEF all
  <2>2. Len(bytes) \in Nat
    BY <1>2
  <2> QED BY <1>1, <1>2, <2>1, <2>2
<1>5. UInt8(n + size) \in 0..n + size /\ (n + size < 256 => UInt8(n + size) = n + size)
  <2>1. \A k \in Nat : k % 256 \in 0..k /\ (k < 256 => k % 256 = k)
    OBVIOUS
  <2> QED BY <1>1, <1>2, <2>1 DEF UInt8
<1>6. [op |-> op, pos |-> n] \in Note
  BY <1>2 DEF Note, Takes
<1>7. /\ new.bytes = all /\ new.length = UInt8(n + size) /\ new.prev = s.last
      /\ new.last = [op |-> op, pos |-> n]
  BY <1>1, <1>3, Zenon
<1>8. IsScope(new)
  <2>1. UInt8(n + size) \in Nat /\ UInt8(n + size) <= Len(all)
    BY <1>1, <1>2, <1>4, <1>5
  <2>2. new \in ScopeSet
    BY <1>1, <1>2, <1>3, <1>4, <1>6, <2>1 DEF ScopeSet
  <2> QED BY <1>7, <2>1, <2>2 DEF IsScope
<1>9. ASSUME n + size < 256 PROVE Code(new) = Code(s) \o made
  <2>1. new.length = n + size
    BY <1>5, <1>7, <1>9
  <2>2. /\ Code(new) \in Seq(Byte) /\ Len(Code(new)) = n + size
        /\ \A i \in 1..n + size : Code(new)[i] = all[i]
    BY <1>7, <1>8, <2>1, CodeOfScope
  <2>3. Code(s) \in Seq(Byte) /\ Len(Code(s)) = n /\ \A i \in 1..n : Code(s)[i] = bytes[i]
    BY CodeOfScope DEF n, bytes
  <2> DEFINE both == Code(s) \o made
  <2>4. /\ both \in Seq(Byte) /\ Len(both) = n + size
        /\ \A i \in 1..n : both[i] = bytes[i]
        /\ \A i \in 1..size : both[n + i] = made[i]
    BY <1>1, <1>2, <2>3
  <2> HIDE DEF both
  <2>5. ASSUME NEW i \in 1..n + size PROVE Code(new)[i] = both[i]
    <3>1. CASE i <= n
      BY <1>4, <2>2, <2>4, <3>1
    <3>2. CASE ~(i <= n)
      <4>1. i - n \in 1..size /\ n + (i - n) = i
        BY <1>1, <1>2, <3>2
      <4>2. all[n + (i - n)] = made[i - n] /\ both[n + (i - n)] = made[i - n]
        BY <1>4, <2>4, <4>1
      <4> QED BY <2>2, <4>1, <4>2
    <3> QED BY <3>1, <3>2
  <2>6. Code(new) = both
    BY <2>2, <2>4, <2>5, SeqEqual
  <2> QED BY <2>6 DEF both
<1> QED BY <1>4, <1>5, <1>7, <1>8, <1>9 DEF made, size, n, bytes, new, all

(* remove_last_pop                                                         *)
LEMMA RemoveFields ==
    ASSUME NEW s, IsScope(s), s.length > 0, s.length < 256
    PROVE  LET new == RemoveLastPop(s)
           IN  /\ IsScope(new) /\ new.bytes = s.bytes /\ new.length = s.length - 1
               /\ new.last = s.prev
               /\ Code(new) = SubSeq(Code(s), 1, s.length - 1)
<1> DEFINE n == s.length
           bytes == s.bytes
           new == RemoveLastPop(s)
<1>1. bytes \in Seq(Byte) /\ n \in Nat /\ n <= Len(bytes) /\ n > 0 /\ n < 256
  BY DEF IsScope, ScopeSet
<1>2. UInt8(n - 1) = n - 1
  BY <1>1 DEF UInt8
<1>3. new \in ScopeSet /\ new.bytes = bytes /\ new.length = n - 1 /\ new.last = s.prev
  <2>1. s \in ScopeSet /\ s.prev \in Note /\ n - 1 \in Nat
    BY <1>1 DEF IsScope, ScopeSet
  <2>2. new = Renoted(s, n - 1, s.prev)
    BY <1>2, Zenon DEF RemoveLastPop, Renoted
  <2> HIDE DEF new, n
  <2> QED BY <2>1, <2>2, Noted
<1> HIDE DEF new, n, bytes
<1>4. IsScope(new)
  BY <1>1, <1>3 DEF IsScope
<1>5. Code(new) = SubSeq(bytes, 1, n - 1)
  BY <1>3 DEF Code
<1>6. SubSeq(bytes, 1, n - 1) = SubSeq(SubSeq(bytes, 1, n), 1, n - 1)
  <2> DEFINE a == SubSeq(bytes, 1, n - 1)
             b == SubSeq(bytes, 1, n)
             c == SubSeq(b, 1, n - 1)
  <2>1. a \in Seq(Byte) /\ Len(a) = n - 1 /\ \A i \in 1..n - 1 : a[i] = bytes[i]
    BY <1>1
  <2>2. b \in Seq(Byte) /\ Len(b) = n /\ \A i \in 1..n : b[i] = bytes[i]
    BY <1>1
  <2> HIDE DEF b
  <2>3. c \in Seq(Byte) /\ Len(c) = n - 1 /\ \A i \in 1..n - 1 : c[i] = b[i]
    BY <1>1, <2>2
  <2> HIDE DEF a, c
  <2>4. \A i \in 1..n - 1 : a[i] = c[i]
    BY <1>1, <2>1, <2>2, <2>3
  <2>5. a = c
    BY <2>1, <2>3, <2>4, SeqEqual
  <2> QED BY <2>5 DEF a, b, c
<1> QED BY <1>3, <1>4, <1>5, <1>6 DEF new, n, bytes, Code

(* An instruction is written over one that is there.                       *)
LEMMA WriteFields ==
    ASSUME NEW s, IsScope(s), NEW pos \in Nat, NEW op, NEW xs, Takes(op, xs),
           pos + InstructionLength(op) <= s.length,
           NEW new, new \in ScopeSet, new.length = s.length,
           new.bytes = WriteAt(s.bytes, pos, Make(op, xs))
    PROVE  /\ IsScope(new) /\ Len(new.bytes) = Len(s.bytes)
           /\ Code(new) = Overwritten(Code(s), pos, Make(op, xs))
<1> DEFINE made == Make(op, xs)
           size == InstructionLength(op)
           n == s.length
           bytes == s.bytes
           all == WriteAt(bytes, pos, made)
           over == Overwritten(Code(s), pos, made)
<1>1. made \in Seq(Byte) /\ Len(made) = size /\ size \in 1..4
  BY LaidBytes, LengthOfInstruction
<1>2. bytes \in Seq(Byte) /\ n \in Nat /\ n <= Len(bytes) /\ pos + size <= n
  BY DEF IsScope, ScopeSet
<1>3. Code(s) \in Seq(Byte) /\ Len(Code(s)) = n /\ \A i \in 1..n : Code(s)[i] = bytes[i]
  BY CodeOfScope
<1>4. /\ over \in Seq(Byte) /\ Len(over) = n /\ Holding(over, pos, op, xs)
      /\ \A i \in 1..pos : over[i] = Code(s)[i]
      /\ \A i \in pos + size + 1..n : over[i] = Code(s)[i]
  BY <1>2, <1>3, CodeOverwritten
<1>5. \A i \in 1..size : over[pos + i] = made[i]
  BY <1>4 DEF Holding
<1>6. new.bytes = all /\ new.length = n
  OBVIOUS
<1> HIDE DEF made, size, n, bytes, all, over
<1>7. /\ all \in Seq(Byte) /\ Len(all) = Len(bytes)
      /\ \A i \in 1..pos : all[i] = bytes[i]
      /\ \A i \in 1..size : all[pos + i] = made[i]
      /\ \A i \in pos + size + 1..Len(bytes) : all[i] = bytes[i]
  <2>1. pos <= Len(bytes) /\ pos + Len(made) <= Len(bytes)
    BY <1>1, <1>2
  <2>2. /\ all \in Seq(Byte)
        /\ Len(all) = IF pos + Len(made) <= Len(bytes) THEN Len(bytes) ELSE pos + Len(made)
        /\ \A i \in 1..pos : all[i] = bytes[i]
        /\ \A i \in 1..Len(made) : all[pos + i] = made[i]
        /\ \A i \in pos + Len(made) + 1..Len(bytes) : all[i] = bytes[i]
    BY <1>1, <1>2, <2>1, Written DEF all
  <2> QED BY <1>1, <2>1, <2>2
<1>8. IsScope(new)
  BY <1>2, <1>6, <1>7 DEF IsScope
<1>9. Code(new) \in Seq(Byte) /\ Len(Code(new)) = n /\ \A i \in 1..n : Code(new)[i] = all[i]
  BY <1>6, <1>8, CodeOfScope
<1>10. ASSUME NEW i \in 1..n PROVE Code(new)[i] = over[i]
  <2>1. CASE i <= pos
    <3>1. i \in 1..pos
      BY <2>1
    <3> QED BY <1>2, <1>3, <1>4, <1>7, <1>9, <3>1
  <2>2. CASE i > pos /\ i <= pos + size
    <3>1. i - pos \in 1..size /\ pos + (i - pos) = i
      BY <1>1, <1>2, <2>2
    <3>2. all[pos + (i - pos)] = made[i - pos] /\ over[pos + (i - pos)] = made[i - pos]
      BY <1>5, <1>7, <3>1
    <3> QED BY <1>9, <3>1, <3>2
  <2>3. CASE i > pos + size
    <3>1. i \in pos + size + 1..n /\ i \in pos + size + 1..Len(bytes)
      BY <1>1, <1>2, <2>3
    <3> QED BY <1>2, <1>3, <1>4, <1>7, <1>9, <3>1
  <2> QED BY <1>1, <2>1, <2>2, <2>3
<1>11. Code(new) = over
  BY <1>4, <1>9, <1>10, SeqEqual
<1> QED BY <1>6, <1>7, <1>8, <1>11 DEF over, made, bytes

-----------------------------------------------------------------------------
(* A scope with a certificate for its code *)

(* The note of the instruction that ends at n is true.                     *)
NoteAt(code, D, n, note) ==
    n > 0 => /\ note.pos \in DOMAIN D /\ ByteAt(code, note.pos) = note.op
             /\ note.pos + InstructionLength(note.op) = n

Good(s, D, open) ==
    /\ IsScope(s) /\ Len(s.bytes) < 256
    /\ Sound(Code(s), D, open) /\ NoteAt(Code(s), D, s.length, s.last)

(* A statement has ended in an instruction that takes its value, which can *)
(* be had back: no jump passes that instruction.                           *)
TakesValue == {OP.POP, OP.RETURN_VALUE}
ValueThere(s, D, open) ==
    /\ s.length > 0 /\ s.last.op \in TakesValue
    /\ TargetsUpTo(Code(s), D, open, s.last.pos)
    /\ D[s.last.pos] = D[s.length] + 1
    /\ s.last.op = OP.POP => NoteAt(Code(s), D, s.length - 1, s.prev)

NoValue(s) == s.length = 0 \/ s.last.op \notin TakesValue

LEMMA GoodScope ==
    ASSUME NEW s, NEW D, NEW J, Good(s, D, J)
    PROVE  /\ IsScope(s) /\ s.length \in Nat /\ s.length < 256 /\ s.length <= Len(s.bytes)
           /\ Code(s) \in Seq(Byte) /\ Len(Code(s)) = s.length
           /\ DOMAIN D \subseteq 0..s.length /\ 0 \in DOMAIN D /\ s.length \in DOMAIN D
           /\ \A p \in DOMAIN D : D[p] \in 0..p
<1>1. IsScope(s) /\ Len(s.bytes) < 256 /\ Sound(Code(s), D, J)
  BY DEF Good
<1>2. s.length \in Nat /\ s.length <= Len(s.bytes) /\ Len(s.bytes) \in Nat
  BY <1>1 DEF IsScope, ScopeSet
<1>3. Code(s) \in Seq(Byte) /\ Len(Code(s)) = s.length
  BY <1>1, CodeOfScope
<1>4. /\ DOMAIN D \subseteq 0..s.length /\ 0 \in DOMAIN D /\ s.length \in DOMAIN D
      /\ \A p \in DOMAIN D : D[p] \in 0..p
  BY <1>1, <1>3 DEF Sound
<1>5. s.length < 256
  BY <1>1, <1>2
<1> QED BY <1>1, <1>2, <1>3, <1>4, <1>5

LEMMA GoodOpen ==
    ASSUME NEW s, NEW D, NEW J, NEW K, J \subseteq K
    PROVE  /\ Good(s, D, J) => Good(s, D, K)
           /\ ValueThere(s, D, J) => ValueThere(s, D, K)
<1>1. Sound(Code(s), D, J) => Sound(Code(s), D, K)
  BY SoundOpen
<1>2. TargetsUpTo(Code(s), D, J, s.last.pos) => TargetsUpTo(Code(s), D, K, s.last.pos)
  BY DEF TargetsUpTo
<1> QED BY <1>1, <1>2, Zenon DEF Good, ValueThere

LEMMA CountsFew ==
    ASSUME NEW op, NEW xs, Takes(op, xs), Needs(op, xs) < 256
    PROVE  Counts(op, xs)
<1>1. ASSUME op \in {OP.ARRAY, OP.HASH} PROVE Needs(op, xs) = xs[1]
  BY <1>1, Opcodes DEF Needs, Loads, BinaryOps
<1>2. ASSUME op = OP.CALL PROVE Needs(op, xs) = xs[1] + 1 /\ xs[1] \in Nat
  <2>1. Needs(op, xs) = xs[1] + 1
    BY <1>2, Opcodes DEF Needs, Loads, BinaryOps
  <2>2. Width(op, 1) = 1
    BY <1>2, WidthsOf DEF OneByteOps
  <2>3. Len(Widths(op)) >= 1
    BY <2>2, Shapes
  <2>4. xs \in Seq(Nat) /\ Len(xs) >= 1
    BY <2>3 DEF Takes
  <2>5. xs[1] \in Nat
    BY <2>4, ElementOfSeq
  <2> QED BY <2>1, <2>5
<1>3. ASSUME op = OP.CLOSURE PROVE Needs(op, xs) = xs[2]
  BY <1>3, Opcodes DEF Needs, Loads, BinaryOps
<1>4. Needs(op, xs) \in Nat
  BY NeedsNumber
<1>5. op \in {OP.ARRAY, OP.HASH} => xs[1] < 65536
  BY <1>1, <1>4
<1>6. op = OP.CALL => xs[1] < 256
  BY <1>2, <1>4
<1>7. op = OP.CLOSURE => xs[2] < 256
  BY <1>3
<1> QED BY <1>5, <1>6, <1>7 DEF Counts

SameFirst(code, other, n) == \A i \in 1..n : other[i] = code[i]

(* The note of an instruction stays true while code is appended.           *)
LEMMA NoteStays ==
    ASSUME NEW code \in Seq(Byte), NEW D, DOMAIN D \subseteq Nat, NEW n \in Nat, n <= Len(code),
           NEW note, NoteAt(code, D, n, note),
           NEW new, SameFirst(code, new, n), NEW E, DOMAIN D \subseteq DOMAIN E
    PROVE  NoteAt(new, E, n, note)
<1>1. SUFFICES ASSUME n > 0
               PROVE  /\ note.pos \in DOMAIN E /\ ByteAt(new, note.pos) = note.op
                      /\ note.pos + InstructionLength(note.op) = n
  BY DEF NoteAt
<1>2. /\ note.pos \in DOMAIN D /\ ByteAt(code, note.pos) = note.op
      /\ note.pos + InstructionLength(note.op) = n
  BY <1>1 DEF NoteAt
<1>3. InstructionLength(note.op) \in 1..4
  BY LengthOfInstruction
<1>4. note.pos + 1 \in 1..n
  BY <1>2, <1>3
<1>5. ByteAt(new, note.pos) = ByteAt(code, note.pos)
  BY <1>4 DEF ByteAt, SameFirst
<1> QED BY <1>2, <1>5

(* An instruction is emitted.                                              *)
LEMMA Emitted ==
    ASSUME NEW s, NEW D, NEW J, Good(s, D, J),
           NEW op, NEW xs, Takes(op, xs), NEW h, MayFollow(Code(s), D, op, xs, h),
           NEW K, J \subseteq K, op \in Jumps => s.length \in K,
           Len(Emit(s, op, xs).bytes) < 256
    PROVE  LET new == Emit(s, op, xs)
           IN  \E E : /\ Good(new, E, K) /\ Keeps(Code(s), D, Code(new), E)
                      /\ E[new.length] = h /\ new.length = s.length + InstructionLength(op)
                      /\ s.length \in DOMAIN E /\ E[s.length] = D[s.length]
                      /\ ByteAt(Code(new), s.length) = op /\ new.last.op = op
                      /\ op \in TakesValue /\ D[s.length] = h + 1 => ValueThere(new, E, K)
<1> DEFINE n == s.length
           new == Emit(s, op, xs)
           code == Code(s)
           E == Extend(D, Len(code \o Make(op, xs)), h)
           size == InstructionLength(op)
<1>1. /\ IsScope(s) /\ n \in Nat /\ n < 256 /\ code \in Seq(Byte) /\ Len(code) = n
      /\ DOMAIN D \subseteq 0..n /\ n \in DOMAIN D /\ D[n] \in 0..n
  BY GoodScope
<1>2. /\ IsScope(new) /\ n + size <= Len(new.bytes)
      /\ new.last = [op |-> op, pos |-> n] /\ new.prev = s.last
      /\ n + size < 256 => new.length = n + size /\ Code(new) = code \o Make(op, xs)
  BY <1>1, EmitFields
<1>3. size \in 1..4 /\ Needs(op, xs) \in Nat /\ Len(new.bytes) \in Nat
  BY <1>2, LengthOfInstruction, NeedsNumber DEF IsScope, ScopeSet
<1>4. Len(new.bytes) < 256
  OBVIOUS
<1> HIDE DEF new
<1>5. new.length = n + size /\ Code(new) = code \o Make(op, xs)
  BY <1>1, <1>2, <1>3, <1>4
<1>6. Counts(op, xs)
  <2>1. Needs(op, xs) <= D[n]
    BY <1>1 DEF MayFollow
  <2>2. Needs(op, xs) < 256
    BY <1>1, <1>3, <2>1
  <2> QED BY <2>2, CountsFew
<1>7. Sound(code, D, J) /\ NoteAt(code, D, n, s.last)
  BY DEF Good
<1>8. /\ Sound(Code(new), E, K) /\ Keeps(code, D, Code(new), E)
      /\ Len(Code(new)) = n + size /\ E[Len(Code(new))] = h
      /\ ByteAt(Code(new), n) = op /\ n \in DOMAIN E /\ E[n] = D[n]
      /\ TargetsUpTo(Code(new), E, K, n)
  <2> DEFINE all == code \o Make(op, xs)
  <2>1. op \in Jumps => Len(code) \in K
    BY <1>1
  <2>2. Follows(code, D, op, h, all, Extend(D, Len(all), h), K)
    BY <1>6, <1>7, <2>1, SoundAppend
  <2>3. Code(new) = all /\ Len(code) = n
    BY <1>1, <1>5
  <2>4. E = Extend(D, Len(all), h)
    OBVIOUS
  <2> HIDE DEF all, E, code, n
  <2> QED BY <2>2, <2>3, <2>4 DEF Follows, size
<1>9. DOMAIN D \subseteq DOMAIN E
  BY DEF Extend
<1>10. \A i \in 1..n : Code(new)[i] = code[i]
  BY <1>1, <1>5, CodeAppended
<1> HIDE DEF E, code, n, size
<1>11. new.last.op = op /\ new.last.pos = n
  BY <1>2
<1>12. NoteAt(Code(new), E, new.length, new.last)
  BY <1>5, <1>8, <1>11 DEF NoteAt, size
<1>13. Good(new, E, K)
  BY <1>2, <1>4, <1>8, <1>12 DEF Good
<1>14. ASSUME op \in TakesValue, D[n] = h + 1 PROVE ValueThere(new, E, K)
  <2>1. new.length > 0
    BY <1>1, <1>3, <1>5
  <2>2. E[n] = E[new.length] + 1
    BY <1>5, <1>8, <1>14
  <2>3. ASSUME op = OP.POP PROVE NoteAt(Code(new), E, new.length - 1, new.prev)
    <3>1. size = 1
      BY <2>3, PopShape DEF size
    <3>2. new.length - 1 = n
      BY <1>1, <1>5, <3>1
    <3>3. NoteAt(Code(new), E, n, s.last)
      <4>1. DOMAIN D \subseteq Nat
        BY <1>1
      <4>2. n <= Len(code) /\ SameFirst(code, Code(new), n)
        BY <1>1, <1>10 DEF SameFirst
      <4> QED BY <1>1, <1>7, <1>9, <4>1, <4>2, NoteStays
    <3> QED BY <1>2, <3>2, <3>3
  <2> QED BY <1>8, <1>11, <1>14, <2>1, <2>2, <2>3 DEF ValueThere
<1> QED BY <1>5, <1>8, <1>11, <1>13, <1>14 DEF new, n, code, size

(* The value of a statement is had back: its pop goes, and behind a return *)
(* the operands are what they would have been.                             *)
Valued(s, D, J, new) ==
    \E E : /\ Good(new, E, J) /\ Keeps(Code(s), D, Code(new), E)
           /\ E[new.length] = D[s.length] + 1 /\ new.bytes = s.bytes

LEMMA ValueTaken ==
    ASSUME NEW s, NEW D, NEW J, Good(s, D, J), ValueThere(s, D, J)
    PROVE  Valued(s, D, J, WithoutLastPop(s))
<1> DEFINE n == s.length
           m == s.last.pos
           code == Code(s)
           new == WithoutLastPop(s)
<1>1. /\ IsScope(s) /\ n \in Nat /\ n < 256 /\ code \in Seq(Byte) /\ Len(code) = n
      /\ DOMAIN D \subseteq 0..n /\ n \in DOMAIN D /\ \A p \in DOMAIN D : D[p] \in 0..p
  BY GoodScope
<1>2. Sound(code, D, J) /\ NoteAt(code, D, n, s.last) /\ Len(s.bytes) < 256
  BY DEF Good
<1>3. /\ n > 0 /\ s.last.op \in TakesValue /\ TargetsUpTo(code, D, J, m) /\ D[m] = D[n] + 1
      /\ s.last.op = OP.POP => NoteAt(code, D, n - 1, s.prev)
  BY DEF ValueThere
<1>4. m \in DOMAIN D /\ ByteAt(code, m) = s.last.op /\ m + InstructionLength(s.last.op) = n
  BY <1>2, <1>3 DEF NoteAt
<1>5. s.last.op \notin Jumps /\ InstructionLength(s.last.op) = 1
  BY <1>3, PopShape DEF TakesValue
<1> HIDE DEF n, m, code, new
<1>6. m \in Nat /\ m + 1 = n /\ D[m] \in 0..m /\ D[n] \in 0..n
  BY <1>1, <1>4, <1>5
<1>7. CASE s.last.op = OP.POP
  <2> DEFINE E == UpTo(D, m)
  <2>1. new = RemoveLastPop(s)
    BY <1>3, <1>7 DEF new, WithoutLastPop, LastInstructionIs, n
  <2>2. /\ IsScope(new) /\ new.bytes = s.bytes /\ new.length = m /\ new.last = s.prev
        /\ Code(new) = SubSeq(code, 1, m)
    <3>1. n - 1 = m
      BY <1>6
    <3> QED BY <1>1, <1>3, <2>1, <3>1, RemoveFields DEF n, code
  <2>3. /\ Sound(Code(new), E, J) /\ Keeps(code, D, Code(new), E)
        /\ Len(Code(new)) = m /\ E[m] = D[m]
    <3>1. MayEndAt(code, D, J, m)
      BY <1>1, <1>3, <1>4, <1>5, <1>6 DEF MayEndAt
    <3>2. EndsAt(code, D, J, m, SubSeq(code, 1, m), E)
      BY <1>2, <3>1, SoundTruncate
    <3> QED BY <2>2, <3>2 DEF EndsAt
  <2>4. DOMAIN E = DOMAIN D \cap (0..m)
    BY DEF UpTo
  <2> HIDE DEF E
  <2>5. NoteAt(Code(new), E, m, s.prev)
    <3>1. SUFFICES ASSUME m > 0
                   PROVE  /\ s.prev.pos \in DOMAIN E
                          /\ ByteAt(Code(new), s.prev.pos) = s.prev.op
                          /\ s.prev.pos + InstructionLength(s.prev.op) = m
      BY DEF NoteAt
    <3>2. n - 1 = m
      BY <1>6
    <3>3. /\ s.prev.pos \in DOMAIN D /\ ByteAt(code, s.prev.pos) = s.prev.op
          /\ s.prev.pos + InstructionLength(s.prev.op) = m
      BY <1>3, <1>7, <3>1, <3>2 DEF NoteAt
    <3>4. InstructionLength(s.prev.op) \in 1..4
      BY LengthOfInstruction
    <3>5. s.prev.pos \in 0..m /\ s.prev.pos + 1 \in 1..m
      BY <1>1, <1>6, <3>3, <3>4
    <3>6. Code(new)[s.prev.pos + 1] = code[s.prev.pos + 1]
      <4> DEFINE k == s.prev.pos + 1
      <4> HIDE DEF k
      <4>1. k \in 1..m /\ m \in 1..Len(code)
        BY <1>1, <1>6, <3>5, <3>1 DEF k
      <4>2. SubSeq(code, 1, m)[k] = code[k]
        BY <1>1, <4>1
      <4> QED BY <2>2, <4>2 DEF k
    <3> QED BY <2>4, <3>3, <3>5, <3>6 DEF ByteAt
  <2>6. Good(new, E, J)
    BY <1>2, <2>2, <2>3, <2>5 DEF Good
  <2>7. E[new.length] = D[n] + 1
    BY <1>3, <2>2, <2>3
  <2> QED BY <2>2, <2>3, <2>6, <2>7, Zenon DEF Valued, code, n, new
<1>8. CASE s.last.op # OP.POP
  <2> DEFINE h == D[n] + 1
             E == Extend(D, Len(code), h)
  <2>1. new = s
    BY <1>8 DEF new, WithoutLastPop, LastInstructionIs
  <2>2. s.last.op \in Ends
    BY <1>3, <1>8 DEF TakesValue, Ends
  <2>3. h \in 0..Len(code)
    BY <1>1, <1>3, <1>6
  <2>4. DOMAIN E = DOMAIN D
    BY <1>1 DEF Extend
  <2> HIDE DEF h
  <2>5. Sound(code, E, J) /\ Keeps(code, D, code, E) /\ E[Len(code)] = h
    <3>1. /\ m < Len(code) /\ m + InstructionLength(ByteAt(code, m)) = Len(code)
          /\ ByteAt(code, m) \in Ends
      BY <1>1, <1>4, <1>5, <1>6, <2>2
    <3> QED BY <1>2, <1>3, <1>4, <2>3, <3>1, SoundAnew
  <2> HIDE DEF E
  <2>6. NoteAt(code, E, n, s.last)
    BY <1>2, <2>4 DEF NoteAt
  <2>7. Good(s, E, J)
    BY <1>1, <1>2, <2>5, <2>6 DEF Good, code, n
  <2>8. E[s.length] = D[s.length] + 1
    BY <1>1, <2>5 DEF h, n
  <2> QED BY <2>1, <2>5, <2>7, <2>8, Zenon DEF Valued, code, new
<1> QED BY <1>7, <1>8 DEF new

(* A scope as it is once one of its jumps has been given its target: where *)
(* the code ends now.                                                      *)
LEMMA Patched ==
    ASSUME NEW s, NEW D, NEW J, Good(s, D, J), NEW p \in DOMAIN D, p < s.length,
           NEW op \in Jumps, ByteAt(Code(s), p) = op, D[s.length] = D[p] - Needs(op, << >>)
    PROVE  LET new == ChangeOperand(s, p, s.length)
           IN  /\ Good(new, D, J \ {p}) /\ Keeps(Code(s), D, Code(new), D)
               /\ new.length = s.length /\ Len(new.bytes) = Len(s.bytes)
               /\ new.last = s.last /\ new.prev = s.prev
<1> DEFINE n == s.length
           code == Code(s)
           new == ChangeOperand(s, p, n)
           xs == << n >>
<1>1. /\ IsScope(s) /\ n \in Nat /\ n < 256 /\ code \in Seq(Byte) /\ Len(code) = n
      /\ DOMAIN D \subseteq 0..n /\ n \in DOMAIN D /\ n <= Len(s.bytes)
  BY GoodScope
<1>2. Sound(code, D, J) /\ NoteAt(code, D, n, s.last) /\ Len(s.bytes) < 256
  BY DEF Good
<1>3. /\ op \in OpCode /\ Len(Widths(op)) = 1 /\ InstructionLength(op) = 3
      /\ op \notin Ends
  BY JumpShape
<1> HIDE DEF n, code, new
<1>4. p \in Nat /\ p < n /\ p + 3 <= n
  <2>1. p \in Nat /\ p < n
    BY <1>1 DEF n
  <2>2. \A x, y \in DOMAIN D : x < y => x + InstructionLength(ByteAt(code, x)) <= y
    BY <1>2 DEF Sound
  <2> QED BY <1>1, <1>3, <2>1, <2>2 DEF code
<1>5. Takes(op, xs)
  BY <1>1, <1>3 DEF Takes
<1>6. ByteAt(s.bytes, p) = op
  <2>1. p + 1 \in 1..n
    BY <1>1, <1>4
  <2>2. code[p + 1] = s.bytes[p + 1]
    BY <1>1, <2>1, CodeOfScope DEF code, n
  <2> QED BY <2>2 DEF ByteAt, code
<1>7. /\ new \in ScopeSet /\ new.length = n /\ new.last = s.last /\ new.prev = s.prev
      /\ new.bytes = WriteAt(s.bytes, p, Make(op, xs))
  <2> DEFINE all == WriteAt(s.bytes, p, Make(op, xs))
  <2>1. new = [s EXCEPT !.bytes = all]
    BY <1>6, Zenon DEF new, ChangeOperand
  <2>2. all \in Seq(Byte)
    <3>1. Make(op, xs) \in Seq(Byte)
      BY <1>5, LaidBytes
    <3>2. s.bytes \in Seq(Byte) /\ p <= Len(s.bytes)
      BY <1>1, <1>4 DEF IsScope, ScopeSet
    <3> QED BY <1>4, <3>1, <3>2, Written
  <2>3. s \in ScopeSet
    BY <1>1 DEF IsScope
  <2> HIDE DEF all
  <2>4. new \in ScopeSet /\ new.length = s.length /\ new.last = s.last /\ new.prev = s.prev
        /\ new.bytes = all
    BY <2>1, <2>2, <2>3 DEF ScopeSet
  <2> QED BY <2>4 DEF all, n
<1>8. IsScope(new) /\ Len(new.bytes) = Len(s.bytes) /\ Code(new) = Overwritten(code, p, Make(op, xs))
  <2>1. p + InstructionLength(op) <= s.length /\ new.length = s.length
    BY <1>3, <1>4, <1>7 DEF n
  <2> QED BY <1>1, <1>4, <1>5, <1>7, <2>1, WriteFields DEF code
<1>9. /\ Sound(Code(new), D, J \ {p}) /\ Len(Code(new)) = n
      /\ \A q \in DOMAIN D \ {n} : ByteAt(Code(new), q) = ByteAt(code, q)
  <2>1. D[n] = D[p] - Needs(op, << >>) /\ ByteAt(code, p) = op
    BY DEF n, code
  <2>2. MayTarget(code, D, p, op, n)
    BY <1>1, <1>4, <2>1 DEF MayTarget
  <2>3. Targeted(code, D, J, p, Overwritten(code, p, Make(op, <<n>>)))
    BY <1>2, <2>2, SoundPatch
  <2> QED BY <1>1, <1>8, <2>3 DEF Targeted
<1>10. \A q \in DOMAIN D : q < n => ByteAt(Code(new), q) = ByteAt(code, q)
  BY <1>1, <1>9
<1>11. Keeps(code, D, Code(new), D)
  BY <1>1, <1>9, <1>10 DEF Keeps
<1>12. NoteAt(Code(new), D, n, s.last)
  <2>1. SUFFICES ASSUME n > 0
                 PROVE  /\ s.last.pos \in DOMAIN D /\ ByteAt(Code(new), s.last.pos) = s.last.op
                        /\ s.last.pos + InstructionLength(s.last.op) = n
    BY DEF NoteAt
  <2>2. /\ s.last.pos \in DOMAIN D /\ ByteAt(code, s.last.pos) = s.last.op
        /\ s.last.pos + InstructionLength(s.last.op) = n
    BY <1>2, <2>1 DEF NoteAt
  <2>3. InstructionLength(s.last.op) \in 1..4
    BY LengthOfInstruction
  <2>4. s.last.pos < n
    BY <1>1, <2>2, <2>3
  <2> QED BY <1>10, <2>2, <2>4
<1>13. Good(new, D, J \ {p})
  BY <1>2, <1>7, <1>8, <1>9, <1>12 DEF Good
<1> QED BY <1>7, <1>8, <1>11, <1>13 DEF n, code, new

(* The code of a function that ends.                                       *)
LEMMA Returned ==
    ASSUME NEW s, NEW D, Good(s, D, {}), Len(s.bytes) < 255,
           NoValue(s) \/ ValueThere(s, D, {})
    PROVE  Verifies(Code(Returning(s)), FALSE) /\ Code(Returning(s)) \in Seq(Byte)
<1> DEFINE n == s.length
           m == s.last.pos
           code == Code(s)
           new == Returning(s)
<1>1. /\ IsScope(s) /\ n \in Nat /\ code \in Seq(Byte) /\ Len(code) = n
      /\ DOMAIN D \subseteq 0..n /\ n \in DOMAIN D /\ n <= Len(s.bytes)
      /\ \A p \in DOMAIN D : D[p] \in 0..p
  BY GoodScope
<1>2. Sound(code, D, {}) /\ NoteAt(code, D, n, s.last)
  BY DEF Good
<1>3. OP.POP \in TakesValue /\ OP.RETURN_VALUE \in TakesValue /\ OP.POP # OP.RETURN_VALUE
  BY Opcodes DEF TakesValue
<1>4. ASSUME NEW E, NEW all, Sound(all, E, {}), Closed(all, E), Code(new) = all
      PROVE  Verifies(Code(new), FALSE) /\ Code(new) \in Seq(Byte)
  <2>1. Verifies(all, FALSE)
    BY <1>4, SoundVerifies
  <2>2. all \in Seq(Byte)
    BY <1>4 DEF Sound
  <2> QED BY <1>4, <2>1, <2>2
<1> HIDE DEF n, m, code, new
<1>5. CASE NoValue(s)
  <2> DEFINE op == OP.RETURN
             all == code \o Make(op, << >>)
             E == Extend(D, Len(all), 0)
  <2>1. new = Emit(s, op, << >>)
    <3>1. ~LastInstructionIs(s, OP.POP) /\ ~LastInstructionIs(s, OP.RETURN_VALUE)
      BY <1>3, <1>5, Zenon DEF LastInstructionIs, NoValue
    <3> QED BY <3>1, Zenon DEF Returning, new
  <2>2. /\ op \in OpCode /\ op \in Ends /\ op \notin Jumps
        /\ op \notin {OP.ARRAY, OP.HASH, OP.CALL, OP.CLOSURE}
        /\ op \notin TwoByteOps \cup OneByteOps \cup {OP.CLOSURE}
        /\ op \in Loads \cup {OP.JUMP, OP.RETURN}
    BY Opcodes DEF OpCode, Ends, Jumps, TwoByteOps, OneByteOps
  <2>3. Width(op, 1) = 0 /\ Width(op, 2) = 0
    BY <2>2, WidthsOf
  <2>4. InstructionLength(op) = 1 /\ Len(Widths(op)) = 0
    BY <2>3, Shapes DEF InstructionLength
  <2>5. Takes(op, << >>)
    BY <2>2, <2>4 DEF Takes
  <2>6. Counts(op, << >>) /\ Needs(op, << >>) = 0
    <3>1. Needs(op, << >>) = 0
      BY Opcodes DEF Needs, Loads, BinaryOps
    <3> QED BY <2>2, <3>1, NeedsAlone
  <2>7. MayFollow(code, D, op, << >>, 0)
    BY <1>1, <2>2, <2>6 DEF MayFollow
  <2>8. Follows(code, D, op, 0, all, E, {})
    <3> HIDE DEF op
    <3>1. Sound(code, D, {}) /\ {} \subseteq {} /\ (op \in Jumps => Len(code) \in {})
      BY <1>2, <2>2
    <3>2. Takes(op, << >>) /\ Counts(op, << >>) /\ MayFollow(code, D, op, << >>, 0)
      BY <2>5, <2>6, <2>7
    <3> QED BY <3>1, <3>2, SoundAppend
  <2>9. Code(new) = all
    <3>1. s.length + InstructionLength(op) < 256
      BY <1>1, <2>4 DEF n, IsScope, ScopeSet
    <3> HIDE DEF op
    <3> QED BY <1>1, <2>1, <2>5, <3>1, EmitFields DEF code
  <2>10. Sound(all, E, {})
    BY <2>8 DEF Follows
  <2>11. Closed(all, E)
    <3>1. n \in DOMAIN E /\ n < Len(all) /\ ByteAt(all, n) = op /\ Len(all) = n + 1
          /\ TargetsUpTo(all, E, {}, n)
      BY <1>1, <2>4, <2>8 DEF Follows
    <3> QED BY <2>2, <2>4, <3>1 DEF Closed
  <2> HIDE DEF all, E, op
  <2> QED BY <1>4, <2>9, <2>10, <2>11 DEF new
<1>6. ASSUME ~NoValue(s)
      PROVE  /\ n # 0 /\ n > 0 /\ s.last.op \in TakesValue /\ TargetsUpTo(code, D, {}, m)
             /\ m \in DOMAIN D /\ ByteAt(code, m) = s.last.op /\ m < n
             /\ m + InstructionLength(s.last.op) = n
  <2>1. n > 0 /\ s.last.op \in TakesValue /\ TargetsUpTo(code, D, {}, m)
    BY <1>6 DEF ValueThere, n, m, code
  <2>2. m \in DOMAIN D /\ ByteAt(code, m) = s.last.op /\ m + InstructionLength(s.last.op) = n
    BY <1>2, <2>1 DEF NoteAt, m
  <2>3. InstructionLength(s.last.op) \in 1..4
    BY LengthOfInstruction
  <2> QED BY <1>1, <2>1, <2>2, <2>3
<1>7. CASE ~NoValue(s) /\ s.last.op = OP.RETURN_VALUE
  <2>1. ~LastInstructionIs(s, OP.POP) /\ LastInstructionIs(s, OP.RETURN_VALUE)
    BY <1>3, <1>6, <1>7, Zenon DEF LastInstructionIs, n
  <2>2. new = s
    BY <2>1, Zenon DEF Returning, new
  <2>3. Closed(code, D)
    <3>1. s.last.op \in Ends
      BY <1>7 DEF Ends
    <3> QED BY <1>1, <1>6, <1>7, <3>1 DEF Closed
  <2> QED BY <1>2, <1>4, <2>2, <2>3 DEF code, new
<1>8. CASE ~NoValue(s) /\ s.last.op = OP.POP
  <2> DEFINE op == OP.RETURN_VALUE
             all == Overwritten(code, m, Make(op, << >>))
  <2>1. /\ op \in OpCode /\ InstructionLength(op) = 1 /\ Len(Widths(op)) = 0 /\ op \in Ends
        /\ InstructionLength(OP.POP) = 1
    BY PopShape DEF Ends
  <2>2. Takes(op, << >>)
    BY <2>1 DEF Takes
  <2> DEFINE valued == ReplaceLastPopWithReturn(s)
  <2>3. /\ valued \in ScopeSet /\ valued.length = n /\ valued.last.op = op
        /\ valued.bytes = WriteAt(s.bytes, m, Make(op, << >>))
    <3> DEFINE b == WriteAt(s.bytes, m, Make(op, << >>))
    <3>1. b \in Seq(Byte)
      <4>1. Make(op, << >>) \in Seq(Byte)
        BY <2>2, LaidBytes
      <4>2. s.bytes \in Seq(Byte) /\ m \in Nat /\ m <= Len(s.bytes)
        BY <1>1, <1>6, <1>8 DEF IsScope, ScopeSet
      <4> QED BY <4>1, <4>2, Written
    <3>2. s \in ScopeSet
      BY <1>1 DEF IsScope
    <3>3. valued = [s EXCEPT !.bytes = b, !.last.op = op]
      BY Zenon DEF ReplaceLastPopWithReturn, m
    <3> HIDE DEF b, valued, op
    <3>4. op \in OpCode
      BY <2>1
    <3> QED BY <3>1, <3>2, <3>3, <3>4 DEF ScopeSet, Note, b, n
  <2>4. new = valued
    <3> HIDE DEF valued, op
    <3>1. LastInstructionIs(s, OP.POP)
      BY <1>6, <1>8, Zenon DEF LastInstructionIs, n
    <3>2. LastInstructionIs(valued, op)
      BY <1>6, <1>8, <2>3, Zenon DEF LastInstructionIs
    <3> QED BY <3>1, <3>2, Zenon DEF Returning, valued, new, op
  <2> HIDE DEF valued
  <2>5. Code(new) = all
    <3>1. m + InstructionLength(op) <= s.length /\ m \in Nat /\ valued.length = s.length
      BY <1>1, <1>6, <1>8, <2>1, <2>3 DEF n
    <3> HIDE DEF op
    <3> QED BY <1>1, <2>2, <2>3, <2>4, <3>1, WriteFields DEF code
  <2>6. /\ Sound(all, D, {}) /\ Len(all) = n /\ ByteAt(all, m) = op /\ TargetsUpTo(all, D, {}, m)
    <3>1. m < Len(code) /\ ByteAt(code, m) = OP.POP /\ m \in DOMAIN D
          /\ TargetsUpTo(code, D, {}, m)
      BY <1>1, <1>6, <1>8
    <3> QED BY <1>1, <1>2, <3>1, SoundReturn
  <2>7. Closed(all, D)
    BY <1>6, <1>8, <2>1, <2>6 DEF Closed
  <2> HIDE DEF all
  <2> QED BY <1>4, <2>5, <2>6, <2>7 DEF new
<1>9. ~NoValue(s) => s.last.op = OP.POP \/ s.last.op = OP.RETURN_VALUE
  BY DEF NoValue, TakesValue
<1> QED BY <1>5, <1>7, <1>8, <1>9, Zenon DEF new

(* What the code around a nested construct sees of it: the scope goes on,  *)
(* h operands lie on the stack at its end, jumps and their heights remain. *)
Continues(s, D, new, K, h) ==
    \E E : Good(new, E, K) /\ Keeps(Code(s), D, Code(new), E) /\ E[new.length] = h

LEMMA ContinuesTwice ==
    ASSUME NEW s, NEW D, NEW mid, NEW E, Keeps(Code(s), D, Code(mid), E),
           NEW new, NEW K, NEW h, Continues(mid, E, new, K, h)
    PROVE  Continues(s, D, new, K, h)
BY KeepsTwice, Zenon DEF Continues

(* load_symbol                                                             *)
LEMMA LoadFits ==
    ASSUME NEW s, NEW symbol \in Symbols!Symbol
    PROVE  \E op, xs : /\ op \in Loads
                      /\ EmitLoad(s, symbol) = Emit(s, op, xs) /\ Takes(op, xs)
<1>1. symbol.index \in Nat /\ symbol.scope \in Symbols!SymbolScope
  BY DEF Symbols!Symbol
<1> DEFINE one == << symbol.index >>
<1>2. one \in Seq(Nat) /\ Len(one) = 1 /\ << >> \in Seq(Nat) /\ Len(<< >>) = 0
  BY <1>1
<1> HIDE DEF one
<1>3. \A op \in {OP.GET_GLOBAL, OP.GET_LOCAL, OP.GET_BUILTIN, OP.GET_FREE} : Takes(op, one)
  <2>1. ASSUME NEW op \in {OP.GET_GLOBAL, OP.GET_LOCAL, OP.GET_BUILTIN, OP.GET_FREE}
        PROVE  op \in OpCode /\ Len(Widths(op)) = 1
    <3>1. op \in TwoByteOps \cup OneByteOps
      BY Zenon DEF TwoByteOps, OneByteOps
    <3>2. Width(op, 1) # 0 /\ Width(op, 2) = 0
      BY <3>1, WidthsOf
    <3>3. op \in OpCode
      BY Opcodes DEF OpCode
    <3> QED BY <3>2, <3>3, Shapes
  <2> QED BY <1>2, <2>1 DEF Takes
<1>4. Takes(OP.CURRENT_CLOSURE, << >>)
  <2>1. /\ OP.CURRENT_CLOSURE \notin TwoByteOps \cup OneByteOps \cup {OP.CLOSURE}
        /\ OP.CURRENT_CLOSURE \in OpCode
    BY Opcodes DEF TwoByteOps, OneByteOps, OpCode
  <2>2. Len(Widths(OP.CURRENT_CLOSURE)) = 0
    BY <2>1, WidthsOf, Shapes
  <2> QED BY <1>2, <2>1, <2>2 DEF Takes
<1>5. /\ symbol.scope = "GLOBAL" => EmitLoad(s, symbol) = Emit(s, OP.GET_GLOBAL, one)
      /\ symbol.scope = "LOCAL" => EmitLoad(s, symbol) = Emit(s, OP.GET_LOCAL, one)
      /\ symbol.scope = "BUILTIN" => EmitLoad(s, symbol) = Emit(s, OP.GET_BUILTIN, one)
      /\ symbol.scope = "FREE" => EmitLoad(s, symbol) = Emit(s, OP.GET_FREE, one)
      /\ symbol.scope = "FUNCTION" => EmitLoad(s, symbol) = Emit(s, OP.CURRENT_CLOSURE, << >>)
  BY DEF EmitLoad, one
<1>6. \A op \in {OP.GET_GLOBAL, OP.GET_LOCAL, OP.GET_BUILTIN, OP.GET_FREE, OP.CURRENT_CLOSURE} :
         op \in Loads
  BY Zenon DEF Loads
<1>7. /\ OP.GET_GLOBAL \in Loads /\ Takes(OP.GET_GLOBAL, one)
      /\ OP.GET_LOCAL \in Loads /\ Takes(OP.GET_LOCAL, one)
      /\ OP.GET_BUILTIN \in Loads /\ Takes(OP.GET_BUILTIN, one)
      /\ OP.GET_FREE \in Loads /\ Takes(OP.GET_FREE, one)
      /\ OP.CURRENT_CLOSURE \in Loads
  BY <1>3, <1>6, Zenon
<1> QED BY <1>1, <1>4, <1>5, <1>7, Zenon DEF Symbols!SymbolScope

LEMMA LoadShape ==
    ASSUME NEW op \in Loads
    PROVE  op \notin Jumps /\ op \notin Ends \cup {OP.JUMP} /\ op \notin TakesValue
           /\ Leaves(op) = 1 /\ \A xs : Needs(op, xs) = 0
<1>1. op \notin Jumps /\ op \notin Ends \cup {OP.JUMP} /\ op \notin TakesValue /\ Leaves(op) = 1
  BY Opcodes DEF Loads, Jumps, Ends, TakesValue, Leaves
<1>2. op \notin {OP.ARRAY, OP.HASH, OP.CALL, OP.CLOSURE} /\ op \notin BinaryOps
  BY Opcodes DEF Loads, BinaryOps
<1>3. Needs(op, << >>) = 0
  BY <1>2 DEF Needs
<1> QED BY <1>1, <1>2, <1>3, NeedsAlone

(* An instruction that is no jump is emitted.                              *)
LEMMA EmittedPlain ==
    ASSUME NEW s, NEW D, NEW J, Good(s, D, J), NEW op, NEW xs, Takes(op, xs),
           op \notin Jumps \cup {OP.RETURN}, NEW h, MayFollow(Code(s), D, op, xs, h),
           Len(Emit(s, op, xs).bytes) < 256
    PROVE  \E E : LET new == Emit(s, op, xs)
                  IN  /\ Good(new, E, J) /\ Keeps(Code(s), D, Code(new), E)
                      /\ E[new.length] = h /\ new.last.op = op
                      /\ op \in TakesValue /\ D[s.length] = h + 1 => ValueThere(new, E, J)
<1> DEFINE new == Emit(s, op, xs)
<1>1. op \notin Jumps /\ J \subseteq J
  OBVIOUS
<1>2. \E E : /\ Good(new, E, J) /\ Keeps(Code(s), D, Code(new), E)
             /\ E[new.length] = h /\ new.length = s.length + InstructionLength(op)
             /\ s.length \in DOMAIN E /\ E[s.length] = D[s.length]
             /\ ByteAt(Code(new), s.length) = op /\ new.last.op = op
             /\ op \in TakesValue /\ D[s.length] = h + 1 => ValueThere(new, E, J)
  BY <1>1, Emitted
<1> HIDE DEF new
<1> QED BY <1>2 DEF new

LEMMA LoadEmitted ==
    ASSUME NEW s, NEW D, NEW J, Good(s, D, J), NEW symbol \in Symbols!Symbol,
           Len(EmitLoad(s, symbol).bytes) < 256
    PROVE  /\ Continues(s, D, EmitLoad(s, symbol), J, D[s.length] + 1)
           /\ EmitLoad(s, symbol).last.op \notin TakesValue
<1>1. PICK op, xs : op \in Loads /\ EmitLoad(s, symbol) = Emit(s, op, xs) /\ Takes(op, xs)
  BY LoadFits
<1>2. /\ op \notin Jumps /\ op \notin Ends \cup {OP.JUMP} /\ op \notin TakesValue
      /\ Leaves(op) = 1 /\ Needs(op, xs) = 0
  BY <1>1, LoadShape
<1>3. op \notin Jumps \cup {OP.RETURN}
  BY <1>2 DEF Ends
<1> DEFINE h == D[s.length] + 1
<1>4. D[s.length] \in Nat /\ Len(Code(s)) = s.length
  BY GoodScope
<1>5. MayFollow(Code(s), D, op, xs, h)
  BY <1>2, <1>4 DEF MayFollow
<1> HIDE DEF h
<1>6. \E E : LET new == Emit(s, op, xs)
             IN  /\ Good(new, E, J) /\ Keeps(Code(s), D, Code(new), E)
                 /\ E[new.length] = h /\ new.last.op = op
                 /\ op \in TakesValue /\ D[s.length] = h + 1 => ValueThere(new, E, J)
  BY <1>1, <1>3, <1>5, EmittedPlain
<1> QED BY <1>1, <1>2, <1>6 DEF Continues, h

LEMMA LoadScope ==
    ASSUME NEW s, IsScope(s), NEW symbol \in Symbols!Symbol
    PROVE  IsScope(EmitLoad(s, symbol)) /\ Len(s.bytes) <= Len(EmitLoad(s, symbol).bytes)
<1>1. PICK op, xs : op \in Loads /\ EmitLoad(s, symbol) = Emit(s, op, xs) /\ Takes(op, xs)
  BY LoadFits
<1>2. IsScope(Emit(s, op, xs)) /\ Len(s.bytes) <= Len(Emit(s, op, xs).bytes)
  BY <1>1, EmitFields, Zenon
<1> QED BY <1>1, <1>2

Loading(f, s, symbols, n) ==
    [i \in 0..n |-> IF i = 0 THEN s ELSE EmitLoad(f[i-1], symbols[i])]
IsLoading(f, s, symbols, n) == f = Loading(f, s, symbols, n)

LEMMA LoadingExists ==
    ASSUME NEW s, NEW symbols, NEW n \in Nat
    PROVE  \E f : IsLoading(f, s, symbols, n)
<1> DEFINE Missing == {m \in Nat : ~\E f : IsLoading(f, s, symbols, m)}
<1>1. SUFFICES ASSUME Missing # {} PROVE FALSE
  OBVIOUS
<1>2. PICK m \in Missing : \A k \in Missing : m <= k
  <2>1. Missing \subseteq Nat
    OBVIOUS
  <2> QED BY <1>1, <2>1, LeastNumber, Zenon
<1>3. CASE m = 0
  <2> DEFINE f == [i \in 0..0 |-> s]
  <2>1. f = Loading(f, s, symbols, 0)
    BY DEF Loading
  <2> QED BY <1>2, <1>3, <2>1 DEF IsLoading
<1>4. CASE m # 0
  <2>1. m \in Nat /\ m - 1 \in Nat /\ m - 1 \notin Missing
    BY <1>2, <1>4
  <2>2. PICK g : IsLoading(g, s, symbols, m - 1)
    BY <2>1
  <2> DEFINE f == [i \in 0..m |-> IF i = m THEN EmitLoad(g[m-1], symbols[m]) ELSE g[i]]
  <2>3. ASSUME NEW i \in 0..m PROVE f[i] = IF i = 0 THEN s ELSE EmitLoad(f[i-1], symbols[i])
    <3>1. CASE i = m
      <4>1. f[m-1] = g[m-1]
        BY <2>1
      <4> QED BY <1>4, <2>1, <3>1, <4>1
    <3>2. CASE i # m
      <4>1. i \in 0..m-1 /\ f[i] = g[i] /\ (i # 0 => f[i-1] = g[i-1])
        BY <2>1, <3>2
      <4>2. g[i] = IF i = 0 THEN s ELSE EmitLoad(g[i-1], symbols[i])
        BY <2>2, <4>1 DEF IsLoading, Loading
      <4> QED BY <4>1, <4>2
    <3> QED BY <3>1, <3>2
  <2>4. f = Loading(f, s, symbols, m)
    BY <2>3 DEF Loading
  <2> QED BY <1>2, <2>4 DEF IsLoading
<1> QED BY <1>3, <1>4

LoadedSo(s, D, J, f, i) ==
    /\ IsScope(f[i])
    /\ Len(f[i].bytes) < 256 => Continues(s, D, f[i], J, D[s.length] + i)

(* The code that loads what a closure captures.                            *)
LEMMA LoadsEmitted ==
    ASSUME NEW s, NEW D, NEW J, Good(s, D, J), NEW symbols \in Seq(Symbols!Symbol)
    PROVE  /\ IsScope(EmitLoads(s, symbols))
           /\ Len(EmitLoads(s, symbols).bytes) < 256 =>
                Continues(s, D, EmitLoads(s, symbols), J, D[s.length] + Len(symbols))
<1> DEFINE n == Len(symbols)
           f == CHOOSE g : IsLoading(g, s, symbols, n)
<1>1. IsLoading(f, s, symbols, n)
  <2>1. n \in Nat
    OBVIOUS
  <2> QED BY <2>1, LoadingExists, Zenon
<1>2. EmitLoads(s, symbols) = f[n]
  BY Zenon DEF EmitLoads, IsLoading, Loading
<1>3. n \in Nat /\ \A i \in 1..n : symbols[i] \in Symbols!Symbol
  OBVIOUS
<1>4. D[s.length] \in Nat /\ IsScope(s)
  BY GoodScope
<1> HIDE DEF n, f
<1> DEFINE Wrong == {i \in 0..n : ~LoadedSo(s, D, J, f, i)}
<1>5. ASSUME Wrong # {} PROVE FALSE
  <2>1. PICK m \in Wrong : \A k \in Wrong : m <= k
    <3>1. Wrong \subseteq Nat
      OBVIOUS
    <3> QED BY <1>5, <3>1, LeastNumber, Zenon
  <2>2. CASE m = 0
    <3>1. f[0] = s
      BY <1>1, <1>3 DEF IsLoading, Loading
    <3>2. Continues(s, D, s, J, D[s.length] + 0)
      BY <1>4, KeepsItself DEF Continues
    <3> QED BY <1>4, <2>1, <2>2, <3>1, <3>2 DEF LoadedSo
  <2>3. CASE m # 0
    <3>1. m \in 1..n /\ m - 1 \in 0..n /\ m - 1 \notin Wrong
      BY <1>3, <2>1, <2>3
    <3>2. f[m] = EmitLoad(f[m-1], symbols[m])
      BY <1>1, <3>1 DEF IsLoading, Loading
    <3>3. LoadedSo(s, D, J, f, m - 1) /\ symbols[m] \in Symbols!Symbol
      BY <1>3, <3>1
    <3>4. IsScope(f[m]) /\ Len(f[m-1].bytes) <= Len(f[m].bytes)
      BY <3>2, <3>3, LoadScope DEF LoadedSo
    <3>5. ASSUME Len(f[m].bytes) < 256 PROVE Continues(s, D, f[m], J, D[s.length] + m)
      <4>1. Len(f[m-1].bytes) < 256
        BY <3>3, <3>4, <3>5 DEF LoadedSo, IsScope, ScopeSet
      <4>2. PICK E : /\ Good(f[m-1], E, J) /\ Keeps(Code(s), D, Code(f[m-1]), E)
                     /\ E[f[m-1].length] = D[s.length] + (m - 1)
        BY <3>3, <4>1 DEF LoadedSo, Continues
      <4>3. Continues(f[m-1], E, f[m], J, E[f[m-1].length] + 1)
        BY <3>2, <3>3, <3>5, <4>2, LoadEmitted
      <4>4. E[f[m-1].length] + 1 = D[s.length] + m
        BY <1>4, <3>1, <4>2
      <4> QED BY <4>2, <4>3, <4>4, ContinuesTwice
    <3> QED BY <2>1, <3>4, <3>5 DEF LoadedSo
  <2> QED BY <2>2, <2>3
<1>6. n \in 0..n
  BY <1>3
<1> QED BY <1>2, <1>5, <1>6 DEF LoadedSo, n

-----------------------------------------------------------------------------
(* The calls that are active, and what each finds and leaves *)

(* Where compilation stands: how many scopes are open, how many operands   *)
(* lie on the stack where the innermost one ends, whether a statement has  *)
(* just ended there - and left a value to be had back or none - or a part  *)
(* of one, and which jumps have no target yet.                             *)
Stage == [level : Nat, height : Nat, kind : {"done", "value", "inside"}, open : SUBSET Nat]

AfterStage(a, b, height, kind) ==
    b.level = a.level /\ b.open = a.open /\ b.height = height /\ b.kind = kind

KindOfStatement(node) == IF node.type = "LET" THEN "done" ELSE "value"
KindAfter(op) ==
    IF op \in TakesValue THEN "value"
    ELSE IF op \in {OP.SET_GLOBAL, OP.SET_LOCAL} THEN "done" ELSE "inside"

Compiles(a, node, b) ==
    \/ node.type \in Expressions /\ AfterStage(a, b, a.height + 1, "inside")
    \/ node.type \in Statements /\ AfterStage(a, b, a.height, KindOfStatement(node))

Emits(a, op, xs, b) ==
    /\ Takes(op, xs) /\ op \notin Jumps \cup {OP.RETURN} /\ Needs(op, xs) <= a.height
    /\ AfterStage(a, b, a.height - Needs(op, xs) + Leaves(op), KindAfter(op))

(* The instructions that wait for the operands of their node.              *)
Deferred == OpCode \ (Jumps \cup Loads \cup {OP.RETURN, OP.CLOSURE})

(* A jump at p waits for its target, with h operands on the stack.         *)
Awaits(s, d, p, op, h) ==
    p \in DOMAIN d /\ p < Len(Code(s)) /\ ByteAt(Code(s), p) = op /\ d[p] = h

(* A call, resumed at stage a, leaves stage b behind.                      *)
Passes(ss, D, a, item, b) ==
    \/ item.do = "compile" /\ Compiles(a, item.node, b)
    \/ /\ item.do = "emit" /\ item.op \in Deferred
       /\ Emits(a, item.op, item.operands, b)
    \/ /\ item.do = "consequence" /\ a.height > 0 /\ AfterStage(a, b, a.height, "inside")
       /\ IsArm(item.consequence)
       /\ item.alternative # NULL => IsArm(item.alternative)
    \/ /\ item.do = "alternative" /\ a.kind = "value"
       /\ b.level = a.level /\ b.kind = "inside" /\ b.height = a.height + 1
       /\ a.open \ {item.jumpNotTruthy} \subseteq b.open
       /\ Awaits(ss[a.level], D[a.level], item.jumpNotTruthy, OP.JUMP_NOT_TRUTHY, a.height + 1)
       /\ item.alternative # NULL => IsArm(item.alternative)
    \/ /\ item.do = "endIf" /\ item.popped \in BOOLEAN
       /\ b.level = a.level /\ b.kind = "inside"
       /\ a.open \ {item.jump} \subseteq b.open
       /\ item.popped => a.kind = "value" /\ b.height = a.height + 1
       /\ ~item.popped => b.height = a.height
       /\ Awaits(ss[a.level], D[a.level], item.jump, OP.JUMP, b.height)
    \/ /\ item.do = "endFunction" /\ a.kind # "inside" /\ a.open = {} /\ a.level > 1
       /\ b.level = a.level - 1 /\ b.kind = "inside"
       /\ Good(ss[b.level], D[b.level], b.open)
       /\ b.height = D[b.level][ss[b.level].length] + 1

(* The stages of a list of calls, from a to b.                             *)
Walk(ss, D, items, v) ==
    /\ v \in [1..Len(items) + 1 -> Stage]
    /\ \A i \in 1..Len(items) : Passes(ss, D, v[i], items[i], v[i+1])
    /\ \A i, j \in 1..Len(items) + 1 : i <= j => v[j].level <= v[i].level
Leads(ss, D, items, a, b) ==
    IsSequence(items) /\ \E v : Walk(ss, D, items, v) /\ v[1] = a /\ v[Len(items) + 1] = b

LEMMA LeadsStages ==
    ASSUME NEW ss, NEW D, NEW items, NEW a, NEW b, Leads(ss, D, items, a, b)
    PROVE  a \in Stage /\ b \in Stage /\ b.level <= a.level
<1>1. Len(items) \in Nat
  BY SequenceForm DEF Leads
<1>2. PICK v : Walk(ss, D, items, v) /\ v[1] = a /\ v[Len(items) + 1] = b
  BY DEF Leads
<1>3. 1 \in 1..Len(items) + 1 /\ Len(items) + 1 \in 1..Len(items) + 1 /\ 1 <= Len(items) + 1
  BY <1>1
<1> QED BY <1>2, <1>3 DEF Walk

LEMMA LeadsNowhere ==
    ASSUME NEW ss, NEW D, NEW a \in Stage
    PROVE  Leads(ss, D, << >>, a, a)
<1> DEFINE v == [i \in 1..1 |-> a]
<1>1. IsSequence(<< >>) /\ Len(<< >>) = 0
  BY EmptySeq DEF IsSequence
<1>2. Walk(ss, D, << >>, v)
  BY <1>1 DEF Walk, Stage
<1> QED BY <1>1, <1>2 DEF Leads

LEMMA LeadsOne ==
    ASSUME NEW ss, NEW D, NEW a \in Stage, NEW b \in Stage, NEW item,
           Passes(ss, D, a, item, b), b.level <= a.level
    PROVE  Leads(ss, D, << item >>, a, b)
<1> DEFINE v == [i \in 1..2 |-> IF i = 1 THEN a ELSE b]
<1>1. IsSequence(<< item >>) /\ Len(<< item >>) = 1 /\ << item >>[1] = item
  BY SequenceOfOne
<1>2. v \in [1..2 -> Stage] /\ v[1] = a /\ v[2] = b /\ a.level \in Nat /\ b.level \in Nat
  BY DEF Stage
<1> HIDE DEF v
<1>3. \A i, j \in 1..2 : i <= j => v[j].level <= v[i].level
  BY <1>2
<1>4. Walk(ss, D, << item >>, v)
  BY <1>1, <1>2, <1>3 DEF Walk
<1> QED BY <1>1, <1>2, <1>4 DEF Leads

LEMMA LeadsOn ==
    ASSUME NEW ss, NEW D, NEW x, NEW y, NEW a, NEW b, NEW c,
           Leads(ss, D, x, a, b), Leads(ss, D, y, b, c)
    PROVE  Leads(ss, D, x \o y, a, c)
<1> DEFINE n == Len(x)
           m == Len(y)
           all == x \o y
<1>1. /\ n \in Nat /\ m \in Nat /\ IsSequence(all) /\ Len(all) = n + m
      /\ \A i \in 1..n + m : all[i] = IF i <= n THEN x[i] ELSE y[i - n]
  BY SequenceForm, SequenceConcat DEF Leads
<1>2. PICK v : Walk(ss, D, x, v) /\ v[1] = a /\ v[n + 1] = b
  BY DEF Leads
<1>3. PICK u : Walk(ss, D, y, u) /\ u[1] = b /\ u[m + 1] = c
  BY DEF Leads
<1> HIDE DEF n, m, all
<1> DEFINE w == [i \in 1..n + m + 1 |-> IF i <= n THEN v[i] ELSE u[i - n]]
<1>4. /\ \A i \in 1..n + 1 : v[i] \in Stage
      /\ \A i \in 1..n : Passes(ss, D, v[i], x[i], v[i+1])
      /\ \A i, j \in 1..n + 1 : i <= j => v[j].level <= v[i].level
  BY <1>2 DEF Walk, n
<1>5. /\ \A i \in 1..m + 1 : u[i] \in Stage
      /\ \A i \in 1..m : Passes(ss, D, u[i], y[i], u[i+1])
      /\ \A i, j \in 1..m + 1 : i <= j => u[j].level <= u[i].level
  BY <1>3 DEF Walk, m
<1>6. \A i \in 1..n + m + 1 : w[i] = IF i <= n THEN v[i] ELSE u[i - n]
  OBVIOUS
<1>7. \A i \in 1..n + 1 : w[i] = v[i]
  <2>1. ASSUME NEW i \in 1..n + 1 PROVE w[i] = v[i]
    <3>1. CASE i <= n
      BY <1>1, <1>6, <3>1
    <3>2. CASE i = n + 1
      <4>1. i \in 1..n + m + 1 /\ ~(i <= n) /\ i - n = 1
        BY <1>1, <3>2
      <4> QED BY <1>2, <1>3, <1>6, <3>2, <4>1
    <3> QED BY <1>1, <3>1, <3>2
  <2> QED BY <2>1
<1>8. \A i \in 1..m + 1 : w[n + i] = u[i]
  <2>1. ASSUME NEW i \in 1..m + 1 PROVE w[n + i] = u[i]
    <3>1. n + i \in 1..n + m + 1 /\ ~(n + i <= n) /\ (n + i) - n = i
      BY <1>1
    <3> QED BY <1>6, <3>1
  <2> QED BY <2>1
<1>9. \A i \in 1..n + m + 1 : w[i] \in Stage
  <2>1. ASSUME NEW i \in 1..n + m + 1 PROVE w[i] \in Stage
    <3>1. i \in 1..n + 1 \/ i - n \in 1..m + 1
      BY <1>1
    <3>2. CASE i \in 1..n + 1
      BY <1>4, <1>7, <3>2
    <3>3. CASE i - n \in 1..m + 1
      <4>1. n + (i - n) = i
        BY <1>1
      <4> QED BY <1>5, <1>8, <3>3, <4>1
    <3> QED BY <3>1, <3>2, <3>3
  <2> QED BY <2>1
<1>10. w \in [1..n + m + 1 -> Stage]
  BY <1>9
<1> HIDE DEF w
<1>11. ASSUME NEW i \in 1..n + m PROVE Passes(ss, D, w[i], all[i], w[i+1])
  <2>1. CASE i <= n
    <3>1. i \in 1..n /\ i \in 1..n + 1 /\ i + 1 \in 1..n + 1
      BY <1>1, <2>1
    <3> QED BY <1>1, <1>4, <1>7, <2>1, <3>1
  <2>2. CASE ~(i <= n)
    <3> DEFINE k == i - n
    <3>1. k \in 1..m /\ k \in 1..m + 1 /\ k + 1 \in 1..m + 1 /\ n + k = i /\ n + (k + 1) = i + 1
      BY <1>1, <2>2
    <3>2. all[i] = y[k]
      BY <1>1, <2>2
    <3> HIDE DEF k
    <3>3. w[i] = u[k] /\ w[i+1] = u[k+1] /\ Passes(ss, D, u[k], y[k], u[k+1])
      BY <1>5, <1>8, <3>1
    <3> QED BY <3>2, <3>3
  <2> QED BY <2>1, <2>2
<1>12. ASSUME NEW i \in 1..n + m + 1, NEW j \in 1..n + m + 1, i <= j
       PROVE  w[j].level <= w[i].level
  <2>1. CASE j <= n
    <3>1. i \in 1..n + 1 /\ j \in 1..n + 1
      BY <1>1, <1>12, <2>1
    <3> QED BY <1>4, <1>7, <1>12, <3>1
  <2>2. CASE ~(i <= n)
    <3> DEFINE k == i - n
               l == j - n
    <3>1. k \in 1..m + 1 /\ l \in 1..m + 1 /\ k <= l /\ n + k = i /\ n + l = j
      BY <1>1, <1>12, <2>2
    <3> HIDE DEF k, l
    <3> QED BY <1>5, <1>8, <3>1
  <2>3. CASE i <= n /\ ~(j <= n)
    <3> DEFINE l == j - n
    <3>1. i \in 1..n + 1 /\ n + 1 \in 1..n + 1 /\ l \in 1..m + 1 /\ 1 \in 1..m + 1 /\ 1 <= l
          /\ i <= n + 1 /\ n + l = j
      BY <1>1, <1>12, <2>3
    <3> HIDE DEF l
    <3>2. w[i] = v[i] /\ v[n + 1].level <= v[i].level /\ w[j] = u[l] /\ u[l].level <= u[1].level
      BY <1>4, <1>5, <1>7, <1>8, <3>1
    <3>3. v[n + 1] = u[1]
      BY <1>2, <1>3
    <3>4. v[i].level \in Nat /\ u[l].level \in Nat /\ u[1].level \in Nat
      BY <1>4, <1>5, <3>1 DEF Stage
    <3> QED BY <3>2, <3>3, <3>4
  <2> QED BY <2>1, <2>2, <2>3
<1>13. Walk(ss, D, all, w)
  BY <1>1, <1>10, <1>11, <1>12 DEF Walk
<1>14. w[1] = a /\ w[Len(all) + 1] = c
  <2>1. 1 \in 1..n + 1 /\ m + 1 \in 1..m + 1 /\ Len(all) + 1 = n + (m + 1)
    BY <1>1
  <2> QED BY <1>2, <1>3, <1>7, <1>8, <2>1
<1> QED BY <1>1, <1>13, <1>14 DEF Leads, all

LEMMA LeadsTail ==
    ASSUME NEW ss, NEW D, NEW items, items # << >>, NEW a, NEW c, Leads(ss, D, items, a, c)
    PROVE  \E b : Passes(ss, D, a, Head(items), b) /\ Leads(ss, D, Tail(items), b, c)
<1> DEFINE rest == Tail(items)
           n == Len(items)
<1>1. /\ n \in Nat /\ n > 0 /\ IsSequence(rest) /\ Len(rest) = n - 1 /\ Head(items) = items[1]
      /\ \A i \in 1..n - 1 : rest[i] = items[i+1]
  <2>1. IsSequence(items)
    BY DEF Leads
  <2> QED BY <2>1, SequenceForm, SequenceTail
<1>2. PICK v : Walk(ss, D, items, v) /\ v[1] = a /\ v[n + 1] = c
  BY DEF Leads
<1> HIDE DEF rest, n
<1>3. /\ \A i \in 1..n + 1 : v[i] \in Stage
      /\ \A i \in 1..n : Passes(ss, D, v[i], items[i], v[i+1])
      /\ \A i, j \in 1..n + 1 : i <= j => v[j].level <= v[i].level
  BY <1>2 DEF Walk, n
<1> DEFINE w == [i \in 1..n |-> v[i+1]]
<1>4. /\ w \in [1..n -> Stage] /\ \A i \in 1..n : w[i] = v[i+1]
  BY <1>1, <1>3
<1> HIDE DEF w
<1>5. ASSUME NEW i \in 1..n - 1 PROVE Passes(ss, D, w[i], rest[i], w[i+1])
  <2>1. i + 1 \in 1..n /\ i \in 1..n
    BY <1>1
  <2> QED BY <1>1, <1>3, <1>4, <2>1
<1>6. ASSUME NEW i \in 1..n, NEW j \in 1..n, i <= j PROVE w[j].level <= w[i].level
  <2>1. i + 1 \in 1..n + 1 /\ j + 1 \in 1..n + 1 /\ i + 1 <= j + 1
    BY <1>1, <1>6
  <2> QED BY <1>3, <1>4, <2>1
<1>7. Walk(ss, D, rest, w)
  <2>1. Len(rest) + 1 = n
    BY <1>1
  <2> QED BY <1>1, <1>4, <1>5, <1>6, <2>1 DEF Walk
<1>8. Leads(ss, D, rest, v[2], c)
  <2>1. 1 \in 1..n /\ n \in 1..n /\ Len(rest) + 1 = n
    BY <1>1
  <2>2. w[1] = v[2] /\ w[n] = c
    BY <1>2, <1>4, <2>1
  <2> QED BY <1>1, <1>7, <2>1, <2>2 DEF Leads
<1>9. Passes(ss, D, a, Head(items), v[2])
  <2>1. 1 \in 1..n
    BY <1>1
  <2> QED BY <1>1, <1>2, <1>3, <2>1
<1> QED BY <1>8, <1>9 DEF rest

(* Scopes with certificates carry what the scopes before them, up to the   *)
(* m-th, let the calls rely on.                                            *)
Carries(ss, D, new, E, m) ==
    \A k \in 1..m : IF k < m THEN new[k] = ss[k] /\ E[k] = D[k]
                    ELSE Keeps(Code(ss[k]), D[k], Code(new[k]), E[k])

LEMMA PassesStill ==
    ASSUME NEW ss, NEW D, NEW new, NEW E, NEW m \in Nat, Carries(ss, D, new, E, m),
           NEW a \in Stage, NEW b \in Stage, a.level <= m, b.level > 0,
           NEW item, Passes(ss, D, a, item, b)
    PROVE  Passes(new, E, a, item, b)
<1>1. a.level \in Nat /\ b.level \in Nat
  BY DEF Stage
<1>2. ASSUME NEW p, NEW op \in Jumps, NEW h, a.level > 0, Awaits(ss[a.level], D[a.level], p, op, h)
      PROVE  Awaits(new[a.level], E[a.level], p, op, h)
  <2>1. a.level \in 1..m
    BY <1>1, <1>2
  <2>2. CASE a.level < m
    BY <1>2, <2>1, <2>2 DEF Carries
  <2>3. CASE a.level = m
    <3>1. Keeps(Code(ss[a.level]), D[a.level], Code(new[a.level]), E[a.level])
      BY <2>1, <2>3 DEF Carries
    <3> QED BY <1>2, <3>1, Zenon DEF Keeps, Awaits
  <2> QED BY <1>1, <2>2, <2>3
<1>3. OP.JUMP \in Jumps /\ OP.JUMP_NOT_TRUTHY \in Jumps
  BY DEF Jumps
<1>4. CASE item.do = "compile" /\ Compiles(a, item.node, b)
  BY <1>4 DEF Passes
<1>5. CASE item.do = "emit" /\ Emits(a, item.op, item.operands, b)
  BY <1>5 DEF Passes
<1>6. CASE /\ item.do = "consequence" /\ a.height > 0 /\ AfterStage(a, b, a.height, "inside")
           /\ IsArm(item.consequence)
           /\ item.alternative # NULL => IsArm(item.alternative)
  BY <1>6 DEF Passes
<1>7. CASE /\ item.do = "alternative" /\ a.kind = "value"
           /\ b.level = a.level /\ b.kind = "inside" /\ b.height = a.height + 1
           /\ a.open \ {item.jumpNotTruthy} \subseteq b.open
           /\ Awaits(ss[a.level], D[a.level], item.jumpNotTruthy, OP.JUMP_NOT_TRUTHY, a.height + 1)
           /\ item.alternative # NULL => IsArm(item.alternative)
  <2>1. Awaits(new[a.level], E[a.level], item.jumpNotTruthy, OP.JUMP_NOT_TRUTHY, a.height + 1)
    BY <1>2, <1>3, <1>7
  <2> QED BY <1>7, <2>1 DEF Passes
<1>8. CASE /\ item.do = "endIf" /\ b.level = a.level /\ b.kind = "inside"
           /\ a.open \ {item.jump} \subseteq b.open
           /\ item.popped => a.kind = "value" /\ b.height = a.height + 1
           /\ ~item.popped => b.height = a.height
           /\ Awaits(ss[a.level], D[a.level], item.jump, OP.JUMP, b.height)
  <2>1. Awaits(new[a.level], E[a.level], item.jump, OP.JUMP, b.height)
    BY <1>2, <1>3, <1>8
  <2> QED BY <1>8, <2>1 DEF Passes
<1>9. CASE /\ item.do = "endFunction" /\ a.kind # "inside" /\ a.open = {} /\ a.level > 1
           /\ b.level = a.level - 1 /\ b.kind = "inside"
           /\ Good(ss[b.level], D[b.level], b.open)
           /\ b.height = D[b.level][ss[b.level].length] + 1
  <2>1. b.level \in 1..m /\ b.level < m
    BY <1>1, <1>9
  <2>2. new[b.level] = ss[b.level] /\ E[b.level] = D[b.level]
    BY <2>1 DEF Carries
  <2> QED BY <1>9, <2>2 DEF Passes
<1> QED BY <1>4, <1>5, <1>6, <1>7, <1>8, <1>9 DEF Passes

LEMMA LeadsStill ==
    ASSUME NEW ss, NEW D, NEW new, NEW E, NEW m \in Nat, Carries(ss, D, new, E, m),
           NEW items, NEW a, NEW b, Leads(ss, D, items, a, b), a.level <= m, b.level > 0
    PROVE  Leads(new, E, items, a, b)
<1> DEFINE n == Len(items)
<1>1. n \in Nat /\ IsSequence(items)
  BY SequenceForm DEF Leads
<1>2. PICK v : Walk(ss, D, items, v) /\ v[1] = a /\ v[n + 1] = b
  BY DEF Leads
<1> HIDE DEF n
<1>3. /\ \A i \in 1..n + 1 : v[i] \in Stage
      /\ \A i \in 1..n : Passes(ss, D, v[i], items[i], v[i+1])
      /\ \A i, j \in 1..n + 1 : i <= j => v[j].level <= v[i].level
  BY <1>2 DEF Walk, n
<1>4. ASSUME NEW i \in 1..n + 1 PROVE v[i] \in Stage /\ v[i].level <= m /\ v[i].level > 0
  <2>1. 1 \in 1..n + 1 /\ n + 1 \in 1..n + 1 /\ 1 <= i /\ i <= n + 1
    BY <1>1
  <2>2. v[i].level <= v[1].level /\ v[n + 1].level <= v[i].level
    BY <1>3, <2>1
  <2>3. v[i].level \in Nat /\ a.level \in Nat /\ b.level \in Nat
    BY <1>2, <1>3, <2>1 DEF Stage
  <2> QED BY <1>2, <1>3, <2>2, <2>3
<1>5. ASSUME NEW i \in 1..n PROVE Passes(new, E, v[i], items[i], v[i+1])
  <2>1. i \in 1..n + 1 /\ i + 1 \in 1..n + 1
    BY <1>1
  <2>2. Passes(ss, D, v[i], items[i], v[i+1])
    BY <1>3
  <2> QED BY <1>4, <2>1, <2>2, PassesStill
<1>6. Walk(new, E, items, v)
  BY <1>2, <1>5 DEF Walk, n
<1> QED BY <1>1, <1>2, <1>6 DEF Leads, n

-----------------------------------------------------------------------------
(* The stages of the calls that a node makes *)

At(a, height, kind) == [level |-> a.level, height |-> height, kind |-> kind, open |-> a.open]

(* k more operands, in the same scope.                                     *)
Raised(a, b, k) ==
    b \in Stage /\ b.level = a.level /\ b.open = a.open /\ b.height = a.height + k

LEMMA AtStage ==
    ASSUME NEW a \in Stage, NEW height \in Nat, NEW kind \in {"done", "value", "inside"}
    PROVE  At(a, height, kind) \in Stage /\ AfterStage(a, At(a, height, kind), height, kind)
BY DEF Stage, At, AfterStage

LEMMA LeadsCompile ==
    ASSUME NEW ss, NEW D, NEW a \in Stage, NEW b \in Stage, NEW node, Compiles(a, node, b)
    PROVE  Leads(ss, D, << Compile(node) >>, a, b)
<1> DEFINE item == Compile(node)
<1>1. item.do = "compile" /\ item.node = node
  BY DEF Compile
<1>2. b.level = a.level /\ a.level \in Nat
  BY DEF Compiles, AfterStage, Stage
<1> HIDE DEF item
<1>3. Passes(ss, D, a, item, b)
  BY <1>1 DEF Passes
<1>4. b.level <= a.level
  BY <1>2
<1>5. Leads(ss, D, << item >>, a, b)
  BY <1>3, <1>4, LeadsOne
<1> QED BY <1>5 DEF item

LEMMA LeadsEmit ==
    ASSUME NEW ss, NEW D, NEW a \in Stage, NEW b \in Stage,
           NEW op \in Deferred, NEW xs, Emits(a, op, xs, b)
    PROVE  Leads(ss, D, << EmitLater(op, xs) >>, a, b)
<1> DEFINE item == EmitLater(op, xs)
<1>1. item.do = "emit" /\ item.op = op /\ item.operands = xs
  BY DEF EmitLater
<1>2. b.level = a.level /\ a.level \in Nat
  BY DEF Emits, AfterStage, Stage
<1> HIDE DEF item
<1>3. Passes(ss, D, a, item, b)
  BY <1>1 DEF Passes
<1>4. b.level <= a.level
  BY <1>2
<1>5. Leads(ss, D, << item >>, a, b)
  BY <1>3, <1>4, LeadsOne
<1> QED BY <1>5 DEF item

LEMMA LeadsExpression ==
    ASSUME NEW ss, NEW D, NEW a \in Stage, NEW node, node.type \in Expressions
    PROVE  \E b : Leads(ss, D, << Compile(node) >>, a, b) /\ Raised(a, b, 1)
<1> DEFINE b == At(a, a.height + 1, "inside")
<1>1. a.height + 1 \in Nat
  BY DEF Stage
<1>2. b \in Stage /\ AfterStage(a, b, a.height + 1, "inside")
  BY <1>1, AtStage
<1> HIDE DEF b
<1>3. Compiles(a, node, b)
  BY <1>2 DEF Compiles
<1>4. Leads(ss, D, << Compile(node) >>, a, b)
  BY <1>2, <1>3, LeadsCompile
<1> QED BY <1>2, <1>4 DEF Raised, AfterStage

LEMMA CompiledAll ==
    ASSUME NEW nodes, IsSequence(nodes)
    PROVE  /\ IsSequence(CompileAll(nodes)) /\ Len(CompileAll(nodes)) = Len(nodes)
           /\ \A i \in 1..Len(nodes) : CompileAll(nodes)[i] = Compile(nodes[i])
<1>1. Len(nodes) \in Nat /\ DOMAIN nodes = 1..Len(nodes)
  BY SequenceForm
<1> DEFINE n == Len(nodes)
           S == {Compile(nodes[i]) : i \in 1..n}
           f == [i \in 1..n |-> Compile(nodes[i])]
<1>2. f \in [1..n -> S] /\ CompileAll(nodes) = f
  BY <1>1 DEF CompileAll
<1>3. f \in Seq(S) /\ Len(f) = n
  <2> HIDE DEF f, S
  <2> QED BY <1>1, <1>2, SequenceMade
<1> QED BY <1>2, <1>3 DEF IsSequence

LEMMA CompiledPasses ==
    ASSUME NEW ss, NEW D, NEW a, NEW b, NEW node, Compiles(a, node, b)
    PROVE  Passes(ss, D, a, Compile(node), b)
BY DEF Passes, Compile

(* Expressions leave a value each.                                         *)
LEMMA LeadsExpressions ==
    ASSUME NEW ss, NEW D, NEW a \in Stage, NEW nodes, IsSequence(nodes), AreExpressions(nodes)
    PROVE  \E b : Leads(ss, D, CompileAll(nodes), a, b) /\ Raised(a, b, Len(nodes))
<1> DEFINE n == Len(nodes)
           items == CompileAll(nodes)
<1>1. /\ IsSequence(items) /\ Len(items) = n
      /\ \A i \in 1..n : items[i] = Compile(nodes[i])
  BY CompiledAll
<1>2. /\ n \in Nat /\ \A i \in 1..n : nodes[i].type \in Expressions
      /\ a.level \in Nat /\ a.height \in Nat
  BY SequenceForm DEF AreExpressions, Stage
<1> HIDE DEF n, items
<1> DEFINE v == [i \in 1..n + 1 |-> IF i = 1 THEN a ELSE At(a, a.height + (i - 1), "inside")]
<1>3. ASSUME NEW i \in 1..n + 1
      PROVE  /\ v[i] \in Stage /\ v[i].level = a.level /\ v[i].open = a.open
             /\ v[i].height = a.height + (i - 1)
             /\ i # 1 => v[i].kind = "inside"
  <2>1. CASE i = 1
    BY <1>2, <2>1
  <2>2. CASE i # 1
    <3>1. a.height + (i - 1) \in Nat
      BY <1>2
    <3>2. AfterStage(a, At(a, a.height + (i - 1), "inside"), a.height + (i - 1), "inside")
          /\ At(a, a.height + (i - 1), "inside") \in Stage
      BY <3>1, AtStage
    <3> QED BY <2>2, <3>2 DEF AfterStage
  <2> QED BY <2>1, <2>2
<1>4. v \in [1..n + 1 -> Stage] /\ v[1] = a
  BY <1>2, <1>3
<1> HIDE DEF v
<1>5. ASSUME NEW i \in 1..n PROVE Passes(ss, D, v[i], items[i], v[i+1])
  <2>1. i \in 1..n + 1 /\ i + 1 \in 1..n + 1 /\ i + 1 # 1
    BY <1>2
  <2>2. v[i+1].height = v[i].height + 1
    BY <1>2, <1>3, <2>1
  <2>3. AfterStage(v[i], v[i+1], v[i].height + 1, "inside")
    BY <1>3, <2>1, <2>2 DEF AfterStage
  <2>4. Compiles(v[i], nodes[i], v[i+1])
    BY <1>2, <2>3 DEF Compiles
  <2> QED BY <1>1, <2>4, CompiledPasses
<1>6. \A i, j \in 1..n + 1 : i <= j => v[j].level <= v[i].level
  BY <1>2, <1>3
<1>7. Walk(ss, D, items, v)
  BY <1>1, <1>4, <1>5, <1>6 DEF Walk
<1>8. n + 1 \in 1..n + 1 /\ (n + 1) - 1 = n
  BY <1>2
<1>9. Leads(ss, D, items, a, v[n + 1]) /\ Raised(a, v[n + 1], n)
  BY <1>1, <1>3, <1>4, <1>7, <1>8 DEF Leads, Raised
<1> QED BY <1>9 DEF n, items

(* Statements leave nothing, and the last one decides of what kind.        *)
KindOfBlock(nodes, kind) == IF Len(nodes) = 0 THEN kind ELSE KindOfStatement(nodes[Len(nodes)])

BlockLeads(ss, D, nodes, a) ==
    \E b : /\ Leads(ss, D, CompileAll(nodes), a, b) /\ Raised(a, b, 0)
           /\ b.kind = KindOfBlock(nodes, a.kind)

LEMMA LeadsStatements ==
    ASSUME NEW ss, NEW D, NEW a \in Stage, NEW nodes, IsSequence(nodes), AreStatements(nodes)
    PROVE  BlockLeads(ss, D, nodes, a)
<1> DEFINE n == Len(nodes)
           items == CompileAll(nodes)
<1>1. /\ IsSequence(items) /\ Len(items) = n
      /\ \A i \in 1..n : items[i] = Compile(nodes[i])
  BY CompiledAll
<1>2. /\ n \in Nat /\ \A i \in 1..n : nodes[i].type \in Statements
      /\ a.level \in Nat /\ a.height \in Nat
  BY SequenceForm DEF AreStatements, Stage
<1> HIDE DEF n, items
<1> DEFINE v == [i \in 1..n + 1 |-> IF i = 1 THEN a
                                    ELSE At(a, a.height, KindOfStatement(nodes[i-1]))]
<1>3. ASSUME NEW i \in 1..n + 1
      PROVE  /\ v[i] \in Stage /\ v[i].level = a.level /\ v[i].open = a.open
             /\ v[i].height = a.height
             /\ i # 1 => v[i].kind = KindOfStatement(nodes[i-1])
             /\ i = 1 => v[i].kind = a.kind
  <2>1. CASE i = 1
    BY <1>2, <2>1
  <2>2. CASE i # 1
    <3>1. KindOfStatement(nodes[i-1]) \in {"done", "value", "inside"}
      BY DEF KindOfStatement
    <3>2. AfterStage(a, At(a, a.height, KindOfStatement(nodes[i-1])), a.height,
                     KindOfStatement(nodes[i-1]))
          /\ At(a, a.height, KindOfStatement(nodes[i-1])) \in Stage
      BY <1>2, <3>1, AtStage
    <3> QED BY <2>2, <3>2 DEF AfterStage
  <2> QED BY <2>1, <2>2
<1>4. v \in [1..n + 1 -> Stage] /\ v[1] = a
  BY <1>2, <1>3
<1> HIDE DEF v
<1>5. ASSUME NEW i \in 1..n PROVE Passes(ss, D, v[i], items[i], v[i+1])
  <2>1. i \in 1..n + 1 /\ i + 1 \in 1..n + 1 /\ i + 1 # 1 /\ (i + 1) - 1 = i
    BY <1>2
  <2>2. v[i+1].height = v[i].height /\ v[i+1].kind = KindOfStatement(nodes[i])
    BY <1>2, <1>3, <2>1
  <2>3. AfterStage(v[i], v[i+1], v[i].height, KindOfStatement(nodes[i]))
    BY <1>3, <2>1, <2>2 DEF AfterStage
  <2>4. Compiles(v[i], nodes[i], v[i+1])
    BY <1>2, <2>3 DEF Compiles
  <2> QED BY <1>1, <2>4, CompiledPasses
<1>6. \A i, j \in 1..n + 1 : i <= j => v[j].level <= v[i].level
  BY <1>2, <1>3
<1>7. Walk(ss, D, items, v)
  BY <1>1, <1>4, <1>5, <1>6 DEF Walk
<1>8. n + 1 \in 1..n + 1 /\ (n + 1) - 1 = n /\ (n + 1 = 1 <=> n = 0)
  BY <1>2
<1>9. Leads(ss, D, items, a, v[n + 1]) /\ Raised(a, v[n + 1], 0)
  <2>1. a.height + 0 = a.height
    BY <1>2
  <2> QED BY <1>1, <1>3, <1>4, <1>7, <1>8, <2>1 DEF Leads, Raised
<1>10. v[n + 1].kind = KindOfBlock(nodes, a.kind)
  BY <1>3, <1>8 DEF KindOfBlock, n
<1> QED BY <1>9, <1>10 DEF items, BlockLeads

(* The operands of an instruction and then the instruction.                *)
LEMMA LeadsOperands ==
    ASSUME NEW ss, NEW D, NEW a \in Stage, NEW b \in Stage, NEW items,
           NEW c, Leads(ss, D, items, a, c), NEW k \in Nat, Raised(a, c, k),
           NEW op, NEW xs, Takes(op, xs), op \in Deferred,
           Needs(op, xs) = k, AfterStage(a, b, a.height + Leaves(op), KindAfter(op))
    PROVE  Leads(ss, D, items \o << EmitLater(op, xs) >>, a, b)
<1>1. a.height \in Nat /\ Leaves(op) \in {0, 1} /\ c \in Stage
  BY NeedsNumber DEF Stage, Raised
<1>2. Needs(op, xs) <= c.height /\ c.height - Needs(op, xs) + Leaves(op) = a.height + Leaves(op)
  BY <1>1 DEF Raised
<1>3. AfterStage(c, b, c.height - Needs(op, xs) + Leaves(op), KindAfter(op))
  BY <1>2 DEF AfterStage, Raised
<1>4. Emits(c, op, xs, b)
  BY <1>2, <1>3 DEF Emits, Deferred
<1>5. Leads(ss, D, << EmitLater(op, xs) >>, c, b)
  BY <1>1, <1>4, LeadsEmit
<1> QED BY <1>5, LeadsOn

LEMMA LeadsOneOperand ==
    ASSUME NEW ss, NEW D, NEW a \in Stage, NEW b \in Stage, NEW node, node.type \in Expressions,
           NEW op, NEW xs, Takes(op, xs), op \in Deferred,
           Needs(op, xs) = 1, AfterStage(a, b, a.height + Leaves(op), KindAfter(op))
    PROVE  Leads(ss, D, << Compile(node), EmitLater(op, xs) >>, a, b)
<1> DEFINE x == Compile(node)
           y == EmitLater(op, xs)
<1>1. PICK c : Leads(ss, D, << x >>, a, c) /\ Raised(a, c, 1)
  BY LeadsExpression
<1>2. Leads(ss, D, << x >> \o << y >>, a, b)
  BY <1>1, LeadsOperands
<1>3. << x >> \o << y >> = << x, y >>
  BY PairJoined
<1> QED BY <1>2, <1>3

LEMMA LeadsTwoOperands ==
    ASSUME NEW ss, NEW D, NEW a \in Stage, NEW b \in Stage,
           NEW left, left.type \in Expressions, NEW right, right.type \in Expressions,
           NEW op, NEW xs, Takes(op, xs), op \in Deferred,
           Needs(op, xs) = 2, AfterStage(a, b, a.height + Leaves(op), KindAfter(op))
    PROVE  Leads(ss, D, << Compile(left), Compile(right), EmitLater(op, xs) >>, a, b)
<1> DEFINE x == Compile(left)
           y == Compile(right)
           z == EmitLater(op, xs)
<1>1. PICK c : Leads(ss, D, << x >>, a, c) /\ Raised(a, c, 1)
  BY LeadsExpression
<1>2. c \in Stage
  BY <1>1 DEF Raised
<1>3. PICK d : Leads(ss, D, << y >>, c, d) /\ Raised(c, d, 1)
  BY <1>2, LeadsExpression
<1>4. Raised(a, d, 2)
  <2>1. a.height \in Nat
    BY DEF Stage
  <2> QED BY <1>1, <1>3, <2>1 DEF Raised
<1>5. Leads(ss, D, << x >> \o << y >>, a, d)
  BY <1>1, <1>3, LeadsOn
<1>6. Leads(ss, D, (<< x >> \o << y >>) \o << z >>, a, b)
  BY <1>4, <1>5, LeadsOperands
<1>7. (<< x >> \o << y >>) \o << z >> = << x, y, z >>
  BY ThreeJoined
<1> QED BY <1>6, <1>7

LEMMA LeadsManyOperands ==
    ASSUME NEW ss, NEW D, NEW a \in Stage, NEW b \in Stage,
           NEW nodes, IsSequence(nodes), AreExpressions(nodes),
           NEW op, NEW xs, Takes(op, xs), op \in Deferred,
           Needs(op, xs) = Len(nodes), AfterStage(a, b, a.height + Leaves(op), KindAfter(op))
    PROVE  Leads(ss, D, CompileAll(nodes) \o << EmitLater(op, xs) >>, a, b)
<1>1. PICK c : Leads(ss, D, CompileAll(nodes), a, c) /\ Raised(a, c, Len(nodes))
  BY LeadsExpressions
<1>2. Len(nodes) \in Nat
  BY SequenceForm
<1> QED BY <1>1, <1>2, LeadsOperands

LEMMA LeadsArguments ==
    ASSUME NEW ss, NEW D, NEW a \in Stage, NEW b \in Stage,
           NEW fn, fn.type \in Expressions, NEW nodes, IsSequence(nodes), AreExpressions(nodes),
           NEW op, NEW xs, Takes(op, xs), op \in Deferred,
           Needs(op, xs) = Len(nodes) + 1, AfterStage(a, b, a.height + Leaves(op), KindAfter(op))
    PROVE  Leads(ss, D, << Compile(fn) >> \o CompileAll(nodes) \o << EmitLater(op, xs) >>, a, b)
<1>1. PICK c : Leads(ss, D, << Compile(fn) >>, a, c) /\ Raised(a, c, 1)
  BY LeadsExpression
<1>2. c \in Stage /\ a.height \in Nat /\ Len(nodes) \in Nat
  BY <1>1, SequenceForm DEF Raised, Stage
<1>3. PICK d : Leads(ss, D, CompileAll(nodes), c, d) /\ Raised(c, d, Len(nodes))
  BY <1>2, LeadsExpressions
<1>4. Raised(a, d, Len(nodes) + 1)
  BY <1>1, <1>2, <1>3 DEF Raised
<1>5. Leads(ss, D, << Compile(fn) >> \o CompileAll(nodes), a, d)
  BY <1>1, <1>3, LeadsOn
<1>6. Len(nodes) + 1 \in Nat
  BY <1>2
<1> QED BY <1>4, <1>5, <1>6, LeadsOperands

(* The instructions that are emitted behind their operands.                *)
LEMMA OperatorShape ==
    /\ \A op \in BinaryOps : /\ op \in Deferred
                             /\ Len(Widths(op)) = 0 /\ Needs(op, << >>) = 2
                             /\ Leaves(op) = 1 /\ KindAfter(op) = "inside"
    /\ \A op \in {OP.BANG, OP.MINUS} : /\ op \in Deferred
                                       /\ Len(Widths(op)) = 0 /\ Needs(op, << >>) = 1
                                       /\ Leaves(op) = 1 /\ KindAfter(op) = "inside"
<1>1. ASSUME NEW op \in BinaryOps
      PROVE  /\ op \in Deferred /\ Len(Widths(op)) = 0
             /\ Needs(op, << >>) = 2 /\ Leaves(op) = 1 /\ KindAfter(op) = "inside"
  <2>1. op \in {1, 3, 4, 5, 9, 10, 11, 22}
    BY Opcodes DEF BinaryOps
  <2>2. op \in Deferred
    BY <2>1, Opcodes DEF OpCode, Jumps, Loads, Deferred
  <2>3. Len(Widths(op)) = 0
    <3>1. op \notin TwoByteOps \cup OneByteOps \cup {OP.CLOSURE}
      BY <2>1, Opcodes DEF TwoByteOps, OneByteOps
    <3> QED BY <3>1 DEF Widths
  <2>4. Needs(op, << >>) = 2
    <3>1. op \notin Loads \cup {OP.JUMP, OP.RETURN} \cup {OP.ARRAY, OP.HASH, OP.CALL, OP.CLOSURE}
      BY <2>1, Opcodes DEF Loads
    <3> QED BY <3>1 DEF Needs
  <2>5. op \notin {OP.POP, OP.SET_GLOBAL, OP.SET_LOCAL} \cup Jumps \cup Ends \cup TakesValue
    BY <2>1, Opcodes DEF Jumps, Ends, TakesValue
  <2> QED BY <2>2, <2>3, <2>4, <2>5 DEF Leaves, KindAfter
<1>2. ASSUME NEW op \in {OP.BANG, OP.MINUS}
      PROVE  /\ op \in Deferred /\ Len(Widths(op)) = 0
             /\ Needs(op, << >>) = 1 /\ Leaves(op) = 1 /\ KindAfter(op) = "inside"
  <2>1. op \in {12, 13}
    BY Opcodes
  <2>2. op \in Deferred
    BY <2>1, Opcodes DEF OpCode, Jumps, Loads, Deferred
  <2>3. Len(Widths(op)) = 0
    <3>1. op \notin TwoByteOps \cup OneByteOps \cup {OP.CLOSURE}
      BY <2>1, Opcodes DEF TwoByteOps, OneByteOps
    <3> QED BY <3>1 DEF Widths
  <2>4. Needs(op, << >>) = 1
    <3>1. op \notin Loads \cup {OP.JUMP, OP.RETURN} \cup BinaryOps
                    \cup {OP.ARRAY, OP.HASH, OP.CALL, OP.CLOSURE}
      BY <2>1, Opcodes DEF Loads, BinaryOps
    <3> QED BY <3>1 DEF Needs
  <2>5. op \notin {OP.POP, OP.SET_GLOBAL, OP.SET_LOCAL} \cup Jumps \cup Ends \cup TakesValue
    BY <2>1, Opcodes DEF Jumps, Ends, TakesValue
  <2> QED BY <2>2, <2>3, <2>4, <2>5 DEF Leaves, KindAfter
<1> QED BY <1>1, <1>2

LEMMA CollectShape ==
    /\ \A op \in {OP.ARRAY, OP.HASH, OP.CALL, OP.CLOSURE} :
         /\ op \in OpCode \ (Jumps \cup {OP.RETURN})
         /\ Leaves(op) = 1 /\ KindAfter(op) = "inside"
    /\ \A op \in {OP.ARRAY, OP.HASH, OP.CALL} : op \in Deferred /\ Len(Widths(op)) = 1
    /\ Len(Widths(OP.CLOSURE)) = 2
    /\ \A xs : /\ Needs(OP.ARRAY, xs) = xs[1] /\ Needs(OP.HASH, xs) = xs[1]
               /\ Needs(OP.CALL, xs) = xs[1] + 1 /\ Needs(OP.CLOSURE, xs) = xs[2]
<1>1. ASSUME NEW op \in {OP.ARRAY, OP.HASH, OP.CALL, OP.CLOSURE}
      PROVE  /\ op \in OpCode \ (Jumps \cup {OP.RETURN})
             /\ Leaves(op) = 1 /\ KindAfter(op) = "inside"
  <2>1. op \in {20, 21, 23, 27}
    BY Opcodes
  <2>2. op \in OpCode \ (Jumps \cup {OP.RETURN})
    BY <2>1, Opcodes DEF OpCode, Jumps
  <2>3. op \notin {OP.POP, OP.SET_GLOBAL, OP.SET_LOCAL} \cup Jumps \cup Ends \cup TakesValue
    BY <2>1, Opcodes DEF Jumps, Ends, TakesValue
  <2> QED BY <2>2, <2>3 DEF Leaves, KindAfter
<1>2. ASSUME NEW op \in {OP.ARRAY, OP.HASH, OP.CALL} PROVE op \in Deferred /\ Len(Widths(op)) = 1
  <2>1. op \in TwoByteOps \cup OneByteOps
    BY DEF TwoByteOps, OneByteOps
  <2>2. op \in {20, 21, 23}
    BY Opcodes
  <2>3. op \in Deferred
    BY <2>2, Opcodes DEF OpCode, Jumps, Loads, Deferred
  <2> QED BY <2>1, <2>3 DEF Widths
<1>3. Len(Widths(OP.CLOSURE)) = 2
  <2>1. OP.CLOSURE \notin TwoByteOps \cup OneByteOps
    BY Opcodes DEF TwoByteOps, OneByteOps
  <2> QED BY <2>1 DEF Widths
<1>4. ASSUME NEW xs
      PROVE  /\ Needs(OP.ARRAY, xs) = xs[1] /\ Needs(OP.HASH, xs) = xs[1]
             /\ Needs(OP.CALL, xs) = xs[1] + 1 /\ Needs(OP.CLOSURE, xs) = xs[2]
  <2>1. \A op \in {OP.ARRAY, OP.HASH, OP.CALL, OP.CLOSURE} :
           op \notin Loads \cup {OP.JUMP, OP.RETURN} \cup BinaryOps
    BY Opcodes DEF Loads, BinaryOps
  <2>2. OP.CALL \notin {OP.ARRAY, OP.HASH} /\ OP.CLOSURE \notin {OP.ARRAY, OP.HASH, OP.CALL}
    BY Opcodes
  <2> QED BY <2>1, <2>2 DEF Needs
<1> QED BY <1>1, <1>2, <1>3, <1>4

LEMMA TakingShape ==
    /\ \A op \in {OP.POP, OP.RETURN_VALUE} :
         /\ op \in Deferred /\ Len(Widths(op)) = 0
         /\ Needs(op, << >>) = 1 /\ Leaves(op) = 0 /\ KindAfter(op) = "value"
    /\ \A op \in {OP.SET_GLOBAL, OP.SET_LOCAL} :
         /\ op \in Deferred /\ Len(Widths(op)) = 1
         /\ \A xs : Needs(op, xs) = 1
         /\ Leaves(op) = 0 /\ KindAfter(op) = "done"
<1>1. ASSUME NEW op \in {OP.POP, OP.RETURN_VALUE}
      PROVE  /\ op \in Deferred /\ Len(Widths(op)) = 0
             /\ Needs(op, << >>) = 1 /\ Leaves(op) = 0 /\ KindAfter(op) = "value"
  <2>1. op \in OpCode /\ op \notin Jumps /\ Len(Widths(op)) = 0 /\ Needs(op, << >>) = 1
    BY PopShape
  <2>2. op \in {2, 25}
    BY Opcodes
  <2>3. op \in Deferred
    BY <2>2, Opcodes DEF OpCode, Jumps, Loads, Deferred
  <2> QED BY <2>1, <2>3 DEF Leaves, KindAfter, TakesValue, Ends
<1>2. ASSUME NEW op \in {OP.SET_GLOBAL, OP.SET_LOCAL}
      PROVE  /\ op \in Deferred /\ Len(Widths(op)) = 1
             /\ \A xs : Needs(op, xs) = 1
             /\ Leaves(op) = 0 /\ KindAfter(op) = "done"
  <2>1. op \in {16, 18}
    BY Opcodes
  <2>2. op \in Deferred
    BY <2>1, Opcodes DEF OpCode, Jumps, Loads, Deferred
  <2>3. Len(Widths(op)) = 1
    <3>1. op \in TwoByteOps \cup OneByteOps
      BY DEF TwoByteOps, OneByteOps
    <3> QED BY <3>1 DEF Widths
  <2>4. ASSUME NEW xs PROVE Needs(op, xs) = 1
    <3>1. op \notin Loads \cup {OP.JUMP, OP.RETURN} \cup BinaryOps
                    \cup {OP.ARRAY, OP.HASH, OP.CALL, OP.CLOSURE}
      BY <2>1, Opcodes DEF Loads, BinaryOps
    <3> QED BY <3>1 DEF Needs
  <2>5. op \notin TakesValue
    BY <2>1, Opcodes DEF TakesValue
  <2> QED BY <2>2, <2>3, <2>4, <2>5 DEF Leaves, KindAfter
<1> QED BY <1>1, <1>2

-----------------------------------------------------------------------------
(* All open scopes with the calls that go on in them *)

(* Compilation stands at stage a in scope s with the certificate d.        *)
StandsAt(s, d, a) ==
    /\ a \in Stage /\ Good(s, d, a.open) /\ d[s.length] = a.height
    /\ a.kind = "value" => ValueThere(s, d, a.open)
    /\ a.kind = "done" => NoValue(s)

(* The calls lead to the end of the program, with nothing on the stack.    *)
Finishes(ss, D, items, a) ==
    \E c : Leads(ss, D, items, a, c) /\ c.level = 1 /\ c.height = 0 /\ c.open = {}

Compiling(ss, D, items) ==
    \E a : /\ a.level = Len(ss) /\ StandsAt(ss[Len(ss)], D[Len(ss)], a)
           /\ Finishes(ss, D, items, a)

ScopesGood(ss, D) == \A k \in 1..Len(ss) : \E J : Good(ss[k], D[k], J)

Sane(ss, D, items) == IsSequence(ss) /\ Len(ss) > 0 /\ ScopesGood(ss, D) /\ Compiling(ss, D, items)

Replacing(D, n, E) == [k \in 1..n |-> IF k = n THEN E ELSE D[k]]

(* The first call, where it stands and what it leaves behind.              *)
Stands(ss, D, items, a, b) ==
    /\ a \in Stage /\ b \in Stage /\ a.level = Len(ss) /\ b.level > 0
    /\ StandsAt(ss[Len(ss)], D[Len(ss)], a)
    /\ Passes(ss, D, a, Head(items), b) /\ Finishes(ss, D, Tail(items), b)

LEMMA FirstCall ==
    ASSUME NEW ss, NEW D, NEW items, items # << >>, Compiling(ss, D, items)
    PROVE  \E a, b : Stands(ss, D, items, a, b)
<1>1. PICK a : /\ a.level = Len(ss) /\ StandsAt(ss[Len(ss)], D[Len(ss)], a)
               /\ Finishes(ss, D, items, a)
  BY DEF Compiling
<1>2. PICK c : Leads(ss, D, items, a, c) /\ c.level = 1 /\ c.height = 0 /\ c.open = {}
  BY <1>1 DEF Finishes
<1>3. PICK b : Passes(ss, D, a, Head(items), b) /\ Leads(ss, D, Tail(items), b, c)
  BY <1>2, LeadsTail
<1>4. b \in Stage /\ c.level <= b.level
  BY <1>3, LeadsStages
<1>5. b.level > 0
  BY <1>2, <1>4 DEF Stage
<1>6. a \in Stage
  BY <1>1 DEF StandsAt
<1>7. Finishes(ss, D, Tail(items), b)
  BY <1>2, <1>3 DEF Finishes
<1>8. Stands(ss, D, items, a, b)
  BY <1>1, <1>3, <1>4, <1>5, <1>6, <1>7 DEF Stands
<1> QED BY <1>8

LEMMA FinishesOn ==
    ASSUME NEW ss, NEW D, NEW x, NEW rest, NEW a, NEW b, Leads(ss, D, x, a, b),
           Finishes(ss, D, rest, b)
    PROVE  Finishes(ss, D, x \o rest, a)
<1>1. PICK c : Leads(ss, D, rest, b, c) /\ c.level = 1 /\ c.height = 0 /\ c.open = {}
  BY DEF Finishes
<1>2. Leads(ss, D, x \o rest, a, c)
  BY <1>1, LeadsOn
<1> QED BY <1>1, <1>2 DEF Finishes

LEMMA FinishesStill ==
    ASSUME NEW ss, NEW D, NEW new, NEW E, NEW m \in Nat, Carries(ss, D, new, E, m),
           NEW rest, NEW b, Finishes(ss, D, rest, b), b.level <= m
    PROVE  Finishes(new, E, rest, b)
<1>1. PICK c : Leads(ss, D, rest, b, c) /\ c.level = 1 /\ c.height = 0 /\ c.open = {}
  BY DEF Finishes
<1>2. c.level > 0
  BY <1>1
<1>3. Leads(new, E, rest, b, c)
  BY <1>1, <1>2, LeadsStill
<1> QED BY <1>1, <1>3 DEF Finishes

(* Calls are made within the scopes that are open.                         *)
LEMMA CallsMade ==
    ASSUME NEW ss, NEW D, NEW items, Sane(ss, D, items),
           NEW a, NEW b, Stands(ss, D, items, a, b), NEW x, Leads(ss, D, x, a, b)
    PROVE  Sane(ss, D, x \o Tail(items))
<1>1. Finishes(ss, D, x \o Tail(items), a)
  BY FinishesOn DEF Stands
<1> QED BY <1>1 DEF Sane, Compiling, Stands

WithTop(new, ss, s) == IsSequence(ss) /\ Len(ss) > 0 /\ new = [ss EXCEPT ![Len(ss)] = s]

LEMMA TopOf ==
    ASSUME NEW ss, NEW s, NEW new, WithTop(new, ss, s)
    PROVE  /\ IsSequence(new) /\ Len(new) = Len(ss)
           /\ \A i \in 1..Len(ss) : new[i] = IF i = Len(ss) THEN s ELSE ss[i]
<1> DEFINE n == Len(ss)
<1>0. IsSequence(ss) /\ n > 0 /\ new = [ss EXCEPT ![n] = s]
  BY DEF WithTop
<1>1. n \in Nat /\ DOMAIN ss = 1..n
  BY <1>0, SequenceForm
<1>2. PICK S : ss \in Seq(S)
  BY <1>0 DEF IsSequence
<1>3. new \in Seq(S \cup {s}) /\ Len(new) = n /\ \A i \in 1..n : new[i] = IF i = n THEN s ELSE ss[i]
  <2> HIDE DEF n
  <2> QED BY <1>0, <1>1, <1>2
<1> QED BY <1>3 DEF IsSequence

(* The innermost scope is written, and calls may be made after that.       *)
LEMMA TopReplaced ==
    ASSUME NEW ss, NEW D, IsSequence(ss), NEW n, n = Len(ss), n > 0, ScopesGood(ss, D),
           NEW s, NEW E, Keeps(Code(ss[n]), D[n], Code(s), E),
           NEW new, new = [ss EXCEPT ![n] = s], NEW F, F = Replacing(D, n, E),
           NEW a, StandsAt(s, E, a), a.level = n,
           NEW b \in Stage, b.level = n, NEW rest, Finishes(ss, D, rest, b),
           NEW x, Leads(new, F, x, a, b)
    PROVE  Sane(new, F, x \o rest)
<1>1. n \in Nat /\ n \in 1..n
  BY SequenceForm
<1>2. /\ IsSequence(new) /\ Len(new) = n
      /\ \A i \in 1..n : new[i] = IF i = n THEN s ELSE ss[i]
  <2>1. WithTop(new, ss, s)
    BY DEF WithTop
  <2> QED BY <2>1, TopOf
<1>3. \A k \in 1..n : F[k] = IF k = n THEN E ELSE D[k]
  BY DEF Replacing
<1>4. new[n] = s /\ F[n] = E
  BY <1>1, <1>2, <1>3
<1>5. ScopesGood(new, F)
  <2>1. ASSUME NEW k \in 1..n PROVE \E J : Good(new[k], F[k], J)
    <3>1. CASE k = n
      BY <1>4, <3>1 DEF StandsAt
    <3>2. CASE k # n
      <4>1. new[k] = ss[k] /\ F[k] = D[k]
        BY <1>2, <1>3, <3>2
      <4> QED BY <4>1 DEF ScopesGood
    <3> QED BY <3>1, <3>2
  <2> QED BY <1>2, <2>1 DEF ScopesGood
<1>6. Carries(ss, D, new, F, n)
  <2>1. ASSUME NEW k \in 1..n
        PROVE  IF k < n THEN new[k] = ss[k] /\ F[k] = D[k]
               ELSE Keeps(Code(ss[k]), D[k], Code(new[k]), F[k])
    <3>1. CASE k < n
      BY <1>1, <1>2, <1>3, <3>1
    <3>2. CASE ~(k < n)
      <4>1. k = n
        BY <1>1, <3>2
      <4> QED BY <1>4, <3>2, <4>1
    <3> QED BY <3>1, <3>2
  <2> QED BY <2>1 DEF Carries
<1>7. Finishes(new, F, rest, b)
  <2>1. b.level <= n
    BY <1>1
  <2> QED BY <1>1, <1>6, <2>1, FinishesStill
<1>8. Finishes(new, F, x \o rest, a)
  BY <1>7, FinishesOn
<1>9. Compiling(new, F, x \o rest)
  BY <1>2, <1>4, <1>8 DEF Compiling
<1> QED BY <1>1, <1>2, <1>5, <1>9 DEF Sane

LEMMA TopWritten ==
    ASSUME NEW ss, NEW D, IsSequence(ss), NEW n, n = Len(ss), n > 0, ScopesGood(ss, D),
           NEW s, NEW E, Keeps(Code(ss[n]), D[n], Code(s), E),
           NEW b, StandsAt(s, E, b), b.level = n, NEW rest, Finishes(ss, D, rest, b)
    PROVE  \E F : Sane([ss EXCEPT ![n] = s], F, rest)
<1> DEFINE new == [ss EXCEPT ![n] = s]
           F == Replacing(D, n, E)
<1>1. b \in Stage
  BY DEF StandsAt
<1>2. Leads(new, F, << >>, b, b)
  BY <1>1, LeadsNowhere
<1>3. Sane(new, F, << >> \o rest)
  <2> HIDE DEF new, F
  <2>1. new = [ss EXCEPT ![n] = s] /\ F = Replacing(D, n, E)
    BY DEF new, F
  <2> QED BY <1>1, <1>2, <2>1, TopReplaced
<1>4. << >> \o rest = rest
  <2>1. IsSequence(rest)
    BY DEF Finishes, Leads
  <2> QED BY <2>1 DEF IsSequence
<1> QED BY <1>3, <1>4

-----------------------------------------------------------------------------
(* What is written into the innermost scope, and where compilation stands  *)
(* after it                                                                *)

StandsNext(s, d, new, b) == \E E : StandsAt(new, E, b) /\ Keeps(Code(s), d, Code(new), E)

LEMMA EmitsStands ==
    ASSUME NEW s, NEW d, NEW a, StandsAt(s, d, a), NEW b \in Stage, NEW op, NEW xs,
           Emits(a, op, xs, b), Len(Emit(s, op, xs).bytes) < 256
    PROVE  StandsNext(s, d, Emit(s, op, xs), b)
<1> DEFINE new == Emit(s, op, xs)
           h == b.height
<1>1. Good(s, d, a.open) /\ d[s.length] = a.height /\ a.height \in Nat
  BY DEF StandsAt, Stage
<1>2. /\ Takes(op, xs) /\ op \notin Jumps \cup {OP.RETURN} /\ Needs(op, xs) <= a.height
      /\ b.open = a.open /\ h = a.height - Needs(op, xs) + Leaves(op)
      /\ b.kind = KindAfter(op)
  BY DEF Emits, AfterStage
<1>3. Needs(op, xs) \in Nat /\ Leaves(op) \in {0, 1}
  BY <1>2, NeedsNumber
<1>4. /\ Len(Code(s)) = s.length /\ s.length \in Nat /\ s.length \in DOMAIN d
      /\ \A p \in DOMAIN d : d[p] \in 0..p
  BY <1>1, GoodScope
<1>5. h \in 0..s.length + 1
  <2>1. a.height <= s.length
    BY <1>1, <1>4
  <2> QED BY <1>1, <1>2, <1>3, <1>4, <2>1
<1>6. MayFollow(Code(s), d, op, xs, h)
  <2>1. d[Len(Code(s))] = a.height /\ h \in 0..Len(Code(s)) + 1
    BY <1>1, <1>4, <1>5
  <2> HIDE DEF h
  <2> QED BY <1>2, <2>1 DEF MayFollow
<1>7. PICK E : /\ Good(new, E, a.open) /\ Keeps(Code(s), d, Code(new), E)
               /\ E[new.length] = h /\ new.last.op = op
               /\ op \in TakesValue /\ d[s.length] = h + 1 => ValueThere(new, E, a.open)
  BY <1>1, <1>2, <1>6, EmittedPlain
<1> HIDE DEF new
<1>8. b.kind = "value" => ValueThere(new, E, b.open)
  <2>1. ASSUME b.kind = "value" PROVE op \in TakesValue
    BY <1>2, <2>1 DEF KindAfter
  <2>2. op \in TakesValue => Needs(op, xs) = 1 /\ Leaves(op) = 0
    <3>1. ASSUME op \in TakesValue PROVE Needs(op, xs) = 1 /\ Leaves(op) = 0
      <4>1. Needs(op, << >>) = 1 /\ op \notin {OP.ARRAY, OP.HASH, OP.CALL, OP.CLOSURE}
        BY <3>1, PopShape DEF TakesValue
      <4>2. Needs(op, xs) = Needs(op, << >>)
        BY <4>1, NeedsAlone
      <4>3. Leaves(op) = 0
        BY <3>1 DEF Leaves, TakesValue, Ends
      <4> QED BY <4>1, <4>2, <4>3
    <3> QED BY <3>1
  <2>3. op \in TakesValue => d[s.length] = h + 1
    BY <1>1, <1>2, <2>2
  <2> QED BY <1>2, <1>7, <2>1, <2>3
<1>9. b.kind = "done" => NoValue(new)
  BY <1>2, <1>7 DEF KindAfter, NoValue
<1>10. StandsAt(new, E, b)
  BY <1>2, <1>7, <1>8, <1>9 DEF StandsAt
<1> QED BY <1>7, <1>10 DEF StandsNext, new

LEMMA LoadStands ==
    ASSUME NEW s, NEW d, NEW a, StandsAt(s, d, a), NEW b \in Stage, NEW op \in Loads, NEW xs,
           Takes(op, xs), AfterStage(a, b, a.height + 1, "inside"),
           Len(Emit(s, op, xs).bytes) < 256
    PROVE  StandsNext(s, d, Emit(s, op, xs), b)
<1>1. /\ op \notin Jumps /\ op \notin Ends \cup {OP.JUMP} /\ op \notin TakesValue
      /\ Leaves(op) = 1 /\ Needs(op, xs) = 0
  BY LoadShape
<1>2. op \notin Jumps \cup {OP.RETURN}
  BY <1>1 DEF Ends
<1>3. op \notin {OP.SET_GLOBAL, OP.SET_LOCAL}
  <2>1. op \in {0, 6, 7, 8, 17, 19, 26, 28, 29}
    BY Opcodes DEF Loads
  <2>2. OP.SET_GLOBAL = 16 /\ OP.SET_LOCAL = 18
    BY Opcodes
  <2> QED BY <2>1, <2>2
<1>4. KindAfter(op) = "inside"
  BY <1>1, <1>3 DEF KindAfter
<1>5. a.height \in Nat /\ Needs(op, xs) <= a.height
      /\ a.height + 1 = a.height - Needs(op, xs) + Leaves(op)
  BY <1>1 DEF StandsAt, Stage
<1>6. Emits(a, op, xs, b)
  BY <1>2, <1>4, <1>5 DEF Emits
<1> QED BY <1>6, EmitsStands

LEMMA SymbolStands ==
    ASSUME NEW s, NEW d, NEW a, StandsAt(s, d, a), NEW b \in Stage,
           NEW symbol \in Symbols!Symbol, AfterStage(a, b, a.height + 1, "inside"),
           Len(EmitLoad(s, symbol).bytes) < 256
    PROVE  StandsNext(s, d, EmitLoad(s, symbol), b)
<1>1. PICK op, xs : op \in Loads /\ EmitLoad(s, symbol) = Emit(s, op, xs) /\ Takes(op, xs)
  BY LoadFits
<1>2. Len(Emit(s, op, xs).bytes) < 256
  BY <1>1
<1>3. StandsNext(s, d, Emit(s, op, xs), b)
  BY <1>1, <1>2, LoadStands
<1> QED BY <1>1, <1>3

(* The two arms of a conditional: the jump over the consequence ...        *)
JumpStage(a, height, open) ==
    [level |-> a.level, height |-> height, kind |-> "inside", open |-> open]

LEMMA JumpStands ==
    ASSUME NEW s, NEW d, NEW a, StandsAt(s, d, a), a.height > 0,
           Len(Emit(s, OP.JUMP_NOT_TRUTHY, BackpatchLater).bytes) < 256
    PROVE  LET new == Emit(s, OP.JUMP_NOT_TRUTHY, BackpatchLater)
               b == JumpStage(a, a.height - 1, a.open \cup {s.length})
           IN  \E E : /\ StandsAt(new, E, b) /\ Keeps(Code(s), d, Code(new), E)
                      /\ Awaits(new, E, s.length, OP.JUMP_NOT_TRUTHY, a.height)
<1> DEFINE op == OP.JUMP_NOT_TRUTHY
           xs == BackpatchLater
           new == Emit(s, op, xs)
           K == a.open \cup {s.length}
           h == a.height - 1
           b == JumpStage(a, h, K)
<1>1. Good(s, d, a.open) /\ d[s.length] = a.height /\ a.height \in Nat /\ a \in Stage
  BY DEF StandsAt, Stage
<1>2. Takes(op, xs)
  <2>1. op \in OpCode /\ Len(Widths(op)) = 1
    BY JumpShape DEF Jumps
  <2> QED BY <2>1 DEF Takes, BackpatchLater
<1>3. Needs(op, xs) = 1 /\ Leaves(op) = 0 /\ op \notin Ends \cup {OP.JUMP}
  <2>1. op \notin Loads \cup {OP.JUMP, OP.RETURN, OP.RETURN_VALUE} \cup BinaryOps
                  \cup {OP.ARRAY, OP.HASH, OP.CALL, OP.CLOSURE}
    BY Opcodes DEF Loads, BinaryOps
  <2> QED BY <2>1 DEF Needs, Leaves, Jumps, Ends
<1>4. Len(Code(s)) = s.length /\ s.length \in Nat
  BY <1>1, GoodScope
<1>5. MayFollow(Code(s), d, op, xs, h)
  <2>1. d[Len(Code(s))] = a.height /\ h = a.height - Needs(op, xs) + Leaves(op)
        /\ Needs(op, xs) <= a.height
    BY <1>1, <1>3, <1>4
  <2> HIDE DEF h, op, xs
  <2> QED BY <1>3, <2>1 DEF MayFollow
<1>6. PICK E : /\ Good(new, E, K) /\ Keeps(Code(s), d, Code(new), E)
               /\ E[new.length] = h /\ new.length = s.length + InstructionLength(op)
               /\ s.length \in DOMAIN E /\ E[s.length] = d[s.length]
               /\ ByteAt(Code(new), s.length) = op /\ new.last.op = op
  BY <1>1, <1>2, <1>5, Emitted
<1>7. b \in Stage /\ b.open = K /\ b.height = h /\ b.kind = "inside"
  <2>1. h \in Nat /\ K \in SUBSET Nat
    BY <1>1, <1>4 DEF Stage
  <2> HIDE DEF h, K
  <2> QED BY <1>1, <2>1 DEF JumpStage, Stage
<1>8. StandsAt(new, E, b)
  <2> HIDE DEF new, b, K, h
  <2> QED BY <1>6, <1>7 DEF StandsAt
<1>9. Awaits(new, E, s.length, op, a.height)
  <2>1. Len(Code(new)) = new.length
    BY <1>6, GoodScope
  <2>2. s.length < Len(Code(new))
    BY <1>4, <1>6, <2>1, LengthOfInstruction
  <2> HIDE DEF new, op
  <2> QED BY <1>1, <1>6, <2>2 DEF Awaits
<1> QED BY <1>6, <1>8, <1>9

(* Writing never makes a buffer shorter, whatever is written.              *)
Writable(s) == IsSequence(s.bytes) /\ s.length \in Nat /\ s.length <= Len(s.bytes)

LEMMA MadeLength ==
    ASSUME NEW op, NEW xs
    PROVE  IsSequence(Make(op, xs))
<1>1. \A i \in {1, 2} : IsSequence(OperandBytes(op, i, xs))
  <2>1. ASSUME NEW i \in {1, 2} PROVE IsSequence(OperandBytes(op, i, xs))
    <3>1. << >> \in Seq({0})
      OBVIOUS
    <3>2. << LowByte(xs[i]) >> \in Seq({LowByte(xs[i])})
      OBVIOUS
    <3>3. << HighByte(xs[i]), LowByte(xs[i]) >> \in Seq({HighByte(xs[i]), LowByte(xs[i])})
      OBVIOUS
    <3> QED BY <3>1, <3>2, <3>3, Zenon DEF IsSequence, OperandBytes
  <2> QED BY <2>1
<1>2. IsSequence(<< op >>)
  BY SequenceOfOne
<1>3. IsSequence(<< op >> \o OperandBytes(op, 1, xs))
  BY <1>1, <1>2, SequenceConcat
<1>4. IsSequence((<< op >> \o OperandBytes(op, 1, xs)) \o OperandBytes(op, 2, xs))
  BY <1>1, <1>3, SequenceConcat
<1> QED BY <1>4 DEF Make

LEMMA WriteGrows ==
    ASSUME NEW bytes, IsSequence(bytes), NEW pos \in Nat, pos <= Len(bytes),
           NEW new, IsSequence(new)
    PROVE  LET all == WriteAt(bytes, pos, new)
           IN  IsSequence(all) /\ Len(bytes) <= Len(all)
<1> DEFINE before == SubSeq(bytes, 1, pos)
           from == pos + Len(new) + 1
           after == SubSeq(bytes, from, Len(bytes))
           half == before \o new
<1>1. Len(bytes) \in Nat /\ Len(new) \in Nat
  BY SequenceForm
<1>2. PICK S : bytes \in Seq(S)
  BY DEF IsSequence
<1>3. before \in Seq(S) /\ Len(before) = pos
  BY <1>1, <1>2
<1>4. after \in Seq(S) /\ Len(after) = IF from <= Len(bytes) THEN Len(bytes) - from + 1 ELSE 0
  <2>1. from \in Nat /\ from >= 1
    BY <1>1
  <2> HIDE DEF from
  <2> QED BY <1>1, <1>2, <2>1
<1>5. IsSequence(before) /\ IsSequence(after)
  BY <1>3, <1>4 DEF IsSequence
<1> HIDE DEF before, after
<1>6. IsSequence(half) /\ Len(half) = pos + Len(new)
  BY <1>3, <1>5, SequenceConcat
<1> HIDE DEF half
<1>7. IsSequence(half \o after) /\ Len(half \o after) = Len(half) + Len(after)
  BY <1>5, <1>6, SequenceConcat
<1>8. Len(bytes) <= Len(half) + Len(after)
  <2>1. \A n, m \in Nat : n <= (pos + m) + (IF pos + m + 1 <= n THEN n - (pos + m + 1) + 1 ELSE 0)
    OBVIOUS
  <2>2. Len(after) = IF pos + Len(new) + 1 <= Len(bytes)
                     THEN Len(bytes) - (pos + Len(new) + 1) + 1 ELSE 0
    BY <1>4
  <2>3. Len(half) = pos + Len(new)
    BY <1>6
  <2> QED BY <1>1, <2>1, <2>2, <2>3
<1>9. half \o after = WriteAt(bytes, pos, new)
  BY DEF WriteAt, half, before, after
<1> HIDE DEF from
<1> QED BY <1>7, <1>8, <1>9

LEMMA PatchGrows ==
    ASSUME NEW s, IsScope(s), NEW p \in Nat, p <= Len(s.bytes), NEW t
    PROVE  LET new == ChangeOperand(s, p, t)
           IN  Writable(new) /\ Len(s.bytes) <= Len(new.bytes)
<1> DEFINE x == WriteAt(s.bytes, p, Make(ByteAt(s.bytes, p), <<t>>))
           new == ChangeOperand(s, p, t)
<1>1. /\ s \in ScopeSet /\ IsSequence(s.bytes) /\ s.length \in Nat /\ Len(s.bytes) \in Nat
      /\ s.length <= Len(s.bytes)
  BY DEF IsScope, ScopeSet, IsSequence
<1>2. new = [s EXCEPT !.bytes = x]
  BY Zenon DEF ChangeOperand
<1>3. IsSequence(x) /\ Len(s.bytes) <= Len(x)
  BY <1>1, MadeLength, WriteGrows
<1>4. Len(x) \in Nat
  BY <1>3, SequenceForm
<1> HIDE DEF x, new
<1>5. new.bytes = x /\ new.length = s.length
  BY <1>1, <1>2 DEF ScopeSet
<1>6. Writable(new) /\ Len(s.bytes) <= Len(new.bytes)
  BY <1>1, <1>3, <1>4, <1>5 DEF Writable
<1> QED BY <1>6 DEF new

LEMMA EmitGrows ==
    ASSUME NEW s, Writable(s), NEW op, NEW xs
    PROVE  Len(s.bytes) <= Len(Emit(s, op, xs).bytes) /\ IsSequence(Emit(s, op, xs).bytes)
<1> DEFINE x == WriteAt(s.bytes, s.length, Make(op, xs))
<1>1. IsSequence(s.bytes) /\ s.length \in Nat /\ s.length <= Len(s.bytes)
  BY DEF Writable
<1>2. Len(s.bytes) <= Len(x) /\ IsSequence(x)
  BY <1>1, MadeLength, WriteGrows
<1>3. Emit(s, op, xs).bytes = x
  BY DEF Emit
<1> QED BY <1>2, <1>3

(* ... the jump over the alternative, where the first one lands behind ... *)
Jumped(s) == Emit(WithoutLastPop(s), OP.JUMP, BackpatchLater)
ArmEnded(s, q) == ChangeOperand(Jumped(s), q, Jumped(s).length)

ArmStage(s, a, q) == JumpStage(a, a.height, (a.open \cup {WithoutLastPop(s).length}) \ {q})

Armed(s, d, a, q, new) ==
    \E E : /\ StandsAt(new, E, ArmStage(s, a, q)) /\ Keeps(Code(s), d, Code(new), E)
           /\ Awaits(new, E, WithoutLastPop(s).length, OP.JUMP, a.height + 1)

LEMMA ArmStands ==
    ASSUME NEW s, NEW d, NEW a, StandsAt(s, d, a), a.kind = "value",
           NEW q, Awaits(s, d, q, OP.JUMP_NOT_TRUTHY, a.height + 1)
    PROVE  /\ Len(ArmEnded(s, q).bytes) < 256 => Armed(s, d, a, q, ArmEnded(s, q))
           /\ Writable(ArmEnded(s, q))
<1> DEFINE op == OP.JUMP
           xs == BackpatchLater
           h == a.height
           kept == WithoutLastPop(s)
           n == kept.length
           jumped == Emit(kept, op, xs)
           new == ChangeOperand(jumped, q, jumped.length)
           K == a.open \cup {n}
           b == JumpStage(a, h, K \ {q})
<1>1. /\ Good(s, d, a.open) /\ ValueThere(s, d, a.open) /\ d[s.length] = h /\ h \in Nat
      /\ a \in Stage /\ a.open \subseteq Nat
  BY DEF StandsAt, Stage
<1>a. new = ArmEnded(s, q) /\ b = ArmStage(s, a, q)
  BY DEF ArmEnded, Jumped, ArmStage
<1>2. PICK E1 : /\ Good(kept, E1, a.open) /\ Keeps(Code(s), d, Code(kept), E1)
                /\ E1[n] = h + 1
  <2>1. Valued(s, d, a.open, kept)
    BY <1>1, ValueTaken
  <2> HIDE DEF kept, h
  <2> QED BY <1>1, <2>1 DEF Valued, h
<1> HIDE DEF kept, h, n, jumped, new, K, b, op, xs
<1>3. /\ IsScope(kept) /\ n \in Nat /\ Len(Code(kept)) = n /\ n <= Len(kept.bytes)
      /\ n \in DOMAIN E1 /\ DOMAIN E1 \subseteq 0..n
      /\ \A p \in DOMAIN E1 : E1[p] \in 0..p
  BY <1>2, GoodScope DEF n
<1>4. Takes(op, xs) /\ op \in Jumps /\ InstructionLength(op) = 3
  <2>1. OP.JUMP \in OpCode /\ Len(Widths(OP.JUMP)) = 1 /\ InstructionLength(OP.JUMP) = 3
    BY JumpShape DEF Jumps
  <2>2. OP.JUMP \in Jumps
    BY DEF Jumps
  <2>3. xs \in Seq(Nat) /\ Len(xs) = 1
    BY DEF xs, BackpatchLater
  <2> QED BY <2>1, <2>2, <2>3 DEF Takes, op
<1>5. Needs(op, xs) = 0
  <2>1. op \in Loads \cup {OP.JUMP, OP.RETURN}
    BY DEF op
  <2>2. op \notin BinaryOps \cup {OP.ARRAY, OP.HASH, OP.CALL, OP.CLOSURE}
    BY Opcodes DEF BinaryOps, op
  <2> QED BY <2>1, <2>2 DEF Needs
<1>6. MayFollow(Code(kept), E1, op, xs, h)
  <2>1. E1[Len(Code(kept))] = h + 1 /\ h + 1 <= Len(Code(kept))
    BY <1>1, <1>2, <1>3
  <2>2. h \in 0..Len(Code(kept)) + 1 /\ Needs(op, xs) <= E1[Len(Code(kept))]
    BY <1>1, <1>3, <1>5, <2>1
  <2> QED BY <2>2 DEF MayFollow, op
<1>7. IsScope(jumped) /\ Len(kept.bytes) <= Len(jumped.bytes)
  BY <1>3, <1>4, EmitFields DEF jumped
<1>8. q \in DOMAIN E1 /\ q < n /\ ByteAt(Code(kept), q) = OP.JUMP_NOT_TRUTHY /\ E1[q] = h + 1
  <2>1. OP.JUMP_NOT_TRUTHY \in Jumps
    BY DEF Jumps
  <2> QED BY <1>2, <1>3, <2>1 DEF Awaits, Keeps, h
<1>9. q \in Nat
  BY <1>3, <1>8
<1>10. Writable(new) /\ Len(jumped.bytes) <= Len(new.bytes)
  <2>1. q <= Len(jumped.bytes)
    <3>1. Len(kept.bytes) \in Nat /\ Len(jumped.bytes) \in Nat
      BY <1>3, <1>7 DEF IsScope, ScopeSet
    <3> QED BY <1>3, <1>7, <1>8, <1>9, <3>1
  <2> QED BY <1>7, <1>9, <2>1, PatchGrows DEF new
<1>11. ASSUME Len(new.bytes) < 256 PROVE Armed(s, d, a, q, new)
  <2>1. Len(jumped.bytes) < 256
    <3>1. Len(jumped.bytes) \in Nat /\ Len(new.bytes) \in Nat
      BY <1>7, <1>10, SequenceForm DEF IsScope, ScopeSet, Writable
    <3> QED BY <1>10, <1>11, <3>1
  <2>2. PICK E : /\ Good(jumped, E, K) /\ Keeps(Code(kept), E1, Code(jumped), E)
                 /\ E[jumped.length] = h /\ jumped.length = n + InstructionLength(op)
                 /\ n \in DOMAIN E /\ E[n] = E1[n]
                 /\ ByteAt(Code(jumped), n) = op
    <3>1. a.open \subseteq K /\ kept.length \in K /\ Len(Emit(kept, op, xs).bytes) < 256
      BY <2>1 DEF K, n, jumped
    <3> QED BY <1>2, <1>4, <1>6, <3>1, Emitted DEF jumped, n
  <2>3. jumped.length = n + 3 /\ Len(Code(jumped)) = n + 3
    BY <1>4, <2>2, GoodScope
  <2>4. q \in DOMAIN E /\ ByteAt(Code(jumped), q) = OP.JUMP_NOT_TRUTHY /\ E[q] = h + 1
    <3>1. OP.JUMP_NOT_TRUTHY \in Jumps
      BY DEF Jumps
    <3> QED BY <1>3, <1>8, <2>2, <3>1 DEF Keeps
  <2>5. Good(new, E, K \ {q}) /\ Keeps(Code(jumped), E, Code(new), E)
        /\ new.length = jumped.length /\ new.last = jumped.last
    <3>1. q < jumped.length
      BY <1>3, <1>8, <1>9, <2>3
    <3>2. OP.JUMP_NOT_TRUTHY \in Jumps
      BY DEF Jumps
    <3>3. Needs(OP.JUMP_NOT_TRUTHY, << >>) = 1
      <4>1. OP.JUMP_NOT_TRUTHY \notin Loads \cup {OP.JUMP, OP.RETURN} \cup BinaryOps
                                      \cup {OP.ARRAY, OP.HASH, OP.CALL, OP.CLOSURE}
        BY Opcodes DEF Loads, BinaryOps
      <4> QED BY <4>1 DEF Needs
    <3>4. E[jumped.length] = E[q] - Needs(OP.JUMP_NOT_TRUTHY, << >>)
      BY <1>1, <2>2, <2>4, <3>3
    <3> QED BY <2>2, <2>4, <3>1, <3>2, <3>4, Patched DEF new
  <2>6. b \in Stage /\ b.open = K \ {q} /\ b.height = h /\ b.kind = "inside"
    <3>1. K \ {q} \in SUBSET Nat
      BY <1>1, <1>3 DEF K
    <3> QED BY <1>1, <3>1 DEF b, JumpStage, Stage
  <2>7. StandsAt(new, E, b)
    BY <2>2, <2>5, <2>6 DEF StandsAt
  <2>8. Keeps(Code(s), d, Code(new), E)
    BY <1>2, <2>2, <2>5, KeepsTwice
  <2>9. Awaits(new, E, n, OP.JUMP, h + 1)
    <3>1. n < Len(Code(jumped)) /\ OP.JUMP \in Jumps
      BY <1>3, <2>3 DEF Jumps
    <3> QED BY <1>2, <2>2, <2>5, <3>1 DEF Awaits, Keeps, op
  <2> QED BY <1>a, <2>7, <2>8, <2>9 DEF Armed, n, kept, h
<1> QED BY <1>a, <1>10, <1>11

(* ... and the end of both.                                                *)
JumpedOver(s, popped, j) ==
    LET kept == IF popped THEN WithoutLastPop(s) ELSE s
    IN  ChangeOperand(kept, j, kept.length)

LEMMA BothArmsStand ==
    ASSUME NEW s, NEW d, NEW a, StandsAt(s, d, a), NEW b \in Stage,
           NEW popped \in BOOLEAN, popped => a.kind = "value" /\ b.height = a.height + 1,
           ~popped => b.height = a.height,
           NEW j, Awaits(s, d, j, OP.JUMP, b.height), b.kind = "inside",
           a.open \ {j} \subseteq b.open
    PROVE  StandsNext(s, d, JumpedOver(s, popped, j), b)
<1> DEFINE kept == IF popped THEN WithoutLastPop(s) ELSE s
           new == ChangeOperand(kept, j, kept.length)
<1>1. /\ Good(s, d, a.open)
      /\ a.kind = "value" => ValueThere(s, d, a.open)
      /\ d[s.length] = a.height /\ a.height \in Nat /\ b.height \in Nat
  BY DEF StandsAt, Stage
<1>2. PICK E : /\ Good(kept, E, a.open) /\ Keeps(Code(s), d, Code(kept), E)
               /\ E[kept.length] = b.height
  <2>1. CASE popped
    <3>1. Valued(s, d, a.open, WithoutLastPop(s))
      BY <1>1, <2>1, ValueTaken
    <3>2. PICK E : /\ Good(WithoutLastPop(s), E, a.open)
                   /\ Keeps(Code(s), d, Code(WithoutLastPop(s)), E)
                   /\ E[WithoutLastPop(s).length] = d[s.length] + 1
      BY <3>1 DEF Valued
    <3>3. E[WithoutLastPop(s).length] = b.height
      BY <1>1, <2>1, <3>2
    <3> QED BY <2>1, <3>2, <3>3
  <2>2. CASE ~popped
    BY <1>1, <2>2, KeepsItself
  <2> QED BY <2>1, <2>2
<1>a. new = JumpedOver(s, popped, j)
  BY DEF JumpedOver
<1> HIDE DEF kept, new
<1>3. /\ kept.length \in Nat /\ Len(Code(kept)) = kept.length
      /\ DOMAIN E \subseteq 0..kept.length
  BY <1>2, GoodScope
<1>4. OP.JUMP \in Jumps
  BY DEF Jumps
<1>5. /\ j \in DOMAIN E /\ j < kept.length /\ ByteAt(Code(kept), j) = OP.JUMP
      /\ E[j] = b.height
  BY <1>2, <1>3, <1>4 DEF Awaits, Keeps
<1>6. Needs(OP.JUMP, << >>) = 0
  <2>1. OP.JUMP \notin BinaryOps \cup {OP.ARRAY, OP.HASH, OP.CALL, OP.CLOSURE}
    BY Opcodes DEF BinaryOps
  <2> QED BY <2>1 DEF Needs
<1>7. E[kept.length] = E[j] - Needs(OP.JUMP, << >>)
  BY <1>1, <1>2, <1>5, <1>6
<1>8. /\ Good(new, E, a.open \ {j}) /\ Keeps(Code(kept), E, Code(new), E)
      /\ new.length = kept.length
  BY <1>2, <1>4, <1>5, <1>7, Patched DEF new
<1>9. Good(new, E, b.open)
  BY <1>8, GoodOpen
<1>10. StandsAt(new, E, b)
  BY <1>2, <1>8, <1>9 DEF StandsAt
<1>11. Keeps(Code(s), d, Code(new), E)
  BY <1>2, <1>8, KeepsTwice
<1> QED BY <1>a, <1>10, <1>11 DEF StandsNext

-----------------------------------------------------------------------------
(* What each kind of call does to the scopes and to the calls behind it    *)

LEMMA EmptyStands ==
    LET d == [p \in {0} |-> 0]
    IN  /\ Good(EmptyScope, d, {}) /\ d[EmptyScope.length] = 0
        /\ NoValue(EmptyScope)
<1> DEFINE d == [p \in {0} |-> 0]
<1>1. EmptyScope.bytes = << >> /\ EmptyScope.length = 0 /\ EmptyScope.last = NoInstruction
      /\ EmptyScope.prev = NoInstruction
  BY DEF EmptyScope
<1>2. EmptyScope \in ScopeSet
  BY DEF EmptyScope, ScopeSet, Note, NoInstruction
<1>3. IsScope(EmptyScope) /\ Len(EmptyScope.bytes) < 256
  BY <1>1, <1>2 DEF IsScope
<1>4. Code(EmptyScope) \in Seq(Byte) /\ Len(Code(EmptyScope)) = 0
  BY <1>1, <1>3, CodeOfScope
<1>5. Sound(Code(EmptyScope), d, {})
  BY <1>4 DEF Sound
<1>6. NoteAt(Code(EmptyScope), d, EmptyScope.length, EmptyScope.last)
  BY <1>1 DEF NoteAt
<1>7. Good(EmptyScope, d, {})
  BY <1>3, <1>5, <1>6 DEF Good
<1> QED BY <1>1, <1>7 DEF NoValue

(* A function literal is entered.                                          *)
LEMMA ScopeOpened ==
    ASSUME NEW ss, NEW D, NEW items, Sane(ss, D, items),
           NEW a, NEW b, Stands(ss, D, items, a, b), AfterStage(a, b, a.height + 1, "inside"),
           NEW body, IsSequence(body), AreStatements(body),
           NEW end, end.do = "endFunction"
    PROVE  \E F : Sane(Append(ss, EmptyScope), F, (CompileAll(body) \o << end >>) \o Tail(items))
<1> DEFINE n == Len(ss)
           d == [p \in {0} |-> 0]
           new == Append(ss, EmptyScope)
           F == [k \in 1..n + 1 |-> IF k = n + 1 THEN d ELSE D[k]]
           rest == Tail(items)
           first == [level |-> n + 1, height |-> 0, kind |-> "done", open |-> {}]
<1>1. /\ IsSequence(ss) /\ n \in Nat /\ n > 0 /\ ScopesGood(ss, D)
      /\ a \in Stage /\ b \in Stage /\ a.level = n /\ StandsAt(ss[n], D[n], a)
      /\ Finishes(ss, D, rest, b)
  BY SequenceForm DEF Sane, Stands
<1>2. /\ IsSequence(new) /\ Len(new) = n + 1 /\ new[n + 1] = EmptyScope
      /\ \A k \in 1..n : new[k] = ss[k]
  BY <1>1, SequenceAppend
<1>3. F[n + 1] = d /\ \A k \in 1..n : F[k] = D[k]
  BY <1>1
<1>4. Good(EmptyScope, d, {}) /\ d[EmptyScope.length] = 0 /\ NoValue(EmptyScope)
  BY EmptyStands
<1>5. /\ first \in Stage /\ first.level = n + 1 /\ first.height = 0 /\ first.kind = "done"
      /\ first.open = {}
  BY <1>1 DEF Stage
<1> HIDE DEF n, d, new, F, rest, first
<1>6. ScopesGood(new, F)
  <2>1. ASSUME NEW k \in 1..n + 1 PROVE \E J : Good(new[k], F[k], J)
    <3>1. CASE k = n + 1
      BY <1>2, <1>3, <1>4, <3>1
    <3>2. CASE k # n + 1
      <4>1. k \in 1..n
        BY <1>1, <3>2
      <4> QED BY <1>1, <1>2, <1>3, <4>1 DEF ScopesGood, n
    <3> QED BY <3>1, <3>2
  <2> QED BY <1>2, <2>1 DEF ScopesGood
<1>7. StandsAt(new[n + 1], F[n + 1], first)
  BY <1>2, <1>3, <1>4, <1>5 DEF StandsAt
<1>8. PICK c : /\ Leads(new, F, CompileAll(body), first, c) /\ Raised(first, c, 0)
               /\ c.kind = KindOfBlock(body, "done")
  <2>1. BlockLeads(new, F, body, first)
    BY <1>5, LeadsStatements
  <2> QED BY <1>5, <2>1 DEF BlockLeads
<1>9. c.kind # "inside"
  BY <1>8 DEF KindOfBlock, KindOfStatement
<1>10. Passes(new, F, c, end, b)
  <2>1. c.level = n + 1 /\ c.open = {} /\ c.level > 1
    BY <1>1, <1>5, <1>8 DEF Raised
  <2>2. b.level = n /\ b.open = a.open /\ b.kind = "inside" /\ b.height = a.height + 1
    BY <1>1 DEF AfterStage
  <2>3. n \in 1..n /\ new[n] = ss[n] /\ F[n] = D[n]
    BY <1>1, <1>2, <1>3
  <2>4. Good(new[b.level], F[b.level], b.open)
        /\ b.height = F[b.level][new[b.level].length] + 1
    BY <1>1, <2>2, <2>3 DEF StandsAt
  <2>5. b.level = c.level - 1
    BY <1>1, <2>1, <2>2
  <2> QED BY <1>9, <2>1, <2>2, <2>4, <2>5 DEF Passes
<1>11. c \in Stage /\ b.level <= c.level
  <2>1. c.level = n + 1 /\ b.level = n
    BY <1>1, <1>5, <1>8 DEF Raised, AfterStage
  <2> QED BY <1>1, <1>8, <2>1 DEF Raised
<1>12. Leads(new, F, << end >>, c, b)
  BY <1>1, <1>10, <1>11, LeadsOne
<1>13. Leads(new, F, CompileAll(body) \o << end >>, first, b)
  BY <1>8, <1>12, LeadsOn
<1>14. Carries(ss, D, new, F, n)
  <2>1. ASSUME NEW k \in 1..n
        PROVE  new[k] = ss[k] /\ F[k] = D[k] /\ Keeps(Code(ss[k]), D[k], Code(new[k]), F[k])
    <3>1. new[k] = ss[k] /\ F[k] = D[k]
      BY <1>2, <1>3
    <3>2. Keeps(Code(ss[k]), D[k], Code(ss[k]), D[k])
      BY KeepsItself
    <3> QED BY <3>1, <3>2
  <2> QED BY <2>1 DEF Carries
<1>15. Finishes(new, F, rest, b)
  <2>1. b.level <= n
    BY <1>1 DEF AfterStage
  <2> QED BY <1>1, <1>14, <2>1, FinishesStill
<1>16. Finishes(new, F, (CompileAll(body) \o << end >>) \o rest, first)
  BY <1>13, <1>15, FinishesOn
<1>17. Sane(new, F, (CompileAll(body) \o << end >>) \o rest)
  <2>1. Len(new) > 0
    BY <1>1, <1>2
  <2> QED BY <1>2, <1>5, <1>6, <1>7, <1>16, <2>1 DEF Sane, Compiling
<1> QED BY <1>17 DEF new, rest

(* A function literal is left: its code can be run, and the scope around   *)
(* it loads what it captured and makes the closure.                        *)
Enclosing(ss, symbols, k) ==
    LET outer == SubSeq(ss, 1, Len(ss) - 1)
        loaded == EmitLoads(outer[Len(outer)], symbols)
    IN  [outer EXCEPT ![Len(outer)] = Emit(loaded, OP.CLOSURE, <<k, Len(symbols)>>)]

FewBytes(ss) == \A k \in 1..Len(ss) : Len(ss[k].bytes) < 255

LEMMA EndOfFunction ==
    ASSUME NEW ss, NEW D, NEW items, NEW a, NEW b, Stands(ss, D, items, a, b),
           Head(items).do = "endFunction"
    PROVE  /\ a.kind # "inside" /\ a.open = {} /\ a.level > 1
           /\ b.level = a.level - 1 /\ b.kind = "inside"
           /\ Good(ss[b.level], D[b.level], b.open)
           /\ b.height = D[b.level][ss[b.level].length] + 1
BY DEF Stands, Passes

LEMMA ScopeClosed ==
    ASSUME NEW ss, NEW D, NEW items, Sane(ss, D, items),
           NEW a, NEW b, Stands(ss, D, items, a, b), Head(items).do = "endFunction",
           NEW symbols \in Seq(Symbols!Symbol), NEW k \in Nat,
           FewBytes(Enclosing(ss, symbols, k))
    PROVE  \E F : Sane(Enclosing(ss, symbols, k), F, Tail(items))
<1> DEFINE n == Len(ss)
           outer == SubSeq(ss, 1, n - 1)
           s == ss[n - 1]
           loaded == EmitLoads(s, symbols)
           xs == <<k, Len(symbols)>>
           made == Emit(loaded, OP.CLOSURE, xs)
           new == [outer EXCEPT ![n - 1] = made]
           rest == Tail(items)
           d == D[n - 1]
<1>1. /\ IsSequence(ss) /\ n \in Nat /\ n > 0 /\ ScopesGood(ss, D)
      /\ a \in Stage /\ b \in Stage /\ a.level = n
      /\ Finishes(ss, D, rest, b)
  BY SequenceForm DEF Sane, Stands
<1>2. /\ n > 1 /\ b.level = n - 1 /\ b.kind = "inside" /\ Good(s, d, b.open)
      /\ b.height = d[s.length] + 1
  BY <1>1, EndOfFunction
<1>3. IsSequence(outer) /\ Len(outer) = n - 1 /\ \A i \in 1..n - 1 : outer[i] = ss[i]
  BY <1>1, SequenceFront
<1>4. outer[n - 1] = s
  BY <1>1, <1>2, <1>3
<1>5. Enclosing(ss, symbols, k) = new
  BY <1>3, <1>4, Zenon DEF Enclosing
<1>6. /\ Len(symbols) \in Nat /\ IsScope(loaded)
      /\ Len(loaded.bytes) < 256 => Continues(s, d, loaded, b.open, d[s.length] + Len(symbols))
  BY <1>2, LoadsEmitted
<1> HIDE DEF n, outer, loaded, made, new, rest, s, d
<1>7. /\ IsSequence(new) /\ Len(new) = n - 1 /\ new[n - 1] = made
  <2>1. WithTop(new, outer, made)
    <3>1. new = [outer EXCEPT ![Len(outer)] = made] /\ Len(outer) > 0
      BY <1>1, <1>2, <1>3 DEF new
    <3> QED BY <1>3, <3>1 DEF WithTop
  <2>2. n - 1 \in 1..Len(outer)
    BY <1>1, <1>2, <1>3
  <2> QED BY <1>3, <2>1, <2>2, TopOf
<1>8. Takes(OP.CLOSURE, xs) /\ Needs(OP.CLOSURE, xs) = Len(symbols) /\ Leaves(OP.CLOSURE) = 1
      /\ OP.CLOSURE \notin Jumps \cup {OP.RETURN} /\ KindAfter(OP.CLOSURE) = "inside"
  <2>1. /\ OP.CLOSURE \in OpCode \ (Jumps \cup {OP.RETURN}) /\ Len(Widths(OP.CLOSURE)) = 2
        /\ Needs(OP.CLOSURE, xs) = xs[2] /\ Leaves(OP.CLOSURE) = 1
        /\ KindAfter(OP.CLOSURE) = "inside"
    BY CollectShape
  <2>2. xs \in Seq(Nat) /\ Len(xs) = 2 /\ xs[2] = Len(symbols)
    BY <1>6
  <2> HIDE DEF xs
  <2> QED BY <2>1, <2>2 DEF Takes
<1>9. Len(made.bytes) < 255
  <2>1. n - 1 \in 1..Len(new)
    BY <1>1, <1>2, <1>7
  <2> QED BY <1>5, <1>7, <2>1 DEF FewBytes
<1>10. Len(loaded.bytes) <= Len(made.bytes) /\ Len(loaded.bytes) \in Nat /\ Len(made.bytes) \in Nat
  <2>1. IsScope(made) /\ Len(loaded.bytes) <= Len(made.bytes)
    BY <1>6, <1>8, EmitFields DEF made
  <2> QED BY <1>6, <2>1 DEF IsScope, ScopeSet
<1>11. PICK E : /\ Good(loaded, E, b.open) /\ Keeps(Code(s), d, Code(loaded), E)
                /\ E[loaded.length] = d[s.length] + Len(symbols)
  <2>1. Len(loaded.bytes) < 256
    BY <1>9, <1>10
  <2>2. Continues(s, d, loaded, b.open, d[s.length] + Len(symbols))
    BY <1>6, <2>1
  <2> QED BY <2>2 DEF Continues
<1>12. d[s.length] \in Nat
  <2>1. s.length \in DOMAIN d /\ (\A p \in DOMAIN d : d[p] \in 0..p) /\ s.length \in Nat
    BY <1>2, GoodScope
  <2> QED BY <2>1
<1> DEFINE c == At(b, d[s.length] + Len(symbols), "inside")
<1>13. c \in Stage /\ AfterStage(b, c, d[s.length] + Len(symbols), "inside")
  <2>1. d[s.length] + Len(symbols) \in Nat
    BY <1>6, <1>12
  <2> QED BY <1>1, <2>1, AtStage
<1> HIDE DEF c
<1>14. StandsAt(loaded, E, c)
  BY <1>11, <1>13 DEF StandsAt, AfterStage
<1>15. Emits(c, OP.CLOSURE, xs, b)
  <2>1. /\ c.height = d[s.length] + Len(symbols) /\ c.level = b.level /\ c.open = b.open
    BY <1>13 DEF AfterStage
  <2>2. /\ Needs(OP.CLOSURE, xs) <= c.height
        /\ b.height = c.height - Needs(OP.CLOSURE, xs) + Leaves(OP.CLOSURE)
    BY <1>2, <1>6, <1>8, <1>12, <2>1
  <2>3. AfterStage(c, b, c.height - Needs(OP.CLOSURE, xs) + Leaves(OP.CLOSURE), KindAfter(OP.CLOSURE))
    BY <1>2, <1>8, <2>1, <2>2 DEF AfterStage
  <2> QED BY <1>8, <2>2, <2>3 DEF Emits
<1>16. StandsNext(loaded, E, made, b)
  <2>1. Len(made.bytes) < 256
    BY <1>9, <1>10
  <2> QED BY <1>1, <1>14, <1>15, <2>1, EmitsStands DEF made
<1>17. PICK G : StandsAt(made, G, b) /\ Keeps(Code(s), d, Code(made), G)
  BY <1>11, <1>16, KeepsTwice DEF StandsNext
<1>18. Carries(ss, D, outer, D, n - 1)
  <2>1. ASSUME NEW i \in 1..n - 1
        PROVE  outer[i] = ss[i] /\ Keeps(Code(ss[i]), D[i], Code(outer[i]), D[i])
    <3>1. outer[i] = ss[i]
      BY <1>3
    <3>2. Keeps(Code(ss[i]), D[i], Code(ss[i]), D[i])
      BY KeepsItself
    <3> QED BY <3>1, <3>2
  <2> QED BY <2>1 DEF Carries
<1>19. n - 1 \in Nat /\ n - 1 > 0 /\ b.level <= n - 1
  BY <1>1, <1>2
<1>20. Finishes(outer, D, rest, b)
  BY <1>1, <1>18, <1>19, FinishesStill
<1>21. ScopesGood(outer, D)
  <2>1. ASSUME NEW i \in 1..n - 1 PROVE \E J : Good(outer[i], D[i], J)
    <3>1. i \in 1..n /\ outer[i] = ss[i]
      BY <1>1, <1>3
    <3> QED BY <1>1, <3>1 DEF ScopesGood, n
  <2> QED BY <1>3, <2>1 DEF ScopesGood
<1>22. Keeps(Code(outer[n - 1]), D[n - 1], Code(made), G)
  BY <1>4, <1>17 DEF d
<1>23. \E F : Sane([outer EXCEPT ![n - 1] = made], F, rest)
  BY <1>2, <1>3, <1>17, <1>19, <1>20, <1>21, <1>22, TopWritten
<1> QED BY <1>5, <1>23 DEF new, rest

LEMMA ClosedVerifies ==
    ASSUME NEW ss, NEW D, NEW items, Sane(ss, D, items),
           NEW a, NEW b, Stands(ss, D, items, a, b), Head(items).do = "endFunction",
           FewBytes(ss)
    PROVE  /\ Verifies(Code(Returning(ss[Len(ss)])), FALSE)
           /\ Code(Returning(ss[Len(ss)])) \in Seq(Byte)
<1> DEFINE s == ss[Len(ss)]
           d == D[Len(ss)]
<1>1. /\ StandsAt(s, d, a) /\ a \in Stage
  BY DEF Stands
<1>2. a.kind # "inside" /\ a.open = {}
  BY EndOfFunction
<1>3. Len(s.bytes) < 255
  <2>1. Len(ss) \in 1..Len(ss)
    BY SequenceForm DEF Sane
  <2> QED BY <2>1 DEF FewBytes
<1> HIDE DEF s, d
<1>4. Good(s, d, {}) /\ (NoValue(s) \/ ValueThere(s, d, {}))
  <2>1. a.kind = "done" \/ a.kind = "value"
    BY <1>1, <1>2 DEF Stage
  <2> QED BY <1>1, <1>2, <2>1 DEF StandsAt
<1> QED BY <1>3, <1>4, Returned DEF s

(* The innermost scope is written and the next call goes on.               *)
LEMMA TopEmitted ==
    ASSUME NEW ss, NEW D, NEW items, Sane(ss, D, items),
           NEW a, NEW b, Stands(ss, D, items, a, b), b.level = a.level,
           NEW new, StandsNext(ss[Len(ss)], D[Len(ss)], new, b)
    PROVE  \E F : Sane([ss EXCEPT ![Len(ss)] = new], F, Tail(items))
<1> DEFINE n == Len(ss)
           rest == Tail(items)
<1>1. PICK E : StandsAt(new, E, b) /\ Keeps(Code(ss[n]), D[n], Code(new), E)
  BY DEF StandsNext
<1>2. /\ IsSequence(ss) /\ n > 0 /\ ScopesGood(ss, D) /\ b.level = n
      /\ Finishes(ss, D, rest, b)
  BY DEF Sane, Stands
<1> HIDE DEF rest
<1> QED BY <1>1, <1>2, TopWritten DEF rest

LEMMA OperatorEmitted ==
    ASSUME NEW ss, NEW D, NEW items, Sane(ss, D, items),
           NEW a, NEW b, Stands(ss, D, items, a, b), Head(items).do = "emit",
           Len(Emit(ss[Len(ss)], Head(items).op, Head(items).operands).bytes) < 256
    PROVE  \E F : Sane([ss EXCEPT ![Len(ss)] = Emit(ss[Len(ss)], Head(items).op, Head(items).operands)],
                       F, Tail(items))
<1> DEFINE op == Head(items).op
           xs == Head(items).operands
           s == ss[Len(ss)]
<1>1. Emits(a, op, xs, b)
  BY DEF Stands, Passes
<1>2. b \in Stage /\ b.level = a.level /\ StandsAt(s, D[Len(ss)], a)
  BY <1>1 DEF Stands, Emits, AfterStage
<1> HIDE DEF op, xs, s
<1>3. StandsNext(s, D[Len(ss)], Emit(s, op, xs), b)
  BY <1>1, <1>2, EmitsStands DEF s, op, xs
<1> QED BY <1>2, <1>3, TopEmitted DEF s, op, xs

LEMMA LoadCompiled ==
    ASSUME NEW ss, NEW D, NEW items, Sane(ss, D, items),
           NEW a, NEW b, Stands(ss, D, items, a, b), AfterStage(a, b, a.height + 1, "inside"),
           NEW op \in Loads, NEW xs, Takes(op, xs), Len(Emit(ss[Len(ss)], op, xs).bytes) < 256
    PROVE  \E F : Sane([ss EXCEPT ![Len(ss)] = Emit(ss[Len(ss)], op, xs)], F, Tail(items))
<1> DEFINE s == ss[Len(ss)]
<1>1. b \in Stage /\ b.level = a.level /\ StandsAt(s, D[Len(ss)], a)
  BY DEF Stands, AfterStage
<1> HIDE DEF s
<1>2. StandsNext(s, D[Len(ss)], Emit(s, op, xs), b)
  BY <1>1, LoadStands DEF s
<1> QED BY <1>1, <1>2, TopEmitted DEF s

LEMMA SymbolCompiled ==
    ASSUME NEW ss, NEW D, NEW items, Sane(ss, D, items),
           NEW a, NEW b, Stands(ss, D, items, a, b), AfterStage(a, b, a.height + 1, "inside"),
           NEW symbol \in Symbols!Symbol, Len(EmitLoad(ss[Len(ss)], symbol).bytes) < 256
    PROVE  \E F : Sane([ss EXCEPT ![Len(ss)] = EmitLoad(ss[Len(ss)], symbol)], F, Tail(items))
<1> DEFINE s == ss[Len(ss)]
<1>1. b \in Stage /\ b.level = a.level /\ StandsAt(s, D[Len(ss)], a)
  BY DEF Stands, AfterStage
<1> HIDE DEF s
<1>2. StandsNext(s, D[Len(ss)], EmitLoad(s, symbol), b)
  BY <1>1, SymbolStands DEF s
<1> QED BY <1>1, <1>2, TopEmitted DEF s

(* After the condition.                                                    *)
AlternativeLater(alternative, position) ==
    [do |-> "alternative", alternative |-> alternative, jumpNotTruthy |-> position]

LEMMA ConsequenceBegins ==
    ASSUME NEW ss, NEW D, NEW items, Sane(ss, D, items),
           NEW a, NEW b, Stands(ss, D, items, a, b), Head(items).do = "consequence",
           IsSequence(Head(items).consequence),
           Len(Emit(ss[Len(ss)], OP.JUMP_NOT_TRUTHY, BackpatchLater).bytes) < 256
    PROVE  \E F : Sane([ss EXCEPT ![Len(ss)] =
                            Emit(ss[Len(ss)], OP.JUMP_NOT_TRUTHY, BackpatchLater)], F,
                       (CompileAll(Head(items).consequence)
                        \o << AlternativeLater(Head(items).alternative, ss[Len(ss)].length) >>)
                       \o Tail(items))
<1> DEFINE n == Len(ss)
           s == ss[n]
           d == D[n]
           nodes == Head(items).consequence
           alt == Head(items).alternative
           item == AlternativeLater(alt, s.length)
           made == Emit(s, OP.JUMP_NOT_TRUTHY, BackpatchLater)
           new == [ss EXCEPT ![n] = made]
           rest == Tail(items)
           first == JumpStage(a, a.height - 1, a.open \cup {s.length})
           x == CompileAll(nodes) \o << item >>
<1>1. /\ IsSequence(ss) /\ n \in Nat /\ n > 0 /\ ScopesGood(ss, D)
      /\ a \in Stage /\ b \in Stage /\ a.level = n /\ StandsAt(s, d, a)
      /\ Finishes(ss, D, rest, b)
  BY SequenceForm DEF Sane, Stands
<1>2. /\ a.height > 0 /\ AfterStage(a, b, a.height, "inside") /\ IsArm(nodes)
      /\ alt # NULL => IsArm(alt)
  BY DEF Stands, Passes
<1>3. PICK E : /\ StandsAt(made, E, first) /\ Keeps(Code(s), d, Code(made), E)
               /\ Awaits(made, E, s.length, OP.JUMP_NOT_TRUTHY, a.height)
  BY <1>1, <1>2, JumpStands
<1>4. /\ item.do = "alternative" /\ item.alternative = alt /\ item.jumpNotTruthy = s.length
  BY DEF AlternativeLater
<1>5. /\ first \in Stage /\ first.level = n /\ first.height = a.height - 1
      /\ first.open = a.open \cup {s.length}
  <2>1. first \in Stage
    BY <1>3 DEF StandsAt
  <2> QED BY <1>1, <2>1 DEF JumpStage
<1> DEFINE F == Replacing(D, n, E)
<1>b. IsSequence(nodes)
  OBVIOUS
<1> HIDE DEF nodes, n, s, d, alt, item, made, new, rest, first, F
<1>6. /\ new[n] = made /\ F[n] = E
  <2>1. WithTop(new, ss, made) /\ n \in 1..n /\ Len(ss) = n
    BY <1>1 DEF WithTop, new, n
  <2> QED BY <2>1, TopOf DEF F, Replacing
<1>7. IsSequence(nodes) /\ AreStatements(nodes) /\ IsBlock(nodes)
  BY <1>2, <1>b DEF IsArm
<1>8. PICK c : /\ Leads(new, F, CompileAll(nodes), first, c) /\ Raised(first, c, 0)
               /\ c.kind = KindOfBlock(nodes, first.kind)
  <2>1. first \in Stage
    BY <1>5
  <2>2. BlockLeads(new, F, nodes, first)
    BY <1>7, <2>1, LeadsStatements
  <2> QED BY <2>2 DEF BlockLeads
<1>9. /\ c \in Stage /\ c.level = n /\ c.height = a.height - 1
      /\ c.open = a.open \cup {s.length} /\ c.kind = "value"
  <2>1. Len(nodes) > 0 /\ nodes[Len(nodes)].type # "LET"
    BY <1>7 DEF IsBlock
  <2>2. c.kind = "value"
    BY <1>8, <2>1 DEF KindOfBlock, KindOfStatement
  <2>3. first.height + 0 = a.height - 1
    BY <1>1, <1>5 DEF Stage
  <2> QED BY <1>5, <1>8, <2>2, <2>3 DEF Raised
<1>10. Passes(new, F, c, item, b)
  <2>1. b.level = n /\ b.kind = "inside" /\ b.height = a.height /\ b.open = a.open
    BY <1>1, <1>2 DEF AfterStage
  <2>2. c.height + 1 = a.height
    BY <1>1, <1>9 DEF Stage
  <2>3. Awaits(new[c.level], F[c.level], item.jumpNotTruthy, OP.JUMP_NOT_TRUTHY, c.height + 1)
    BY <1>3, <1>4, <1>6, <1>9, <2>2
  <2>4. item.alternative # NULL => IsArm(item.alternative)
    BY <1>2, <1>4
  <2>5. c.open \ {item.jumpNotTruthy} \subseteq b.open
    BY <1>4, <1>9, <2>1
  <2>6. b.level = c.level /\ b.height = c.height + 1
    BY <1>9, <2>1, <2>2
  <2> QED BY <1>4, <1>9, <2>1, <2>3, <2>4, <2>5, <2>6 DEF Passes
<1>11. b.level = n /\ b.level <= c.level
  BY <1>1, <1>2, <1>9 DEF AfterStage
<1>12. Leads(new, F, << item >>, c, b)
  BY <1>1, <1>9, <1>10, <1>11, LeadsOne
<1>13. Leads(new, F, x, first, b)
  BY <1>8, <1>12, LeadsOn
<1>14. Sane(new, F, x \o rest)
  <2>1. /\ new = [ss EXCEPT ![n] = made] /\ F = Replacing(D, n, E) /\ n = Len(ss)
        /\ Keeps(Code(ss[n]), D[n], Code(made), E)
    BY <1>3 DEF new, F, n, s, d
  <2> HIDE DEF x
  <2> QED BY <1>1, <1>3, <1>5, <1>11, <1>13, <2>1, TopReplaced
<1> QED BY <1>14 DEF nodes, new, made, s, n, item, alt, rest

(* After the consequence: the alternative begins ...                       *)
EndLater(position, popped) == [do |-> "endIf", jump |-> position, popped |-> popped]

LEMMA ConsequenceEnds ==
    ASSUME NEW ss, NEW D, NEW items, NEW a, NEW b, Stands(ss, D, items, a, b),
           Head(items).do = "alternative"
    PROVE  /\ a.kind = "value" /\ b.level = a.level /\ b.kind = "inside"
           /\ b.height = a.height + 1 /\ a.open \ {Head(items).jumpNotTruthy} \subseteq b.open
           /\ Awaits(ss[Len(ss)], D[Len(ss)], Head(items).jumpNotTruthy, OP.JUMP_NOT_TRUTHY,
                     a.height + 1)
           /\ Head(items).alternative # NULL => IsArm(Head(items).alternative)
BY DEF Stands, Passes

LEMMA AlternativeBegins ==
    ASSUME NEW ss, NEW D, NEW items, Sane(ss, D, items),
           NEW a, NEW b, Stands(ss, D, items, a, b), Head(items).do = "alternative",
           Head(items).alternative # NULL, IsSequence(Head(items).alternative),
           Len(ArmEnded(ss[Len(ss)], Head(items).jumpNotTruthy).bytes) < 256
    PROVE  \E F : Sane([ss EXCEPT ![Len(ss)] =
                            ArmEnded(ss[Len(ss)], Head(items).jumpNotTruthy)], F,
                       (CompileAll(Head(items).alternative)
                        \o << EndLater(WithoutLastPop(ss[Len(ss)]).length, TRUE) >>)
                       \o Tail(items))
<1> DEFINE n == Len(ss)
           s == ss[n]
           d == D[n]
           q == Head(items).jumpNotTruthy
           nodes == Head(items).alternative
           j == WithoutLastPop(s).length
           item == EndLater(j, TRUE)
           made == ArmEnded(s, q)
           new == [ss EXCEPT ![n] = made]
           rest == Tail(items)
           first == ArmStage(s, a, q)
           x == CompileAll(nodes) \o << item >>
<1>1. /\ IsSequence(ss) /\ n \in Nat /\ n > 0 /\ ScopesGood(ss, D)
      /\ a \in Stage /\ b \in Stage /\ a.level = n /\ StandsAt(s, d, a)
      /\ Finishes(ss, D, rest, b)
  BY SequenceForm DEF Sane, Stands
<1>2. /\ a.kind = "value" /\ b.level = a.level /\ b.kind = "inside"
      /\ b.height = a.height + 1 /\ a.open \ {q} \subseteq b.open
      /\ Awaits(s, d, q, OP.JUMP_NOT_TRUTHY, a.height + 1)
      /\ IsSequence(nodes) /\ IsArm(nodes)
  BY ConsequenceEnds
<1>3. PICK E : /\ StandsAt(made, E, first) /\ Keeps(Code(s), d, Code(made), E)
               /\ Awaits(made, E, j, OP.JUMP, a.height + 1)
  <2>1. Armed(s, d, a, q, made)
    BY <1>1, <1>2, ArmStands
  <2> QED BY <2>1 DEF Armed
<1>4. item.do = "endIf" /\ item.jump = j /\ item.popped = TRUE
  BY DEF EndLater
<1>5. /\ first \in Stage /\ first.level = n /\ first.height = a.height
      /\ first.open = (a.open \cup {j}) \ {q}
  <2>1. first \in Stage
    BY <1>3 DEF StandsAt
  <2> QED BY <1>1, <2>1 DEF JumpStage, ArmStage
<1> DEFINE F == Replacing(D, n, E)
<1> HIDE DEF nodes, n, s, d, q, j, item, made, new, rest, first, F
<1>6. /\ new[n] = made /\ F[n] = E
  <2>1. WithTop(new, ss, made) /\ n \in 1..n /\ Len(ss) = n
    BY <1>1 DEF WithTop, new, n
  <2> QED BY <2>1, TopOf DEF F, Replacing
<1>7. IsSequence(nodes) /\ AreStatements(nodes) /\ IsBlock(nodes)
  BY <1>2 DEF IsArm
<1>8. PICK c : /\ Leads(new, F, CompileAll(nodes), first, c) /\ Raised(first, c, 0)
               /\ c.kind = KindOfBlock(nodes, first.kind)
  <2>1. first \in Stage
    BY <1>5
  <2>2. BlockLeads(new, F, nodes, first)
    BY <1>7, <2>1, LeadsStatements
  <2> QED BY <2>2 DEF BlockLeads
<1>9. /\ c \in Stage /\ c.level = n /\ c.height = a.height
      /\ c.open = (a.open \cup {j}) \ {q} /\ c.kind = "value"
  <2>1. Len(nodes) > 0 /\ nodes[Len(nodes)].type # "LET"
    BY <1>7 DEF IsBlock
  <2>2. c.kind = "value"
    BY <1>8, <2>1 DEF KindOfBlock, KindOfStatement
  <2>3. first.height + 0 = a.height
    BY <1>1, <1>5 DEF Stage
  <2> QED BY <1>5, <1>8, <2>2, <2>3 DEF Raised
<1>10. Passes(new, F, c, item, b)
  <2>1. b.level = c.level /\ b.height = c.height + 1
    BY <1>1, <1>2, <1>9
  <2>2. Awaits(new[c.level], F[c.level], item.jump, OP.JUMP, b.height)
    BY <1>2, <1>3, <1>4, <1>6, <1>9
  <2>3. c.open \ {item.jump} \subseteq b.open
    BY <1>2, <1>4, <1>9
  <2> QED BY <1>2, <1>4, <1>9, <2>1, <2>2, <2>3 DEF Passes
<1>11. b.level = n /\ b.level <= c.level
  BY <1>1, <1>2, <1>9
<1>12. Leads(new, F, << item >>, c, b)
  BY <1>1, <1>9, <1>10, <1>11, LeadsOne
<1>13. Leads(new, F, x, first, b)
  BY <1>8, <1>12, LeadsOn
<1>14. Sane(new, F, x \o rest)
  <2>1. /\ new = [ss EXCEPT ![n] = made] /\ F = Replacing(D, n, E) /\ n = Len(ss)
        /\ Keeps(Code(ss[n]), D[n], Code(made), E)
    BY <1>3 DEF new, F, n, s, d
  <2> HIDE DEF x
  <2> QED BY <1>1, <1>3, <1>5, <1>11, <1>13, <2>1, TopReplaced
<1> QED BY <1>14 DEF nodes, q, new, made, s, n, item, j, rest

(* ... or a null stands for it, ...                                        *)
LEMMA AlternativeMissing ==
    ASSUME NEW ss, NEW D, NEW items, Sane(ss, D, items),
           NEW a, NEW b, Stands(ss, D, items, a, b), Head(items).do = "alternative",
           Len(Emit(ArmEnded(ss[Len(ss)], Head(items).jumpNotTruthy), OP.NULL, << >>).bytes) < 256
    PROVE  \E F : Sane([ss EXCEPT ![Len(ss)] =
                            Emit(ArmEnded(ss[Len(ss)], Head(items).jumpNotTruthy), OP.NULL, << >>)],
                       F, << EndLater(WithoutLastPop(ss[Len(ss)]).length, FALSE) >> \o Tail(items))
<1> DEFINE n == Len(ss)
           s == ss[n]
           d == D[n]
           q == Head(items).jumpNotTruthy
           j == WithoutLastPop(s).length
           item == EndLater(j, FALSE)
           arm == ArmEnded(s, q)
           made == Emit(arm, OP.NULL, << >>)
           new == [ss EXCEPT ![n] = made]
           rest == Tail(items)
           first == ArmStage(s, a, q)
<1>1. /\ IsSequence(ss) /\ n \in Nat /\ n > 0 /\ ScopesGood(ss, D)
      /\ a \in Stage /\ b \in Stage /\ a.level = n /\ StandsAt(s, d, a)
      /\ Finishes(ss, D, rest, b)
  BY SequenceForm DEF Sane, Stands
<1>2. /\ a.kind = "value" /\ b.level = a.level /\ b.kind = "inside"
      /\ b.height = a.height + 1 /\ a.open \ {q} \subseteq b.open
      /\ Awaits(s, d, q, OP.JUMP_NOT_TRUTHY, a.height + 1)
  BY ConsequenceEnds
<1>3. Len(made.bytes) < 256
  OBVIOUS
<1>4. item.do = "endIf" /\ item.jump = j /\ item.popped = FALSE
  BY DEF EndLater
<1>a. first = JumpStage(a, a.height, (a.open \cup {j}) \ {q})
  BY DEF ArmStage
<1> HIDE DEF n, s, d, q, j, item, arm, made, new, rest, first
<1>5. Takes(OP.NULL, << >>) /\ OP.NULL \in Loads
  <2>1. OP.NULL \in OpCode
    BY Opcodes DEF OpCode
  <2>2. Len(Widths(OP.NULL)) = 0
    <3>1. OP.NULL \notin TwoByteOps \cup OneByteOps \cup {OP.CLOSURE}
      BY Opcodes DEF TwoByteOps, OneByteOps
    <3> QED BY <3>1 DEF Widths
  <2> QED BY <2>1, <2>2 DEF Takes, Loads
<1>6. Writable(arm) /\ (Len(arm.bytes) < 256 => Armed(s, d, a, q, arm))
  BY <1>1, <1>2, ArmStands DEF arm
<1>7. Len(arm.bytes) < 256
  <2>1. Len(arm.bytes) <= Len(made.bytes) /\ IsSequence(made.bytes)
    BY <1>6, EmitGrows DEF made
  <2>2. Len(arm.bytes) \in Nat /\ Len(made.bytes) \in Nat
    BY <1>6, <2>1, SequenceForm DEF Writable
  <2> QED BY <1>3, <2>1, <2>2
<1>8. PICK E : /\ StandsAt(arm, E, first) /\ Keeps(Code(s), d, Code(arm), E)
               /\ Awaits(arm, E, j, OP.JUMP, a.height + 1)
  BY <1>6, <1>7 DEF Armed, first, j
<1>9. /\ first \in Stage /\ first.level = n /\ first.height = a.height
      /\ first.open = (a.open \cup {j}) \ {q}
  <2>1. first \in Stage
    BY <1>8 DEF StandsAt
  <2> QED BY <1>1, <1>a, <2>1 DEF JumpStage
<1> DEFINE c == At(first, a.height + 1, "inside")
<1>10. c \in Stage /\ AfterStage(first, c, a.height + 1, "inside")
  <2>1. a.height + 1 \in Nat
    BY <1>1 DEF Stage
  <2> QED BY <1>9, <2>1, AtStage
<1> HIDE DEF c
<1>11. PICK G : StandsAt(made, G, c) /\ Keeps(Code(arm), E, Code(made), G)
  <2>1. AfterStage(first, c, first.height + 1, "inside")
    BY <1>9, <1>10
  <2>2. StandsNext(arm, E, made, c)
    BY <1>3, <1>5, <1>8, <1>10, <2>1, LoadStands DEF made
  <2> QED BY <2>2 DEF StandsNext
<1>12. Keeps(Code(s), d, Code(made), G)
  BY <1>8, <1>11, KeepsTwice
<1>13. Awaits(made, G, j, OP.JUMP, a.height + 1)
  <2>1. OP.JUMP \in Jumps
    BY DEF Jumps
  <2> QED BY <1>8, <1>11, <2>1 DEF Awaits, Keeps
<1> DEFINE F == Replacing(D, n, G)
<1> HIDE DEF F
<1>14. /\ new[n] = made /\ F[n] = G
  <2>1. WithTop(new, ss, made) /\ n \in 1..n /\ Len(ss) = n
    BY <1>1 DEF WithTop, new, n
  <2> QED BY <2>1, TopOf DEF F, Replacing
<1>15. c.level = n /\ c.open = (a.open \cup {j}) \ {q} /\ c.height = a.height + 1
  BY <1>9, <1>10 DEF AfterStage
<1>16. Passes(new, F, c, item, b)
  <2>1. b.level = c.level /\ b.height = c.height
    BY <1>1, <1>2, <1>15
  <2>2. Awaits(new[c.level], F[c.level], item.jump, OP.JUMP, b.height)
    BY <1>2, <1>4, <1>13, <1>14, <1>15
  <2>3. c.open \ {item.jump} \subseteq b.open
    BY <1>2, <1>4, <1>15
  <2> QED BY <1>2, <1>4, <2>1, <2>2, <2>3 DEF Passes
<1>17. b.level = n /\ b.level <= c.level
  BY <1>1, <1>2, <1>15
<1>18. Leads(new, F, << item >>, c, b)
  BY <1>1, <1>10, <1>16, <1>17, LeadsOne
<1>19. Sane(new, F, << item >> \o rest)
  <2>1. /\ new = [ss EXCEPT ![n] = made] /\ F = Replacing(D, n, G) /\ n = Len(ss)
        /\ Keeps(Code(ss[n]), D[n], Code(made), G)
    BY <1>12 DEF new, F, n, s, d
  <2> QED BY <1>1, <1>11, <1>15, <1>17, <1>18, <2>1, TopReplaced
<1> QED BY <1>19 DEF q, new, made, arm, s, n, item, j, rest

(* ... and both arms have ended.                                           *)
LEMMA ConditionalEnds ==
    ASSUME NEW ss, NEW D, NEW items, Sane(ss, D, items),
           NEW a, NEW b, Stands(ss, D, items, a, b), Head(items).do = "endIf"
    PROVE  \E F : Sane([ss EXCEPT ![Len(ss)] =
                            JumpedOver(ss[Len(ss)], Head(items).popped, Head(items).jump)], F,
                       Tail(items))
<1> DEFINE s == ss[Len(ss)]
           popped == Head(items).popped
           j == Head(items).jump
           made == JumpedOver(s, popped, j)
<1>1. /\ b \in Stage /\ StandsAt(s, D[Len(ss)], a) /\ a.level = Len(ss)
  BY DEF Stands
<1>2. /\ b.level = a.level /\ b.kind = "inside"
      /\ a.open \ {j} \subseteq b.open
      /\ popped => a.kind = "value" /\ b.height = a.height + 1
      /\ ~popped => b.height = a.height
      /\ Awaits(s, D[Len(ss)], j, OP.JUMP, b.height)
  BY <1>1 DEF Stands, Passes
<1>3. popped \in BOOLEAN
  BY DEF Stands, Passes
<1> HIDE DEF s, popped, j
<1>4. StandsNext(s, D[Len(ss)], JumpedOver(s, popped, j), b)
  BY <1>1, <1>2, <1>3, BothArmsStand
<1> QED BY <1>2, <1>4, TopEmitted DEF s, popped, j

-----------------------------------------------------------------------------
(* Tables of symbols stay tables of symbols *)

LEMMA SymbolMade ==
    ASSUME NEW n \in Names, NEW i \in Nat, NEW c \in Symbols!SymbolScope
    PROVE  Symbols!NewSymbol(n, i, c) \in Symbols!Symbol
BY DEF Symbols!NewSymbol, Symbols!Symbol

LEMMA SymbolPut ==
    ASSUME NEW store \in Symbols!Store, NEW s \in Symbols!Symbol
    PROVE  Symbols!Put(store, s) \in Symbols!Store
<1>1. ASSUME NEW n \in Names
      PROVE (IF n = s.name THEN s ELSE IF n \in Extensions[s.name] THEN NULL ELSE store[n])
                \in Symbols!Symbol \cup {NULL}
  BY DEF Symbols!Store
<1> QED BY <1>1 DEF Symbols!Put, Symbols!Store

LEMMA TableMade ==
    ASSUME NEW store \in Symbols!Store, NEW num \in Nat, NEW free \in Seq(Symbols!Symbol)
    PROVE  [store |-> store, num |-> num, free |-> free] \in Symbols!Table
BY DEF Symbols!Table

LEMMA TableFields ==
    ASSUME NEW t \in Symbols!Table
    PROVE  t.store \in Symbols!Store /\ t.num \in Nat /\ t.free \in Seq(Symbols!Symbol)
BY DEF Symbols!Table

LEMMA FirstTables ==
    /\ Symbols!EmptyTable \in Symbols!Table
    /\ Symbols!BuiltinTable \in Symbols!Table
<1>1. [n \in Names |-> NULL] \in Symbols!Store
  BY DEF Symbols!Store
<1>2. << >> \in Seq(Symbols!Symbol)
  OBVIOUS
<1>3. ASSUME NEW n \in Names
      PROVE (IF BuiltinIndex[n] = NULL THEN NULL ELSE Symbols!NewSymbol(n, BuiltinIndex[n], "BUILTIN"))
                \in Symbols!Symbol \cup {NULL}
  <2>1. BuiltinIndex[n] # NULL => BuiltinIndex[n] \in Nat
    BY NamesAssumption
  <2>2. "BUILTIN" \in Symbols!SymbolScope
    BY DEF Symbols!SymbolScope
  <2> QED BY <2>1, <2>2, SymbolMade
<1>4. [n \in Names |-> IF BuiltinIndex[n] = NULL THEN NULL
                       ELSE Symbols!NewSymbol(n, BuiltinIndex[n], "BUILTIN")] \in Symbols!Store
  BY <1>3 DEF Symbols!Store
<1> QED BY <1>1, <1>2, <1>4, TableMade DEF Symbols!EmptyTable, Symbols!BuiltinTable

LEMMA SymbolDefined ==
    ASSUME NEW t \in Symbols!Table, NEW n \in Names, NEW c \in Symbols!SymbolScope
    PROVE  Symbols!DefineSymbol(t, n, c) \in Symbols!Table
<1>1. t.store \in Symbols!Store /\ t.num \in Nat /\ t.num + 1 \in Nat /\ t.free \in Seq(Symbols!Symbol)
  BY TableFields
<1>2. Symbols!Put(t.store, Symbols!NewSymbol(n, t.num, c)) \in Symbols!Store
  BY <1>1, SymbolMade, SymbolPut
<1> QED BY <1>1, <1>2, TableMade DEF Symbols!DefineSymbol

LEMMA FreeDefined ==
    ASSUME NEW t \in Symbols!Table, NEW s \in Symbols!Symbol
    PROVE  Symbols!DefineFree(t, s) \in Symbols!Table
<1>1. t.store \in Symbols!Store /\ t.num \in Nat /\ t.num + 1 \in Nat /\ t.free \in Seq(Symbols!Symbol)
  BY TableFields
<1>2. s.name \in Names /\ Len(t.free) \in Nat /\ "FREE" \in Symbols!SymbolScope
  BY <1>1 DEF Symbols!Symbol, Symbols!SymbolScope
<1>3. Symbols!Put(t.store, Symbols!FreeSymbol(t, s.name)) \in Symbols!Store
  BY <1>1, <1>2, SymbolMade, SymbolPut DEF Symbols!FreeSymbol
<1>4. Append(t.free, s) \in Seq(Symbols!Symbol)
  BY <1>1
<1> QED BY <1>1, <1>3, <1>4, TableMade DEF Symbols!DefineFree

LEMMA TablesDefine ==
    ASSUME NEW ts \in Seq(Symbols!Table), ts # << >>, NEW n \in Names
    PROVE  /\ Symbols!Define(ts, n) \in Seq(Symbols!Table)
           /\ Symbols!Define(ts, n) # << >>
           /\ Symbols!Defined(ts, n).index \in Nat
<1>1. Len(ts) \in 1..Len(ts) /\ ts[Len(ts)] \in Symbols!Table
  OBVIOUS
<1>2. Symbols!DefinitionScope(ts) \in Symbols!SymbolScope
  BY DEF Symbols!DefinitionScope, Symbols!SymbolScope
<1> DEFINE t == Symbols!DefineSymbol(ts[Len(ts)], n, Symbols!DefinitionScope(ts))
<1>3. t \in Symbols!Table
  BY <1>1, <1>2, SymbolDefined
<1>4. Symbols!Define(ts, n) = [ts EXCEPT ![Len(ts)] = t]
  BY Zenon DEF Symbols!Define
<1>5. Symbols!Defined(ts, n).index \in Nat
  BY <1>1, TableFields DEF Symbols!Defined, Symbols!NewSymbol
<1> HIDE DEF t
<1> QED BY <1>1, <1>3, <1>4, <1>5

LEMMA TablesEnter ==
    ASSUME NEW ts \in Seq(Symbols!Table), NEW f \in Names \cup {NULL}
    PROVE  Symbols!EnterTable(ts, f) \in Seq(Symbols!Table) /\ Symbols!EnterTable(ts, f) # << >>
<1> DEFINE t == IF f = NULL THEN Symbols!EmptyTable ELSE Symbols!DefineFnName(Symbols!EmptyTable, f)
<1>1. ASSUME f # NULL PROVE Symbols!DefineFnName(Symbols!EmptyTable, f) \in Symbols!Table
  <2> DEFINE e == Symbols!EmptyTable
  <2>1. e.store \in Symbols!Store /\ e.num \in Nat /\ e.free \in Seq(Symbols!Symbol)
    BY FirstTables, TableFields
  <2>2. f \in Names /\ "FUNCTION" \in Symbols!SymbolScope
    BY <1>1 DEF Symbols!SymbolScope
  <2>3. Symbols!Put(e.store, Symbols!NewSymbol(f, 0, "FUNCTION")) \in Symbols!Store
    BY <2>1, <2>2, SymbolMade, SymbolPut
  <2> QED BY <2>1, <2>3, TableMade DEF Symbols!DefineFnName
<1>2. t \in Symbols!Table
  BY <1>1, FirstTables
<1>3. Symbols!EnterTable(ts, f) = Append(ts, t)
  BY Zenon DEF Symbols!EnterTable
<1> HIDE DEF t
<1> QED BY <1>2, <1>3

LEMMA TablesLeave ==
    ASSUME NEW ts \in Seq(Symbols!Table), Len(ts) > 1
    PROVE  OuterTables(ts) \in Seq(Symbols!Table) /\ OuterTables(ts) # << >>
<1> DEFINE new == SubSeq(ts, 1, Len(ts) - 1)
<1>1. new \in Seq(Symbols!Table) /\ Len(new) = Len(ts) - 1
  OBVIOUS
<1>2. OuterTables(ts) = new
  BY DEF OuterTables, Symbols!LeaveTable
<1> HIDE DEF new
<1> QED BY <1>1, <1>2

LEMMA TablesParameters ==
    ASSUME NEW ts \in Seq(Symbols!Table), ts # << >>, NEW names \in Seq(Names)
    PROVE  DefineParameters(ts, names) \in Seq(Symbols!Table) /\ DefineParameters(ts, names) # << >>
<1> DEFINE n == Len(names)
           f == CHOOSE g : g = Steps(g, ts, names, n)
           Typed(x) == x \in Seq(Symbols!Table) /\ x # << >>
           Wrong == {i \in 0..n : ~Typed(f[i])}
<1>0. n \in Nat
  OBVIOUS
<1> HIDE DEF n
<1>1. n \in Nat /\ AreSteps(f, ts, names, n)
  BY <1>0, StepsExist, Zenon DEF AreSteps
<1>2. DefineParameters(ts, names) = f[n]
  BY DEF DefineParameters, Steps, n
<1> HIDE DEF f
<1>3. Wrong = {}
  <2>1. SUFFICES ASSUME Wrong # {} PROVE FALSE
    OBVIOUS
  <2>2. PICK m \in Wrong : \A k \in Wrong : m <= k
    <3>1. Wrong \subseteq Nat
      OBVIOUS
    <3> QED BY <2>1, <3>1, LeastNumber, Zenon
  <2>3. CASE m = 0
    <3>1. f[0] = ts
      BY <1>1 DEF AreSteps, Steps
    <3> QED BY <2>2, <2>3, <3>1
  <2>4. CASE m # 0
    <3>1. m \in 1..n /\ m - 1 \in 0..n /\ m - 1 \notin Wrong
      BY <1>1, <2>2, <2>4
    <3>2. f[m] = Symbols!Define(f[m-1], names[m])
      BY <1>1, <3>1 DEF AreSteps, Steps
    <3>3. Typed(f[m-1]) /\ names[m] \in Names
      BY <3>1 DEF n
    <3>4. Typed(f[m])
      BY <3>2, <3>3, TablesDefine
    <3> QED BY <2>2, <3>4
  <2> QED BY <2>3, <2>4
<1> QED BY <1>1, <1>2, <1>3

LEMMA TablesResolve ==
    ASSUME NEW ts \in Seq(Symbols!Table), ts # << >>, NEW n \in Names, NEW d \in DOMAIN ts,
           Symbols!FoundAt(ts, n, d)
    PROVE  /\ Symbols!AfterResolve(ts, n, d) \in Seq(Symbols!Table)
           /\ Symbols!AfterResolve(ts, n, d) # << >>
           /\ Symbols!Resolved(ts, n, d) \in Symbols!Symbol
<1> DEFINE s == ts[d].store[n]
           free(k) == Symbols!FreeSymbol(ts[k], n)
           after(k) == IF k <= d THEN ts[k]
                       ELSE Symbols!DefineFree(ts[k], IF k = d + 1 THEN s ELSE free(k-1))
           new == [k \in DOMAIN ts |-> after(k)]
<1>1. s \in Symbols!Symbol
  <2>1. s # NULL /\ ts[d] \in Symbols!Table
    BY DEF Symbols!FoundAt
  <2>2. ts[d].store \in Symbols!Store
    BY <2>1, TableFields
  <2> QED BY <2>1, <2>2 DEF Symbols!Store
<1>2. ASSUME NEW k \in 1..Len(ts) PROVE free(k) \in Symbols!Symbol
  <2>1. Len(ts[k].free) \in Nat /\ "FREE" \in Symbols!SymbolScope
    BY TableFields DEF Symbols!SymbolScope
  <2> QED BY <2>1, SymbolMade DEF Symbols!FreeSymbol
<1> HIDE DEF free, s
<1>3. ASSUME NEW k \in 1..Len(ts) PROVE after(k) \in Symbols!Table
  <2>1. ts[k] \in Symbols!Table
    OBVIOUS
  <2>2. CASE k <= d
    BY <2>1, <2>2
  <2>3. CASE ~(k <= d) /\ k = d + 1
    BY <1>1, <2>1, <2>3, FreeDefined
  <2>4. CASE ~(k <= d) /\ k # d + 1
    <3>1. k - 1 \in 1..Len(ts)
      BY <2>4
    <3>2. free(k-1) \in Symbols!Symbol
      BY <1>2, <3>1
    <3>3. after(k) = Symbols!DefineFree(ts[k], free(k-1))
      BY <2>4
    <3> QED BY <2>1, <3>2, <3>3, FreeDefined
  <2> QED BY <2>2, <2>3, <2>4
<1>4. Symbols!AfterResolve(ts, n, d) \in {ts, new}
  BY Zenon DEF Symbols!AfterResolve, new, after, s, free
<1> HIDE DEF after
<1>5. new \in Seq(Symbols!Table) /\ new # << >>
  <2>1. Len(ts) \in Nat /\ Len(ts) > 0
    OBVIOUS
  <2>2. new \in [1..Len(ts) -> Symbols!Table]
    BY <1>3
  <2> HIDE DEF new
  <2>3. new \in Seq(Symbols!Table) /\ Len(new) = Len(ts)
    BY <2>1, <2>2, SequenceMade
  <2> QED BY <2>1, <2>3
<1> HIDE DEF new
<1>6. Symbols!Resolved(ts, n, d) \in Symbols!Symbol
  <2>1. Len(ts) \in 1..Len(ts)
    OBVIOUS
  <2> QED BY <1>1, <1>2, <2>1 DEF Symbols!Resolved, free, s
<1> QED BY <1>4, <1>5, <1>6

-----------------------------------------------------------------------------
(* The invariant: tables of symbols, functions that can be run, scopes     *)
(* with certificates, and calls that lead to the end of the program        *)

TablesInv == tables \in Seq(Symbols!Table) /\ tables # << >>

Runnable(object) ==
    object.t = "COMPILED_FUNCTION" => object.code \in Seq(Byte) /\ Verifies(object.code, FALSE)
PoolRunnable == \A i \in 1..Len(pool) : Runnable(pool[i])

ScopesSane == \E D : ScopesGood(scopes, D) /\ (err = NULL => Sane(scopes, D, todo))

CodeInv(Trees) == CompilerInv(Trees) /\ TablesInv /\ PoolRunnable /\ ScopesSane

(* Every buffer is shorter than the 255 bytes that a length can count.     *)
BuffersShort == FewBytes(scopes)

Working(D, a, b) == Sane(scopes, D, todo) /\ Stands(scopes, D, todo, a, b)

LEMMA SomeWork ==
    ASSUME NEW Trees, CodeInv(Trees), todo # << >>
    PROVE  err = NULL /\ \E D, a, b : Working(D, a, b)
<1>1. err = NULL
  BY DEF CodeInv, CompilerInv, CallsInv
<1>2. PICK D : Sane(scopes, D, todo)
  BY <1>1 DEF CodeInv, ScopesSane
<1>3. \E a, b : Stands(scopes, D, todo, a, b)
  BY <1>2, FirstCall DEF Sane
<1> QED BY <1>1, <1>2, <1>3 DEF Working

LEMMA SaneStays ==
    ASSUME NEW F, Sane(scopes', F, todo')
    PROVE  ScopesSane'
BY DEF ScopesSane, Sane

LEMMA WorkStages ==
    ASSUME NEW D, NEW a, NEW b, Working(D, a, b)
    PROVE  a \in Stage /\ b \in Stage /\ a.height \in Nat
BY DEF Working, Stands, Stage

(* A call makes other calls.                                               *)
LEMMA CallsStay ==
    ASSUME NEW D, NEW a, NEW b, Working(D, a, b), NEW STATE x, Leads(scopes, D, x, a, b),
           Call(x), UNCHANGED scopes
    PROVE  ScopesSane'
<1>1. Sane(scopes, D, x \o Tail(todo))
  BY CallsMade DEF Working
<1>2. todo' = x \o Tail(todo) /\ scopes' = scopes
  BY DEF Call
<1>3. Sane(scopes', D, todo')
  BY <1>1, <1>2
<1> QED BY <1>3, SaneStays

(* What compiling a node leaves.                                           *)
LEMMA NodeStands ==
    ASSUME NEW D, NEW a, NEW b, Working(D, a, b), NEW type, Visiting(type)
    PROVE  /\ type \in Expressions => AfterStage(a, b, a.height + 1, "inside")
           /\ type \in Statements => AfterStage(a, b, a.height, KindOfStatement(Node))
<1>1. Head(todo).do = "compile" /\ Node.type = type
  BY DEF Visiting
<1>2. Passes(scopes, D, a, Head(todo), b)
  BY DEF Working, Stands
<1>3. Compiles(a, Node, b)
  BY <1>1, <1>2 DEF Passes, Node
<1>4. Expressions \cap Statements = {}
  BY DEF Expressions, Statements
<1> QED BY <1>1, <1>3, <1>4 DEF Compiles

LEMMA NodeIs ==
    ASSUME NEW Trees, CodeInv(Trees), NEW type, Visiting(type)
    PROVE  todo # << >> /\ Node \in Trees /\ Node.type = type
BY VisitedNode DEF CodeInv

LEMMA FitsNone ==
    ASSUME NEW op \in OpCode, Len(Widths(op)) = 0
    PROVE  Takes(op, << >>)
BY DEF Takes

LEMMA FitsOne ==
    ASSUME NEW op \in OpCode, Len(Widths(op)) = 1, NEW n \in Nat
    PROVE  Takes(op, << n >>)
BY DEF Takes

LEMMA TakingFits ==
    /\ \A op \in {OP.POP, OP.RETURN_VALUE} : Takes(op, << >>)
    /\ \A op \in {OP.SET_GLOBAL, OP.SET_LOCAL}, n \in Nat : Takes(op, << n >>)
BY TakingShape, FitsNone, FitsOne DEF Deferred

(* Statements                                                              *)
LEMMA StatementCode ==
    ASSUME NEW Trees, Balanced(Trees), CodeInv(Trees), ExpressionStatement \/ ReturnStatement
    PROVE  ScopesSane'
<1> DEFINE type == IF Visiting("EXPR") THEN "EXPR" ELSE "RETURN"
           op == IF Visiting("EXPR") THEN OP.POP ELSE OP.RETURN_VALUE
           x == << Compile(Node.value), EmitLater(op, << >>) >>
<1>1. Visiting(type) /\ Call(x) /\ UNCHANGED scopes
  BY DEF ExpressionStatement, ReturnStatement, Visiting
<1>2. type \in Statements /\ type # "LET" /\ op \in {OP.POP, OP.RETURN_VALUE}
  BY DEF Statements
<1>3. type \in {"LET", "EXPR", "RETURN"}
  OBVIOUS
<1> HIDE DEF type, op
<1>4. Node.value.type \in Expressions /\ Node.type = type /\ todo # << >>
  <2>1. Node \in Trees /\ Node.type = type /\ todo # << >>
    BY <1>1, NodeIs
  <2> QED BY <1>3, <2>1 DEF Balanced
<1>5. PICK D, a, b : Working(D, a, b)
  BY <1>4, SomeWork
<1>6. a \in Stage /\ b \in Stage /\ a.height \in Nat
  BY <1>5, WorkStages
<1>7. AfterStage(a, b, a.height, "value")
  <2>1. AfterStage(a, b, a.height, KindOfStatement(Node))
    BY <1>1, <1>2, <1>5, NodeStands
  <2> QED BY <1>2, <1>4, <2>1 DEF KindOfStatement
<1>8. /\ Takes(op, << >>) /\ op \in Deferred /\ Needs(op, << >>) = 1
      /\ Leaves(op) = 0 /\ KindAfter(op) = "value"
  BY <1>2, TakingShape, TakingFits
<1>9. AfterStage(a, b, a.height + Leaves(op), KindAfter(op))
  BY <1>6, <1>7, <1>8
<1>10. Leads(scopes, D, x, a, b)
  BY <1>4, <1>6, <1>8, <1>9, LeadsOneOperand
<1> HIDE DEF x
<1> QED BY <1>1, <1>5, <1>10, CallsStay

LEMMA LetCode ==
    ASSUME NEW Trees, Balanced(Trees), CodeInv(Trees), LetStatement
    PROVE  ScopesSane'
<1> DEFINE symbol == Symbols!Defined(tables, Node.name)
           op == IF symbol.scope = "GLOBAL" THEN OP.SET_GLOBAL ELSE OP.SET_LOCAL
           x == << Compile(Node.value), EmitLater(op, << symbol.index >>) >>
<1>1. Visiting("LET") /\ Call(x) /\ UNCHANGED scopes
  BY DEF LetStatement
<1>2. "LET" \in Statements /\ op \in {OP.SET_GLOBAL, OP.SET_LOCAL}
  BY DEF Statements
<1>3. Node \in Trees /\ Node.type = "LET" /\ todo # << >>
  BY <1>1, NodeIs
<1>4. Node.value.type \in Expressions /\ Node.name \in Names
  BY <1>3 DEF Balanced
<1>5. symbol.index \in Nat
  BY <1>4, TablesDefine DEF CodeInv, TablesInv
<1> HIDE DEF symbol, op
<1>6. PICK D, a, b : Working(D, a, b)
  BY <1>3, SomeWork
<1>7. a \in Stage /\ b \in Stage /\ a.height \in Nat
  BY <1>6, WorkStages
<1>8. AfterStage(a, b, a.height, "done")
  <2>1. AfterStage(a, b, a.height, KindOfStatement(Node))
    BY <1>1, <1>2, <1>6, NodeStands
  <2> QED BY <1>3, <2>1 DEF KindOfStatement
<1>9. /\ Takes(op, << symbol.index >>) /\ op \in Deferred
      /\ Needs(op, << symbol.index >>) = 1
      /\ Leaves(op) = 0 /\ KindAfter(op) = "done"
  BY <1>2, <1>5, TakingShape, TakingFits
<1>10. AfterStage(a, b, a.height + Leaves(op), KindAfter(op))
  BY <1>7, <1>8, <1>9
<1>11. Leads(scopes, D, x, a, b)
  BY <1>4, <1>7, <1>9, <1>10, LeadsOneOperand
<1> HIDE DEF x
<1> QED BY <1>1, <1>6, <1>11, CallsStay

(* Expressions that are an instruction behind its operands                 *)
WorkingOn(D, a, b) ==
    /\ Working(D, a, b) /\ a \in Stage /\ b \in Stage /\ a.height \in Nat
    /\ AfterStage(a, b, a.height + 1, "inside")

LEMMA ExpressionWork ==
    ASSUME NEW Trees, CodeInv(Trees), NEW type \in Expressions, Visiting(type)
    PROVE  \E D, a, b : WorkingOn(D, a, b)
<1>1. todo # << >>
  BY NodeIs
<1>2. PICK D, a, b : Working(D, a, b)
  BY <1>1, SomeWork
<1>3. a \in Stage /\ b \in Stage /\ a.height \in Nat
  BY <1>2, WorkStages
<1>4. AfterStage(a, b, a.height + 1, "inside")
  BY <1>2, NodeStands
<1> QED BY <1>2, <1>3, <1>4 DEF WorkingOn

LEMMA OneValueMore ==
    ASSUME NEW D, NEW a, NEW b, WorkingOn(D, a, b),
           NEW op, Leaves(op) = 1, KindAfter(op) = "inside"
    PROVE  AfterStage(a, b, a.height + Leaves(op), KindAfter(op))
BY DEF WorkingOn

LEMMA OneOperandCode ==
    ASSUME NEW D, NEW a, NEW b, WorkingOn(D, a, b), NEW STATE node, node.type \in Expressions,
           NEW STATE op, op \in {OP.BANG, OP.MINUS},
           Call(<< Compile(node), EmitLater(op, << >>) >>), UNCHANGED scopes
    PROVE  ScopesSane'
<1> DEFINE x == << Compile(node), EmitLater(op, << >>) >>
<1>1. Working(D, a, b) /\ a \in Stage /\ b \in Stage
  BY DEF WorkingOn
<1>2. /\ op \in OpCode /\ Len(Widths(op)) = 0 /\ op \in Deferred
      /\ Needs(op, << >>) = 1 /\ Leaves(op) = 1 /\ KindAfter(op) = "inside"
  BY OperatorShape DEF Deferred
<1>3. Takes(op, << >>) /\ AfterStage(a, b, a.height + Leaves(op), KindAfter(op))
  BY <1>2, FitsNone, OneValueMore
<1>4. Leads(scopes, D, x, a, b)
  BY <1>1, <1>2, <1>3, LeadsOneOperand
<1>5. Call(x)
  OBVIOUS
<1> HIDE DEF x
<1> QED BY <1>1, <1>4, <1>5, CallsStay

LEMMA ManyOperandsCode ==
    ASSUME NEW D, NEW a, NEW b, WorkingOn(D, a, b),
           NEW STATE nodes, IsSequence(nodes), AreExpressions(nodes),
           NEW STATE op, NEW STATE xs, Takes(op, xs), op \in Deferred,
           Needs(op, xs) = Len(nodes), Leaves(op) = 1, KindAfter(op) = "inside",
           Call(CompileAll(nodes) \o << EmitLater(op, xs) >>), UNCHANGED scopes
    PROVE  ScopesSane'
<1> DEFINE x == CompileAll(nodes) \o << EmitLater(op, xs) >>
<1>1. Working(D, a, b) /\ a \in Stage /\ b \in Stage
  BY DEF WorkingOn
<1>2. AfterStage(a, b, a.height + Leaves(op), KindAfter(op))
  BY OneValueMore
<1>3. Leads(scopes, D, x, a, b)
  BY <1>1, <1>2, LeadsManyOperands
<1>4. Call(x)
  OBVIOUS
<1> HIDE DEF x
<1> QED BY <1>1, <1>3, <1>4, CallsStay

LEMMA PrefixCode ==
    ASSUME NEW Trees, Balanced(Trees), CodeInv(Trees), PrefixExpression
    PROVE  ScopesSane'
<1> DEFINE op == IF Node.operator = "!" THEN OP.BANG ELSE OP.MINUS
<1>1. /\ Visiting("PREFIX") /\ Call(<< Compile(Node.right), EmitLater(op, << >>) >>)
      /\ UNCHANGED scopes
  BY DEF PrefixExpression
<1>2. "PREFIX" \in Expressions /\ op \in {OP.BANG, OP.MINUS}
  BY DEF Expressions
<1>3. Node.right.type \in Expressions
  BY <1>1, NodeIs DEF Balanced
<1>4. PICK D, a, b : WorkingOn(D, a, b)
  BY <1>1, <1>2, ExpressionWork
<1> HIDE DEF op
<1> QED BY <1>1, <1>2, <1>3, <1>4, OneOperandCode

LEMMA InfixOps ==
    ASSUME NEW operator \in Operators
    PROVE  InfixOp(operator) \in BinaryOps
<1>1. CASE operator = "+"
  BY <1>1, Zenon DEF InfixOp, BinaryOps
<1>2. CASE operator = "-"
  BY <1>2 DEF InfixOp, BinaryOps
<1>3. CASE operator = "*"
  BY <1>3 DEF InfixOp, BinaryOps
<1>4. CASE operator = "/"
  BY <1>4 DEF InfixOp, BinaryOps
<1>5. CASE operator \in {">", "<"}
  BY <1>5 DEF InfixOp, BinaryOps
<1>6. CASE operator = "=="
  BY <1>6 DEF InfixOp, BinaryOps
<1>7. CASE operator = "!="
  BY <1>7 DEF InfixOp, BinaryOps
<1> QED BY <1>1, <1>2, <1>3, <1>4, <1>5, <1>6, <1>7 DEF Operators

LEMMA TwoOperands ==
    ASSUME NEW left, left.type \in Expressions, NEW right, right.type \in Expressions
    PROVE  /\ IsSequence(<< left, right >>) /\ AreExpressions(<< left, right >>)
           /\ Len(<< left, right >>) = 2
<1>1. << left, right >> \in Seq({left, right})
  OBVIOUS
<1>2. ASSUME NEW i \in 1..2 PROVE << left, right >>[i].type \in Expressions
  BY i = 1 \/ i = 2
<1> QED BY <1>1, <1>2 DEF IsSequence, AreExpressions

LEMMA InfixCode ==
    ASSUME NEW Trees, Balanced(Trees), CodeInv(Trees), InfixExpression
    PROVE  ScopesSane'
<1> DEFINE nodes == IF Node.operator = "<" THEN << Node.right, Node.left >>
                    ELSE << Node.left, Node.right >>
           op == InfixOp(Node.operator)
<1>1. Visiting("INFIX") /\ Call(CompileAll(nodes) \o << EmitLater(op, << >>) >>) /\ UNCHANGED scopes
  BY DEF InfixExpression
<1>2. "INFIX" \in Expressions
  BY DEF Expressions
<1>3. /\ Node.left.type \in Expressions /\ Node.right.type \in Expressions
      /\ Node.operator \in Operators
  BY <1>1, NodeIs DEF Balanced
<1>4. IsSequence(nodes) /\ AreExpressions(nodes) /\ Len(nodes) = 2
  BY <1>3, TwoOperands
<1>5. op \in BinaryOps
  BY <1>3, InfixOps
<1> HIDE DEF nodes, op
<1>6. /\ op \in OpCode /\ Len(Widths(op)) = 0 /\ op \in Deferred
      /\ Needs(op, << >>) = 2 /\ Leaves(op) = 1 /\ KindAfter(op) = "inside"
  BY <1>5, OperatorShape DEF Deferred
<1>7. Takes(op, << >>) /\ Needs(op, << >>) = Len(nodes)
  BY <1>4, <1>6, FitsNone
<1>8. PICK D, a, b : WorkingOn(D, a, b)
  BY <1>1, <1>2, ExpressionWork
<1> QED BY <1>1, <1>4, <1>6, <1>7, <1>8, ManyOperandsCode

LEMMA IndexCode ==
    ASSUME NEW Trees, Balanced(Trees), CodeInv(Trees), IndexExpression
    PROVE  ScopesSane'
<1> DEFINE x == << Compile(Node.left), Compile(Node.index), EmitLater(OP.INDEX, << >>) >>
<1>1. Visiting("INDEX") /\ Call(x) /\ UNCHANGED scopes
  BY DEF IndexExpression
<1>2. "INDEX" \in Expressions /\ OP.INDEX \in BinaryOps
  BY DEF Expressions, BinaryOps
<1>3. Node.left.type \in Expressions /\ Node.index.type \in Expressions
  BY <1>1, NodeIs DEF Balanced
<1>4. PICK D, a, b : WorkingOn(D, a, b)
  BY <1>1, <1>2, ExpressionWork
<1>5. /\ OP.INDEX \in OpCode /\ Len(Widths(OP.INDEX)) = 0 /\ OP.INDEX \in Deferred
      /\ Needs(OP.INDEX, << >>) = 2 /\ Leaves(OP.INDEX) = 1 /\ KindAfter(OP.INDEX) = "inside"
  BY <1>2, OperatorShape DEF Deferred
<1>6. Takes(OP.INDEX, << >>) /\ AfterStage(a, b, a.height + Leaves(OP.INDEX), KindAfter(OP.INDEX))
  BY <1>4, <1>5, FitsNone, OneValueMore
<1>7. Working(D, a, b) /\ a \in Stage /\ b \in Stage
  BY <1>4 DEF WorkingOn
<1>8. Leads(scopes, D, x, a, b)
  BY <1>3, <1>5, <1>6, <1>7, LeadsTwoOperands
<1> HIDE DEF x
<1> QED BY <1>1, <1>7, <1>8, CallsStay

LEMMA SequenceIs ==
    ASSUME NEW S, NEW s \in Seq(S)
    PROVE  IsSequence(s) /\ Len(s) \in Nat
BY SequenceForm DEF IsSequence

LEMMA ArrayCode ==
    ASSUME NEW Trees, HoldsParts(Trees), Balanced(Trees), CodeInv(Trees), ArrayLiteral
    PROVE  ScopesSane'
<1> DEFINE nodes == Node.elements
           xs == << Len(nodes) >>
<1>1. Visiting("ARRAY") /\ Call(CompileAll(nodes) \o << EmitLater(OP.ARRAY, xs) >>) /\ UNCHANGED scopes
  BY DEF ArrayLiteral
<1>2. "ARRAY" \in Expressions
  BY DEF Expressions
<1>3. nodes \in Seq(Trees) /\ AreExpressions(nodes)
  BY <1>1, NodeIs DEF Balanced, HoldsParts
<1>4. IsSequence(nodes) /\ Len(nodes) \in Nat
  BY <1>3, SequenceIs
<1>5. PICK D, a, b : WorkingOn(D, a, b)
  BY <1>1, <1>2, ExpressionWork
<1>6. /\ OP.ARRAY \in OpCode /\ Len(Widths(OP.ARRAY)) = 1 /\ OP.ARRAY \in Deferred
      /\ Needs(OP.ARRAY, xs) = Len(nodes) /\ Leaves(OP.ARRAY) = 1 /\ KindAfter(OP.ARRAY) = "inside"
  BY CollectShape
<1>7. Takes(OP.ARRAY, xs)
  BY <1>4, <1>6, FitsOne
<1> HIDE DEF xs, nodes
<1> QED BY <1>1, <1>3, <1>4, <1>5, <1>6, <1>7, ManyOperandsCode

LEMMA FlatExpressions ==
    ASSUME NEW Trees, NEW pairs \in Seq(Trees \X Trees),
           \A i \in 1..Len(pairs) : pairs[i][1].type \in Expressions /\ pairs[i][2].type \in Expressions
    PROVE  LET n == Len(pairs)
               flat == [i \in 1..2*n |-> pairs[(i + 1) \div 2][2 - (i % 2)]]
           IN  IsSequence(flat) /\ AreExpressions(flat) /\ Len(flat) = 2 * n /\ n \in Nat
<1> DEFINE n == Len(pairs)
           node(i) == pairs[(i + 1) \div 2][2 - (i % 2)]
           flat == [i \in 1..2*n |-> node(i)]
<1>1. n \in Nat /\ 2 * n \in Nat
  OBVIOUS
<1>2. flat \in Seq(Trees)
  BY FlatPairs
<1>3. ASSUME NEW i \in 1..2*n PROVE node(i).type \in Expressions
  <2>1. (i + 1) \div 2 \in 1..n /\ 2 - (i % 2) \in {1, 2}
    BY <1>1
  <2> QED BY <2>1
<1> HIDE DEF node
<1>4. DOMAIN flat = 1..2*n /\ \A i \in 1..2*n : flat[i] = node(i)
  OBVIOUS
<1> HIDE DEF flat, n
<1>5. IsSequence(flat) /\ Len(flat) = 2 * n
  <2>1. DOMAIN flat = 1..Len(flat) /\ Len(flat) \in Nat
    BY <1>2
  <2>2. Len(flat) = 2 * n
    BY <1>1, <1>4, <2>1
  <2> QED BY <1>2, <2>2, SequenceIs
<1>6. AreExpressions(flat)
  BY <1>3, <1>4, <1>5 DEF AreExpressions
<1> QED BY <1>1, <1>5, <1>6 DEF flat, node, n

LEMMA HashCode ==
    ASSUME NEW Trees, HoldsParts(Trees), Balanced(Trees), CodeInv(Trees), HashLiteral
    PROVE  ScopesSane'
<1> DEFINE n == Len(Node.pairs)
           nodes == [i \in 1..2*n |-> Node.pairs[(i + 1) \div 2][2 - (i % 2)]]
           xs == << 2 * n >>
<1>1. Visiting("HASH") /\ Call(CompileAll(nodes) \o << EmitLater(OP.HASH, xs) >>) /\ UNCHANGED scopes
  BY DEF HashLiteral
<1>2. "HASH" \in Expressions
  BY DEF Expressions
<1>3. /\ Node.pairs \in Seq(Trees \X Trees)
      /\ \A i \in 1..Len(Node.pairs) : /\ Node.pairs[i][1].type \in Expressions
                                       /\ Node.pairs[i][2].type \in Expressions
  BY <1>1, NodeIs DEF Balanced, HoldsParts
<1>4. IsSequence(nodes) /\ AreExpressions(nodes) /\ Len(nodes) = 2 * n /\ n \in Nat
  BY <1>3, FlatExpressions
<1>5. PICK D, a, b : WorkingOn(D, a, b)
  BY <1>1, <1>2, ExpressionWork
<1>6. /\ OP.HASH \in OpCode /\ Len(Widths(OP.HASH)) = 1 /\ OP.HASH \in Deferred
      /\ Needs(OP.HASH, xs) = 2 * n /\ Leaves(OP.HASH) = 1 /\ KindAfter(OP.HASH) = "inside"
  BY CollectShape
<1>7. 2 * n \in Nat
  BY <1>4
<1>8. Takes(OP.HASH, xs)
  BY <1>6, <1>7, FitsOne
<1>9. Needs(OP.HASH, xs) = Len(nodes)
  BY <1>4, <1>6
<1> HIDE DEF xs, nodes, n
<1> QED BY <1>1, <1>4, <1>5, <1>6, <1>8, <1>9, ManyOperandsCode

LEMMA CallCode ==
    ASSUME NEW Trees, HoldsParts(Trees), Balanced(Trees), CodeInv(Trees), CallExpression
    PROVE  ScopesSane'
<1> DEFINE nodes == Node.args
           xs == << Len(nodes) >>
           x == << Compile(Node.fn) >> \o CompileAll(nodes) \o << EmitLater(OP.CALL, xs) >>
<1>1. Visiting("CALL") /\ Call(x) /\ UNCHANGED scopes
  BY DEF CallExpression
<1>2. "CALL" \in Expressions
  BY DEF Expressions
<1>3. nodes \in Seq(Trees) /\ AreExpressions(nodes) /\ Node.fn.type \in Expressions
  BY <1>1, NodeIs DEF Balanced, HoldsParts
<1>4. IsSequence(nodes) /\ Len(nodes) \in Nat
  BY <1>3, SequenceIs
<1>5. PICK D, a, b : WorkingOn(D, a, b)
  BY <1>1, <1>2, ExpressionWork
<1>6. /\ OP.CALL \in OpCode /\ Len(Widths(OP.CALL)) = 1 /\ OP.CALL \in Deferred
      /\ Needs(OP.CALL, xs) = Len(nodes) + 1 /\ Leaves(OP.CALL) = 1 /\ KindAfter(OP.CALL) = "inside"
  BY CollectShape
<1>7. Takes(OP.CALL, xs) /\ AfterStage(a, b, a.height + Leaves(OP.CALL), KindAfter(OP.CALL))
  BY <1>4, <1>5, <1>6, FitsOne, OneValueMore
<1>8. Working(D, a, b) /\ a \in Stage /\ b \in Stage
  BY <1>5 DEF WorkingOn
<1> HIDE DEF xs, nodes
<1>9. Leads(scopes, D, x, a, b)
  BY <1>3, <1>4, <1>6, <1>7, <1>8, LeadsArguments
<1> HIDE DEF x
<1> QED BY <1>1, <1>8, <1>9, CallsStay

(* The code of the innermost scope is written                              *)
LEMMA TopShort ==
    ASSUME IsSequence(scopes), Len(scopes) > 0, NEW STATE s, IsSequence(s.bytes),
           scopes' = [scopes EXCEPT ![Len(scopes)] = s], BuffersShort'
    PROVE  Len(s.bytes) < 256
<1>1. IsSequence(scopes') /\ Len(scopes') = Len(scopes) /\ scopes'[Len(scopes)] = s
  <2>1. WithTop(scopes', scopes, s)
    BY DEF WithTop
  <2>2. Len(scopes) \in 1..Len(scopes)
    BY SequenceForm
  <2> QED BY <2>1, <2>2, TopOf
<1>2. Len(scopes) \in 1..Len(scopes')
  BY <1>1, SequenceForm
<1>3. Len(s.bytes) < 255
  BY <1>1, <1>2 DEF BuffersShort, FewBytes
<1>4. Len(s.bytes) \in Nat
  BY SequenceForm
<1> QED BY <1>3, <1>4

LEMMA TopWritable ==
    ASSUME NEW D, NEW a, NEW b, Working(D, a, b)
    PROVE  /\ IsSequence(scopes) /\ Len(scopes) > 0 /\ IsScope(Top) /\ Writable(Top)
           /\ StandsAt(Top, D[Len(scopes)], a) /\ Good(Top, D[Len(scopes)], a.open)
<1>1. /\ IsSequence(scopes) /\ Len(scopes) > 0
      /\ StandsAt(Top, D[Len(scopes)], a)
  BY DEF Working, Sane, Stands, Top
<1>2. Good(Top, D[Len(scopes)], a.open)
  BY <1>1 DEF StandsAt
<1>3. IsScope(Top)
  BY <1>2, GoodScope
<1>4. Writable(Top)
  <2>1. Top.bytes \in Seq(Byte) /\ Top.length \in Nat /\ Top.length <= Len(Top.bytes)
    BY <1>3 DEF IsScope, ScopeSet
  <2> QED BY <2>1, SequenceIs DEF Writable
<1> QED BY <1>1, <1>2, <1>3, <1>4

LEMMA EmitShort ==
    ASSUME NEW D, NEW a, NEW b, Working(D, a, b), NEW op, NEW xs,
           scopes' = [scopes EXCEPT ![Len(scopes)] = Emit(Top, op, xs)], BuffersShort'
    PROVE  Len(Emit(Top, op, xs).bytes) < 256
<1>1. IsSequence(scopes) /\ Len(scopes) > 0 /\ Writable(Top)
  BY TopWritable
<1>2. IsSequence(Emit(Top, op, xs).bytes)
  BY <1>1, EmitGrows
<1> QED BY <1>1, <1>2, TopShort

LEMMA OperatorCode ==
    ASSUME NEW Trees, CodeInv(Trees), EmitOperator, BuffersShort'
    PROVE  ScopesSane'
<1> DEFINE op == Head(todo).op
           xs == Head(todo).operands
<1>1. /\ todo # << >> /\ Head(todo).do = "emit" /\ todo' = Tail(todo)
      /\ scopes' = [scopes EXCEPT ![Len(scopes)] = Emit(Top, op, xs)]
  BY DEF EmitOperator, Resuming, EmitNow, Return, Top
<1>2. PICK D, a, b : Working(D, a, b)
  BY <1>1, SomeWork
<1>3. Len(Emit(Top, op, xs).bytes) < 256
  BY <1>1, <1>2, EmitShort
<1>4. \E F : Sane([scopes EXCEPT ![Len(scopes)] = Emit(Top, op, xs)], F, Tail(todo))
  BY <1>1, <1>2, <1>3, OperatorEmitted DEF Working, Top
<1>5. \E F : Sane(scopes', F, todo')
  BY <1>1, <1>4
<1> QED BY <1>5, SaneStays

LEMMA LoadFacts ==
    /\ Takes(OP.TRUE, << >>) /\ Takes(OP.FALSE, << >>) /\ OP.TRUE \in Loads /\ OP.FALSE \in Loads
    /\ OP.CONSTANT \in Loads /\ \A n \in Nat : Takes(OP.CONSTANT, << n >>)
<1>1. OP.TRUE \in OpCode /\ OP.FALSE \in OpCode /\ OP.CONSTANT \in OpCode
  BY Opcodes DEF OpCode
<1>2. Len(Widths(OP.TRUE)) = 0 /\ Len(Widths(OP.FALSE)) = 0
  <2>1. /\ OP.TRUE \notin TwoByteOps \cup OneByteOps \cup {OP.CLOSURE}
        /\ OP.FALSE \notin TwoByteOps \cup OneByteOps \cup {OP.CLOSURE}
    BY Opcodes DEF TwoByteOps, OneByteOps
  <2> QED BY <2>1 DEF Widths
<1>3. Len(Widths(OP.CONSTANT)) = 1
  <2>1. OP.CONSTANT \in TwoByteOps
    BY DEF TwoByteOps
  <2> QED BY <2>1 DEF Widths
<1> QED BY <1>1, <1>2, <1>3, FitsNone, FitsOne DEF Loads

LEMMA LoadCode ==
    ASSUME NEW Trees, CodeInv(Trees), NEW type \in Expressions, Visiting(type),
           NEW STATE op, op \in Loads, NEW STATE xs, Takes(op, xs),
           EmitNow(op, xs), Return, BuffersShort'
    PROVE  ScopesSane'
<1>1. scopes' = [scopes EXCEPT ![Len(scopes)] = Emit(Top, op, xs)] /\ todo' = Tail(todo)
  BY DEF EmitNow, Top, Return
<1>2. PICK D, a, b : WorkingOn(D, a, b)
  BY ExpressionWork
<1>3. Working(D, a, b) /\ AfterStage(a, b, a.height + 1, "inside")
  BY <1>2 DEF WorkingOn
<1>4. Len(Emit(Top, op, xs).bytes) < 256
  BY <1>1, <1>3, EmitShort
<1>5. \E F : Sane([scopes EXCEPT ![Len(scopes)] = Emit(Top, op, xs)], F, Tail(todo))
  BY <1>3, <1>4, LoadCompiled DEF Working, Top
<1>6. \E F : Sane(scopes', F, todo')
  BY <1>1, <1>5
<1> QED BY <1>6, SaneStays

LEMMA ConstantCode ==
    ASSUME NEW Trees, CodeInv(Trees), Constant, BuffersShort'
    PROVE  ScopesSane'
<1>1. PICK type \in {"INT", "STRING"} : Visiting(type)
  BY DEF Constant
<1>2. EmitNow(OP.CONSTANT, << NextConstant >>) /\ Return
  BY DEF Constant
<1>3. NextConstant \in Nat
  BY SequenceForm DEF CodeInv, CompilerInv, PoolInv, NextConstant
<1>4. type \in Expressions
  BY DEF Expressions
<1>5. Takes(OP.CONSTANT, << NextConstant >>) /\ OP.CONSTANT \in Loads
  BY <1>3, LoadFacts
<1> QED BY <1>1, <1>2, <1>4, <1>5, LoadCode

LEMMA BooleanCode ==
    ASSUME NEW Trees, CodeInv(Trees), BooleanLiteral, BuffersShort'
    PROVE  ScopesSane'
<1> DEFINE op == IF Node.bool THEN OP.TRUE ELSE OP.FALSE
<1>1. Visiting("BOOL") /\ EmitNow(op, << >>) /\ Return
  BY DEF BooleanLiteral
<1>2. "BOOL" \in Expressions
  BY DEF Expressions
<1>3. op \in Loads /\ Takes(op, << >>)
  BY LoadFacts
<1> HIDE DEF op
<1> QED BY <1>1, <1>2, <1>3, LoadCode

LEMMA IdentifierCode ==
    ASSUME NEW Trees, Balanced(Trees), CodeInv(Trees), Identifier, BuffersShort'
    PROVE  ScopesSane'
<1>1. Visiting("IDENT") /\ "IDENT" \in Expressions
  BY DEF Identifier, Expressions
<1>2. ASSUME NEW d \in DOMAIN tables, Symbols!FoundAt(tables, Node.name, d),
             scopes' = [scopes EXCEPT ![Len(scopes)] =
                           EmitLoad(Top, Symbols!Resolved(tables, Node.name, d))], Return
      PROVE  ScopesSane'
  <2> DEFINE symbol == Symbols!Resolved(tables, Node.name, d)
  <2>1. symbol \in Symbols!Symbol
    <3>1. Node.name \in Names
      BY <1>1, NodeIs DEF Balanced
    <3> QED BY <1>2, <3>1, TablesResolve DEF CodeInv, TablesInv
  <2>2. scopes' = [scopes EXCEPT ![Len(scopes)] = EmitLoad(Top, symbol)] /\ todo' = Tail(todo)
    BY <1>2 DEF Return
  <2> HIDE DEF symbol
  <2>3. PICK D, a, b : WorkingOn(D, a, b)
    BY <1>1, ExpressionWork
  <2>4. Working(D, a, b) /\ AfterStage(a, b, a.height + 1, "inside")
    BY <2>3 DEF WorkingOn
  <2>5. Len(EmitLoad(Top, symbol).bytes) < 256
    <3>1. IsSequence(scopes) /\ Len(scopes) > 0 /\ IsScope(Top)
      BY <2>4, TopWritable
    <3>2. IsScope(EmitLoad(Top, symbol))
      BY <2>1, <3>1, LoadScope
    <3>3. IsSequence(EmitLoad(Top, symbol).bytes)
      BY <3>2 DEF IsScope, ScopeSet, IsSequence
    <3> QED BY <2>2, <3>1, <3>3, TopShort
  <2>6. \E F : Sane([scopes EXCEPT ![Len(scopes)] = EmitLoad(Top, symbol)], F, Tail(todo))
    BY <2>1, <2>4, <2>5, SymbolCompiled DEF Working, Top
  <2>7. \E F : Sane(scopes', F, todo')
    BY <2>2, <2>6
  <2> QED BY <2>7, SaneStays
<1>3. ASSUME err' = "undefined variable", UNCHANGED scopes
      PROVE  ScopesSane'
  <2>1. err' # NULL
    BY <1>3, MessageAssumption
  <2>2. \E D : ScopesGood(scopes', D)
    BY <1>3 DEF CodeInv, ScopesSane
  <2> QED BY <2>1, <2>2 DEF ScopesSane
<1> QED BY <1>2, <1>3 DEF Identifier, Top

(* Conditionals                                                            *)
LEMMA IfCode ==
    ASSUME NEW Trees, Balanced(Trees), CodeInv(Trees), IfExpression
    PROVE  ScopesSane'
<1> DEFINE item == [do |-> "consequence", consequence |-> Node.consequence,
                    alternative |-> Node.alternative]
           x == << Compile(Node.condition), item >>
<1>1. Visiting("IF") /\ Call(x) /\ UNCHANGED scopes
  BY DEF IfExpression
<1>2. "IF" \in Expressions
  BY DEF Expressions
<1>3. /\ Node.condition.type \in Expressions /\ IsArm(Node.consequence)
      /\ Node.alternative # NULL => IsArm(Node.alternative)
  <2>1. Node \in Trees /\ Node.type = "IF"
    BY <1>1, NodeIs
  <2> QED BY <2>1, Zenon DEF Balanced
<1>4. PICK D, a, b : WorkingOn(D, a, b)
  BY <1>1, <1>2, ExpressionWork
<1>5. Working(D, a, b) /\ a \in Stage /\ b \in Stage /\ a.height \in Nat
      /\ AfterStage(a, b, a.height + 1, "inside")
  BY <1>4 DEF WorkingOn
<1>6. PICK c : Leads(scopes, D, << Compile(Node.condition) >>, a, c) /\ Raised(a, c, 1)
  BY <1>3, <1>5, LeadsExpression
<1>7. item.do = "consequence" /\ item.consequence = Node.consequence
      /\ item.alternative = Node.alternative
  OBVIOUS
<1> HIDE DEF item
<1>8. c \in Stage /\ c.height = a.height + 1 /\ c.level = a.level /\ c.open = a.open
  BY <1>6 DEF Raised
<1>9. Passes(scopes, D, c, item, b)
  <2>1. c.height > 0 /\ AfterStage(c, b, c.height, "inside")
    BY <1>5, <1>8 DEF AfterStage
  <2> QED BY <1>3, <1>7, <2>1 DEF Passes
<1>10. b.level <= c.level
  BY <1>5, <1>8 DEF AfterStage, Stage
<1>11. Leads(scopes, D, << item >>, c, b)
  BY <1>5, <1>8, <1>9, <1>10, LeadsOne
<1>12. Leads(scopes, D, << Compile(Node.condition) >> \o << item >>, a, b)
  BY <1>6, <1>11, LeadsOn
<1>13. Leads(scopes, D, x, a, b)
  BY <1>12, PairJoined
<1> HIDE DEF x
<1> QED BY <1>1, <1>5, <1>13, CallsStay

LEMMA CallIs ==
    ASSUME NEW Trees, CodeInv(Trees), NEW what, Resuming(what)
    PROVE  todo # << >> /\ Head(todo).do = what /\ IsItem(Trees, Head(todo))
BY ResumedCall DEF CodeInv

LEMMA ConsequenceCode ==
    ASSUME NEW Trees, CodeInv(Trees), IfConsequence, BuffersShort'
    PROVE  ScopesSane'
<1> DEFINE made == Emit(Top, OP.JUMP_NOT_TRUTHY, BackpatchLater)
           x == CompileAll(Head(todo).consequence)
                \o << AlternativeLater(Head(todo).alternative, Top.length) >>
<1>1. Resuming("consequence")
  BY DEF IfConsequence
<1>2. scopes' = [scopes EXCEPT ![Len(scopes)] = made] /\ todo' = x \o Tail(todo)
  BY DEF IfConsequence, EmitNow, Call, Top, AlternativeLater
<1>3. todo # << >> /\ Head(todo).do = "consequence" /\ IsSequence(Head(todo).consequence)
  <2>1. todo # << >> /\ Head(todo).do = "consequence" /\ IsItem(Trees, Head(todo))
    BY <1>1, CallIs
  <2>2. Head(todo).consequence \in Seq(Trees)
    BY <2>1 DEF IsItem
  <2> QED BY <2>1, <2>2, SequenceIs
<1>4. PICK D, a, b : Working(D, a, b)
  BY <1>3, SomeWork
<1>5. Len(made.bytes) < 256
  BY <1>2, <1>4, EmitShort
<1>6. \E F : Sane([scopes EXCEPT ![Len(scopes)] = made], F, x \o Tail(todo))
  BY <1>3, <1>4, <1>5, ConsequenceBegins DEF Working, Top
<1> HIDE DEF made, x
<1>7. \E F : Sane(scopes', F, todo')
  BY <1>2, <1>6
<1> QED BY <1>7, SaneStays

LEMMA ArmCode ==
    ASSUME NEW D, NEW a, NEW b, Working(D, a, b), Head(todo).do = "alternative"
    PROVE  Writable(ArmEnded(Top, Head(todo).jumpNotTruthy))
<1>1. /\ a.kind = "value"
      /\ Awaits(Top, D[Len(scopes)], Head(todo).jumpNotTruthy, OP.JUMP_NOT_TRUTHY, a.height + 1)
  BY ConsequenceEnds DEF Working, Top
<1>2. StandsAt(Top, D[Len(scopes)], a)
  BY TopWritable
<1> QED BY <1>1, <1>2, ArmStands

LEMMA AlternativeCode ==
    ASSUME NEW Trees, CodeInv(Trees), IfAlternative, BuffersShort'
    PROVE  ScopesSane'
<1> DEFINE q == Head(todo).jumpNotTruthy
           arm == ArmEnded(Top, q)
           j == WithoutLastPop(Top).length
           alternative == Head(todo).alternative
<1>1. Resuming("alternative")
  BY DEF IfAlternative
<1>2. todo # << >> /\ Head(todo).do = "alternative" /\ IsItem(Trees, Head(todo))
  BY <1>1, CallIs
<1>3. PICK D, a, b : Working(D, a, b)
  BY <1>2, SomeWork
<1>4. Writable(arm) /\ IsSequence(arm.bytes) /\ IsSequence(scopes) /\ Len(scopes) > 0
  BY <1>2, <1>3, ArmCode, TopWritable DEF Writable
<1>5. CASE alternative = NULL
  <2> DEFINE made == Emit(arm, OP.NULL, << >>)
             x == << EndLater(j, FALSE) >>
  <2>1. scopes' = [scopes EXCEPT ![Len(scopes)] = made] /\ todo' = x \o Tail(todo)
    BY <1>5 DEF IfAlternative, Call, ArmEnded, Jumped, EndLater
  <2>2. IsSequence(made.bytes)
    BY <1>4, EmitGrows
  <2>3. Len(made.bytes) < 256
    BY <1>4, <2>1, <2>2, TopShort
  <2>4. \E F : Sane([scopes EXCEPT ![Len(scopes)] = made], F, x \o Tail(todo))
    BY <1>2, <1>3, <2>3, AlternativeMissing DEF Working, Top
  <2> HIDE DEF made, x
  <2>5. \E F : Sane(scopes', F, todo')
    BY <2>1, <2>4
  <2> QED BY <2>5, SaneStays
<1>6. CASE alternative # NULL
  <2> DEFINE x == CompileAll(alternative) \o << EndLater(j, TRUE) >>
  <2>1. scopes' = [scopes EXCEPT ![Len(scopes)] = arm] /\ todo' = x \o Tail(todo)
    BY <1>6 DEF IfAlternative, Call, ArmEnded, Jumped, EndLater
  <2>2. IsSequence(alternative)
    <3>1. alternative \in Seq(Trees)
      BY <1>2, <1>6 DEF IsItem
    <3> QED BY <3>1, SequenceIs
  <2>3. Len(arm.bytes) < 256
    BY <1>4, <2>1, TopShort
  <2>4. \E F : Sane([scopes EXCEPT ![Len(scopes)] = arm], F, x \o Tail(todo))
    BY <1>2, <1>3, <1>6, <2>2, <2>3, AlternativeBegins DEF Working, Top
  <2> HIDE DEF arm, x
  <2>5. \E F : Sane(scopes', F, todo')
    BY <2>1, <2>4
  <2> QED BY <2>5, SaneStays
<1> QED BY <1>5, <1>6

LEMMA EndCode ==
    ASSUME NEW Trees, CodeInv(Trees), IfEnd
    PROVE  ScopesSane'
<1> DEFINE made == JumpedOver(Top, Head(todo).popped, Head(todo).jump)
<1>1. Resuming("endIf") /\ scopes' = [scopes EXCEPT ![Len(scopes)] = made] /\ todo' = Tail(todo)
  BY DEF IfEnd, Return, JumpedOver, Top
<1>2. todo # << >> /\ Head(todo).do = "endIf"
  BY <1>1, CallIs
<1>3. PICK D, a, b : Working(D, a, b)
  BY <1>2, SomeWork
<1>4. \E F : Sane([scopes EXCEPT ![Len(scopes)] = made], F, Tail(todo))
  BY <1>2, <1>3, ConditionalEnds DEF Working, Top
<1> HIDE DEF made
<1>5. \E F : Sane(scopes', F, todo')
  BY <1>1, <1>4
<1> QED BY <1>5, SaneStays

(* Function literals                                                       *)
LEMMA FunctionCode ==
    ASSUME NEW Trees, HoldsParts(Trees), Balanced(Trees), CodeInv(Trees), FunctionLiteral
    PROVE  ScopesSane'
<1> DEFINE body == Node.body
           end == [do |-> "endFunction", params |-> Len(Node.params)]
           x == CompileAll(body) \o << end >>
<1>1. Visiting("FN") /\ scopes' = Append(scopes, EmptyScope) /\ todo' = x \o Tail(todo)
  BY DEF FunctionLiteral, Call
<1>2. "FN" \in Expressions
  BY DEF Expressions
<1>3. IsSequence(body) /\ AreStatements(body)
  <2>1. body \in Seq(Trees) /\ AreStatements(body)
    BY <1>1, NodeIs DEF Balanced, HoldsParts
  <2> QED BY <2>1, SequenceIs
<1>4. PICK D, a, b : WorkingOn(D, a, b)
  BY <1>1, <1>2, ExpressionWork
<1>5. end.do = "endFunction"
  OBVIOUS
<1> HIDE DEF end, body
<1>6. \E F : Sane(Append(scopes, EmptyScope), F, x \o Tail(todo))
  BY <1>3, <1>4, <1>5, ScopeOpened DEF WorkingOn, Working
<1> HIDE DEF x
<1>7. \E F : Sane(scopes', F, todo')
  BY <1>1, <1>6
<1> QED BY <1>7, SaneStays

LEMMA FunctionEndCode ==
    ASSUME NEW Trees, CodeInv(Trees), FunctionEnd, BuffersShort'
    PROVE  ScopesSane'
<1> DEFINE symbols == tables[Len(tables)].free
           k == NextConstant
<1>1. /\ Resuming("endFunction") /\ scopes' = Enclosing(scopes, symbols, k)
      /\ todo' = Tail(todo)
  BY DEF FunctionEnd, Return, Enclosing
<1>2. todo # << >> /\ Head(todo).do = "endFunction"
  BY <1>1, CallIs
<1>3. symbols \in Seq(Symbols!Symbol)
  <2>1. tables \in Seq(Symbols!Table) /\ tables # << >>
    BY DEF CodeInv, TablesInv
  <2>2. tables[Len(tables)] \in Symbols!Table
    BY <2>1
  <2> QED BY <2>2, TableFields
<1>4. k \in Nat
  BY SequenceForm DEF CodeInv, CompilerInv, PoolInv, NextConstant
<1>5. PICK D, a, b : Working(D, a, b)
  BY <1>2, SomeWork
<1> HIDE DEF symbols, k
<1>6. FewBytes(Enclosing(scopes, symbols, k))
  BY <1>1 DEF BuffersShort
<1>7. \E F : Sane(Enclosing(scopes, symbols, k), F, Tail(todo))
  BY <1>2, <1>3, <1>4, <1>5, <1>6, ScopeClosed DEF Working
<1>8. \E F : Sane(scopes', F, todo')
  BY <1>1, <1>7
<1> QED BY <1>8, SaneStays

-----------------------------------------------------------------------------
(* The steps of compile() keep the invariant                               *)

LEMMA TablesStep ==
    ASSUME NEW Trees, HoldsParts(Trees), Balanced(Trees), CodeInv(Trees), NextCompiler
    PROVE  TablesInv'
<1>1. tables \in Seq(Symbols!Table) /\ tables # << >>
  BY DEF CodeInv, TablesInv
<1>2. CASE LetStatement
  <2>1. Node.name \in Names
    BY <1>2, NodeIs DEF LetStatement, Balanced
  <2> QED BY <1>1, <1>2, <2>1, TablesDefine DEF LetStatement, TablesInv
<1>3. CASE Identifier
  <2>1. Node.name \in Names
    BY <1>3, NodeIs DEF Identifier, Balanced
  <2>2. ASSUME NEW d \in DOMAIN tables, Symbols!FoundAt(tables, Node.name, d),
               tables' = Symbols!AfterResolve(tables, Node.name, d)
        PROVE  TablesInv'
    BY <1>1, <2>1, <2>2, TablesResolve DEF TablesInv
  <2>3. CASE UNCHANGED tables
    BY <1>1, <2>3 DEF TablesInv
  <2> QED BY <1>3, <2>2, <2>3 DEF Identifier
<1>4. CASE FunctionLiteral
  <2>1. Visiting("FN")
    BY <1>4 DEF FunctionLiteral
  <2>2. Node \in Trees /\ Node.type = "FN"
    BY <2>1, NodeIs
  <2>3. Node.name \in Names \cup {NULL} /\ Node.params \in Seq(Names)
    BY <2>2 DEF HoldsParts, Balanced
  <2> DEFINE entered == Symbols!EnterTable(tables, Node.name)
  <2>4. entered \in Seq(Symbols!Table) /\ entered # << >>
    BY <1>1, <2>3, TablesEnter
  <2>5. tables' = DefineParameters(entered, Node.params)
    BY <1>4 DEF FunctionLiteral
  <2> HIDE DEF entered
  <2> QED BY <2>3, <2>4, <2>5, TablesParameters DEF TablesInv
<1>5. CASE FunctionEnd
  <2>1. Resuming("endFunction") /\ tables' = OuterTables(tables)
    BY <1>5 DEF FunctionEnd
  <2>2. todo # << >> /\ Head(todo).do = "endFunction"
    BY <2>1, CallIs
  <2>3. CompilerInv(Trees) /\ err = NULL
    BY <2>2 DEF CodeInv, CompilerInv, CallsInv
  <2>4. Len(tables) > 1
    BY <2>2, <2>3, OpenTail DEF CompilerInv, CallsInv
  <2> QED BY <1>1, <2>1, <2>4, TablesLeave DEF TablesInv
<1>6. ASSUME UNCHANGED tables PROVE TablesInv'
  BY <1>1, <1>6 DEF TablesInv
<1> QED BY <1>2, <1>3, <1>4, <1>5, <1>6
        DEF NextCompiler, ExpressionStatement, ReturnStatement, EmitOperator, Constant,
            BooleanLiteral, InfixExpression, PrefixExpression, ArrayLiteral, HashLiteral,
            IndexExpression, CallExpression, IfExpression, IfConsequence, IfAlternative, IfEnd

LEMMA PoolAdded ==
    ASSUME IsSequence(pool), PoolRunnable, NEW STATE object, AddConstant(object), Runnable(object)
    PROVE  PoolRunnable'
<1>1. Len(pool) \in Nat /\ DOMAIN pool = 1..Len(pool)
  BY SequenceForm
<1>2. /\ IsSequence(pool') /\ Len(pool') = Len(pool) + 1
      /\ \A i \in 1..Len(pool) : pool'[i] = pool[i]
      /\ pool'[Len(pool) + 1] = object
  BY SequenceAppend DEF AddConstant
<1>3. ASSUME NEW i \in 1..Len(pool') PROVE Runnable(pool'[i])
  <2>1. CASE i \in 1..Len(pool)
    BY <1>2, <2>1 DEF PoolRunnable
  <2>2. CASE i = Len(pool) + 1
    BY <1>2, <2>2
  <2> QED BY <1>1, <1>2, <2>1, <2>2
<1>4. \A i \in 1..Len(pool') : Runnable(pool'[i])
  BY <1>3
<1> QED BY <1>4 DEF PoolRunnable, Runnable

LEMMA PoolStep ==
    ASSUME NEW Trees, CodeInv(Trees), NextCompiler, BuffersShort
    PROVE  PoolRunnable'
<1>1. IsSequence(pool) /\ PoolRunnable
  BY DEF CodeInv, CompilerInv, PoolInv
<1>2. CASE Constant
  <2>1. CASE AddConstant(Integer(Node.int))
    <3>1. Runnable(Integer(Node.int))
      BY DEF Runnable, Integer
    <3> QED BY <1>1, <2>1, <3>1, PoolAdded
  <2>2. CASE AddConstant(String(Node.string))
    <3>1. Runnable(String(Node.string))
      BY DEF Runnable, String
    <3> QED BY <1>1, <2>2, <3>1, PoolAdded
  <2> QED BY <1>2, <2>1, <2>2 DEF Constant
<1>3. CASE FunctionEnd
  <2> DEFINE code == Code(Returning(Top))
             object == CompiledFunction(code, tables[Len(tables)].num, Head(todo).params)
  <2>1. Resuming("endFunction") /\ AddConstant(object)
    BY <1>3 DEF FunctionEnd
  <2>2. todo # << >> /\ Head(todo).do = "endFunction"
    BY <2>1, CallIs
  <2>3. PICK D, a, b : Working(D, a, b)
    BY <2>2, SomeWork
  <2>4. Verifies(code, FALSE) /\ code \in Seq(Byte)
    BY <2>2, <2>3, ClosedVerifies DEF Working, BuffersShort, Top
  <2>5. object.code = code
    BY DEF CompiledFunction
  <2> HIDE DEF code, object
  <2>6. Runnable(object)
    BY <2>4, <2>5 DEF Runnable
  <2> QED BY <1>1, <2>1, <2>6, PoolAdded
<1>4. ASSUME UNCHANGED pool PROVE PoolRunnable'
  BY <1>1, <1>4 DEF PoolRunnable, Runnable
<1> QED BY <1>2, <1>3, <1>4
        DEF NextCompiler, LetStatement, ExpressionStatement, ReturnStatement, EmitOperator,
            BooleanLiteral, InfixExpression, PrefixExpression, ArrayLiteral, HashLiteral,
            Identifier, IndexExpression, CallExpression, IfExpression, IfConsequence,
            IfAlternative, IfEnd, FunctionLiteral

LEMMA CodeStep ==
    ASSUME NEW Trees, HoldsParts(Trees), Balanced(Trees), CodeInv(Trees), NextCompiler,
           BuffersShort, BuffersShort'
    PROVE  CodeInv(Trees)'
<1>1. CompilerInv(Trees)'
  BY CompilerStep DEF CodeInv
<1>2. TablesInv' /\ PoolRunnable'
  BY TablesStep, PoolStep
<1>3. ScopesSane'
  BY StatementCode, LetCode, PrefixCode, InfixCode, IndexCode, ArrayCode, HashCode, CallCode,
     OperatorCode, ConstantCode, BooleanCode, IdentifierCode, IfCode, ConsequenceCode,
     AlternativeCode, EndCode, FunctionCode, FunctionEndCode DEF NextCompiler
<1> QED BY <1>1, <1>2, <1>3 DEF CodeInv

(* A program is entered.                                                   *)
LEMMA ProgramSane ==
    ASSUME NEW nodes, IsSequence(nodes), AreStatements(nodes)
    PROVE  \E D : Sane(<< EmptyScope >>, D, CompileAll(nodes))
<1> DEFINE d == [p \in {0} |-> 0]
           D == << d >>
           ss == << EmptyScope >>
           a == [level |-> 1, height |-> 0, kind |-> "done", open |-> {}]
<1>1. Good(EmptyScope, d, {}) /\ d[EmptyScope.length] = 0 /\ NoValue(EmptyScope)
  BY EmptyStands
<1>2. IsSequence(ss) /\ Len(ss) = 1 /\ ss[1] = EmptyScope
  BY SequenceOfOne
<1>3. D[1] = d
  OBVIOUS
<1>4. /\ a \in Stage /\ a.level = 1 /\ a.height = 0 /\ a.kind = "done" /\ a.open = {}
  BY DEF Stage
<1> HIDE DEF a, d, D, ss
<1>5. StandsAt(ss[1], D[1], a)
  BY <1>1, <1>2, <1>3, <1>4 DEF StandsAt
<1>6. BlockLeads(ss, D, nodes, a)
  BY <1>4, LeadsStatements
<1>7. PICK c : Leads(ss, D, CompileAll(nodes), a, c) /\ Raised(a, c, 0)
  BY <1>6 DEF BlockLeads
<1>8. c.level = 1 /\ c.height = 0 /\ c.open = {}
  BY <1>4, <1>7 DEF Raised
<1>9. Finishes(ss, D, CompileAll(nodes), a)
  BY <1>7, <1>8 DEF Finishes
<1>10. Compiling(ss, D, CompileAll(nodes))
  BY <1>2, <1>4, <1>5, <1>9 DEF Compiling
<1>11. ScopesGood(ss, D)
  BY <1>1, <1>2, <1>3 DEF ScopesGood
<1> QED BY <1>2, <1>10, <1>11 DEF Sane, ss

LEMMA CodeBegins ==
    ASSUME NEW Trees, Programs \subseteq {p \in Seq(Trees) : AreStatements(p)}, InitCompiler
    PROVE  CodeInv(Trees)
<1>1. CompilerInv(Trees)
  BY CompilerBegins
<1>2. TablesInv
  <2>1. Symbols!BuiltinTable \in Symbols!Table /\ tables = << Symbols!BuiltinTable >>
    BY FirstTables DEF InitCompiler
  <2> QED BY <2>1 DEF TablesInv
<1>3. PoolRunnable
  BY DEF InitCompiler, PoolRunnable
<1>4. ScopesSane
  <2>1. PICK p \in Programs : todo = CompileAll(p)
    BY DEF InitCompiler
  <2>2. p \in Seq(Trees) /\ AreStatements(p)
    OBVIOUS
  <2>3. \E D : Sane(<< EmptyScope >>, D, CompileAll(p))
    BY <2>2, SequenceIs, ProgramSane
  <2>4. \E D : Sane(scopes, D, todo)
    BY <2>1, <2>3 DEF InitCompiler
  <2> QED BY <2>4 DEF ScopesSane, Sane
<1> QED BY <1>1, <1>2, <1>3, <1>4 DEF CodeInv

LEMMA CodeStill ==
    ASSUME NEW Trees, CodeInv(Trees), UNCHANGED compilerVars
    PROVE  CodeInv(Trees)'
BY DEF compilerVars, CodeInv, CompilerInv, CallsInv, ScopesInv, PoolInv, TablesInv, PoolRunnable,
       Runnable, ScopesSane

-----------------------------------------------------------------------------
(* What the invariant says of the code *)

LEMMA ByteNumber ==
    ASSUME NEW n \in Nat, n < 256
    PROVE  n \in Byte
BY DEF Byte

LEMMA CodeTyped ==
    ASSUME NEW Trees, CodeInv(Trees)
    PROVE  CompilerTypeOK
<1>1. tables \in Seq(Symbols!Table)
  BY DEF CodeInv, TablesInv
<1>2. PICK D : ScopesGood(scopes, D)
  BY DEF CodeInv, ScopesSane
<1>3. DOMAIN scopes = 1..Len(scopes) /\ DOMAIN pool = 1..Len(pool)
  BY SequenceForm DEF CodeInv, CompilerInv, ScopesInv, PoolInv
<1>4. ASSUME NEW k \in DOMAIN scopes
      PROVE  /\ scopes[k].bytes \in Seq(Byte)
             /\ scopes[k].length \in 0..Len(scopes[k].bytes) /\ scopes[k].length \in Byte
  <2>1. PICK J : Good(scopes[k], D[k], J)
    BY <1>2, <1>3 DEF ScopesGood
  <2>2. /\ IsScope(scopes[k]) /\ scopes[k].length \in Nat /\ scopes[k].length < 256
        /\ scopes[k].length <= Len(scopes[k].bytes)
    BY <2>1, GoodScope
  <2>3. scopes[k].bytes \in Seq(Byte)
    BY <2>2 DEF IsScope, ScopeSet
  <2>4. scopes[k].length \in Byte
    BY <2>2, ByteNumber
  <2>5. Len(scopes[k].bytes) \in Nat
    BY <2>3
  <2>6. scopes[k].length \in 0..Len(scopes[k].bytes)
    BY <2>2, <2>5
  <2> QED BY <2>3, <2>4, <2>6
<1>5. ASSUME NEW i \in DOMAIN pool, pool[i].t = "COMPILED_FUNCTION"
      PROVE  pool[i].code \in Seq(Byte)
  BY <1>3, <1>5 DEF CodeInv, PoolRunnable, Runnable
<1> QED BY <1>1, <1>4, <1>5 DEF CompilerTypeOK

LEMMA CodeNoted ==
    ASSUME NEW Trees, CodeInv(Trees)
    PROVE  LastInstructionTrue
<1>1. PICK D : ScopesGood(scopes, D)
  BY DEF CodeInv, ScopesSane
<1>2. DOMAIN scopes = 1..Len(scopes)
  BY SequenceForm DEF CodeInv, CompilerInv, ScopesInv
<1>3. ASSUME NEW k \in DOMAIN scopes, scopes[k].length > 0
      PROVE  /\ scopes[k].last.pos \in Starts(Code(scopes[k]))
             /\ ByteAt(scopes[k].bytes, scopes[k].last.pos) = scopes[k].last.op
             /\ scopes[k].last.pos + InstructionLength(scopes[k].last.op) = scopes[k].length
  <2> DEFINE s == scopes[k]
             d == D[k]
             pos == s.last.pos
  <2>1. PICK J : Good(s, d, J)
    BY <1>1, <1>2 DEF ScopesGood
  <2>2. /\ IsScope(s) /\ s.length \in Nat /\ Code(s) \in Seq(Byte) /\ Len(Code(s)) = s.length
        /\ DOMAIN d \subseteq 0..s.length
    BY <2>1, GoodScope
  <2>3. /\ pos \in DOMAIN d /\ ByteAt(Code(s), pos) = s.last.op
        /\ pos + InstructionLength(s.last.op) = s.length
    BY <1>3, <2>1 DEF Good, NoteAt
  <2>4. Starts(Code(s)) = DOMAIN d
    BY <2>1, StartsOfSound DEF Good
  <2>5. InstructionLength(s.last.op) \in 1..4
    BY LengthOfInstruction
  <2> HIDE DEF s, d, pos
  <2>6. pos \in Nat /\ pos < s.length
    BY <2>2, <2>3, <2>5
  <2>7. Code(s)[pos + 1] = s.bytes[pos + 1]
    BY <2>2, <2>6, CodeOfScope
  <2>8. ByteAt(s.bytes, pos) = ByteAt(Code(s), pos)
    BY <2>7 DEF ByteAt
  <2> QED BY <2>3, <2>4, <2>8 DEF s, pos
<1> QED BY <1>3 DEF LastInstructionTrue

LEMMA MainVerifies ==
    ASSUME NEW Trees, CodeInv(Trees), Compiled
    PROVE  Verifies(Code(scopes[1]), TRUE)
<1>1. PICK D : Sane(scopes, D, << >>)
  BY DEF CodeInv, ScopesSane, Compiled
<1>2. PICK a : /\ a.level = Len(scopes) /\ StandsAt(scopes[Len(scopes)], D[Len(scopes)], a)
               /\ Finishes(scopes, D, << >>, a)
  BY <1>1 DEF Sane, Compiling
<1>3. a.level = 1 /\ a.height = 0 /\ a.open = {}
  <2>1. PICK c : Leads(scopes, D, << >>, a, c) /\ c.level = 1 /\ c.height = 0 /\ c.open = {}
    BY <1>2 DEF Finishes
  <2>2. Len(<< >>) + 1 = 1
    OBVIOUS
  <2>3. a = c
    BY <2>1, <2>2 DEF Leads
  <2> QED BY <2>1, <2>3
<1>4. Good(scopes[1], D[1], {}) /\ D[1][scopes[1].length] = 0
  BY <1>2, <1>3 DEF StandsAt
<1>5. Sound(Code(scopes[1]), D[1], {}) /\ Len(Code(scopes[1])) = scopes[1].length
  BY <1>4, GoodScope DEF Good
<1>6. D[1][Len(Code(scopes[1]))] = 0
  BY <1>4, <1>5
<1> QED BY <1>5, <1>6, SoundVerifies

LEMMA CodeRuns ==
    ASSUME NEW Trees, CodeInv(Trees)
    PROVE  CodeVerifies
<1>1. DOMAIN pool = 1..Len(pool)
  BY SequenceForm DEF CodeInv, CompilerInv, PoolInv
<1>2. ASSUME NEW fn \in Functions PROVE Verifies(fn.code, FALSE)
  BY <1>1 DEF Functions, CodeInv, PoolRunnable, Runnable
<1>3. Compiled => Verifies(Code(scopes[1]), TRUE)
  BY MainVerifies
<1> QED BY <1>2, <1>3 DEF CodeVerifies

-----------------------------------------------------------------------------
LEMMA CodeAlways ==
    ASSUME NEW CONSTANT Trees, HoldsParts(Trees), Balanced(Trees), Programs \subseteq ProgramsOf(Trees)
    PROVE  SpecCompiler /\ []BuffersShort => []CodeInv(Trees)
<1>1. InitCompiler => CodeInv(Trees)
  BY CodeBegins DEF ProgramsOf
<1>2. CodeInv(Trees) /\ [NextCompiler]_compilerVars /\ BuffersShort /\ BuffersShort' => CodeInv(Trees)'
  BY CodeStep, CodeStill
<1> QED BY <1>1, <1>2, PTL DEF SpecCompiler

(* Whatever program is compiled, what compile() emits can be run - every   *)
(* function that has been left and, when it returns without an error, the  *)
(* main program - unless a buffer comes to 255 bytes, which is as many as  *)
(* the length of Instruct counts.                                          *)
THEOREM CompiledCodeVerifies ==
    ASSUME NEW CONSTANT Trees, HoldsParts(Trees), Balanced(Trees), Programs \subseteq ProgramsOf(Trees)
    PROVE  SpecCompiler /\ []BuffersShort => []CodeVerifies
<1>1. CodeInv(Trees) => CodeVerifies
  BY CodeRuns
<1> QED BY <1>1, CodeAlways, PTL

(* The note of the last instruction, on which the compiler decides what to *)
(* drop and what to turn into a return, is true in every open scope.       *)
THEOREM NotesAreTrue ==
    ASSUME NEW CONSTANT Trees, HoldsParts(Trees), Balanced(Trees), Programs \subseteq ProgramsOf(Trees)
    PROVE  SpecCompiler /\ []BuffersShort => []LastInstructionTrue
<1>1. CodeInv(Trees) => LastInstructionTrue
  BY CodeNoted
<1> QED BY <1>1, CodeAlways, PTL

(* The tables stay tables of symbols, the buffers and the code of          *)
(* functions bytes, and a length is within its buffer and its byte.        *)
THEOREM CompilerTypesCorrect ==
    ASSUME NEW CONSTANT Trees, HoldsParts(Trees), Balanced(Trees), Programs \subseteq ProgramsOf(Trees)
    PROVE  SpecCompiler /\ []BuffersShort => []CompilerTypeOK
<1>1. CodeInv(Trees) => CompilerTypeOK
  BY CodeTyped
<1> QED BY <1>1, CodeAlways, PTL


-----------------------------------------------------------------------------
(* The same over the lines of a session, whichever of them fail *)

CodeSessionInv(Trees) ==
    CodeInv(Trees) /\ session \in Seq(ProgramsOf(Trees)) /\ line \in Nat

LEMMA SessionOfTrees ==
    ASSUME NEW Trees, CodeSessionInv(Trees)
    PROVE  SessionInv(Trees)
<1>1. ProgramsOf(Trees) \subseteq Seq(Trees)
  BY DEF ProgramsOf
<1>2. session \in Seq(Seq(Trees))
  BY <1>1 DEF CodeSessionInv
<1> QED BY <1>2 DEF CodeSessionInv, CodeInv, SessionInv

(* A line starts on a buffer of its own and on the table of the globals.   *)
LEMMA LineCode ==
    ASSUME NEW Trees, CodeSessionInv(Trees), ReadLine
    PROVE  CodeSessionInv(Trees)'
<1>1. /\ line' = line + 1 /\ line < Len(session) /\ session' = session
      /\ Begin(session[line'])
  BY DEF ReadLine
<1>2. line' \in 1..Len(session)
  BY <1>1 DEF CodeSessionInv
<1> DEFINE program == session[line']
<1>3. program \in ProgramsOf(Trees)
  BY <1>2 DEF CodeSessionInv
<1>4. /\ todo' = CompileAll(program) /\ tables' = << tables[1] >>
      /\ scopes' = << EmptyScope >> /\ err' = NULL /\ UNCHANGED pool
  BY <1>1 DEF Begin, GlobalTable
<1> HIDE DEF program
<1>5. IsSequence(program) /\ AreStatements(program)
  <2>1. program \in Seq(Trees) /\ AreStatements(program)
    BY <1>3 DEF ProgramsOf
  <2> QED BY <2>1, SequenceIs
<1>6. CompilerInv(Trees)'
  BY LineBegins, SessionOfTrees DEF SessionInv
<1>7. TablesInv'
  <2>1. tables \in Seq(Symbols!Table) /\ tables # << >>
    BY DEF CodeSessionInv, CodeInv, TablesInv
  <2>2. tables[1] \in Symbols!Table
    BY <2>1
  <2>3. << tables[1] >> \in Seq(Symbols!Table) /\ << tables[1] >> # << >>
    BY <2>2
  <2> QED BY <1>4, <2>3 DEF TablesInv
<1>8. PoolRunnable'
  BY <1>4 DEF CodeSessionInv, CodeInv, PoolRunnable, Runnable
<1>9. ScopesSane'
  <2>1. PICK D : Sane(<< EmptyScope >>, D, CompileAll(program))
    BY <1>5, ProgramSane
  <2>2. Sane(scopes', D, todo')
    BY <1>4, <2>1
  <2> QED BY <2>2, SaneStays
<1>10. session' \in Seq(ProgramsOf(Trees)) /\ line' \in Nat
  BY <1>1 DEF CodeSessionInv
<1> QED BY <1>6, <1>7, <1>8, <1>9, <1>10 DEF CodeSessionInv, CodeInv

LEMMA CodeSessionStep ==
    ASSUME NEW Trees, HoldsParts(Trees), Balanced(Trees), CodeSessionInv(Trees),
           [Next]_monkeyVars, BuffersShort, BuffersShort'
    PROVE  CodeSessionInv(Trees)'
<1>1. CASE CompileStep
  <2>1. CodeInv(Trees)'
    BY <1>1, CodeStep DEF CompileStep, CodeSessionInv
  <2> QED BY <1>1, <2>1 DEF CompileStep, CodeSessionInv
<1>2. ASSUME UNCHANGED <<compilerVars, session, line>> PROVE CodeSessionInv(Trees)'
  <2>1. CodeInv(Trees)'
    BY <1>2, CodeStill DEF CodeSessionInv
  <2> QED BY <1>2, <2>1 DEF CodeSessionInv
<1>3. CASE MachineStep
  <2>1. UNCHANGED <<compilerVars, session, line>>
    BY <1>3, MachineKeepsPool DEF MachineStep, compilerVars
  <2> QED BY <1>2, <2>1
<1>4. CASE CompilationFailed \/ ArrayOverrun \/ Execute \/ Report \/ UNCHANGED monkeyVars
  <2>1. UNCHANGED <<compilerVars, session, line>>
    BY <1>4 DEF CompilationFailed, ArrayOverrun, Execute, Report, monkeyVars
  <2> QED BY <1>2, <2>1
<1> QED BY <1>1, <1>3, <1>4, LineCode DEF Next

LEMMA CodeSessionBegins ==
    ASSUME NEW Trees, Sessions \subseteq Seq(ProgramsOf(Trees)), Init
    PROVE  CodeSessionInv(Trees)
<1>1. session \in Seq(ProgramsOf(Trees)) /\ line \in Nat
  BY DEF Init
<1>2. CompilerInv(Trees)
  <2>1. ProgramsOf(Trees) \subseteq Seq(Trees)
    BY DEF ProgramsOf
  <2>2. Sessions \subseteq Seq(Seq(Trees))
    BY <2>1
  <2> QED BY <2>2, SessionBegins DEF SessionInv
<1>3. TablesInv
  <2>1. Symbols!BuiltinTable \in Symbols!Table /\ tables = << Symbols!BuiltinTable >>
    BY FirstTables DEF Init
  <2> QED BY <2>1 DEF TablesInv
<1>4. PoolRunnable
  BY DEF Init, PoolRunnable
<1>5. ScopesSane
  <2>1. IsSequence(<< >>) /\ AreStatements(<< >>) /\ CompileAll(<< >>) = << >>
    BY EmptySeq DEF IsSequence, AreStatements, CompileAll
  <2>2. \E D : Sane(<< EmptyScope >>, D, << >>)
    BY <2>1, ProgramSane
  <2>3. \E D : Sane(scopes, D, todo)
    BY <2>2 DEF Init
  <2> QED BY <2>3 DEF ScopesSane, Sane
<1> QED BY <1>1, <1>2, <1>3, <1>4, <1>5 DEF CodeSessionInv, CodeInv

LEMMA CodeSessionAlways ==
    ASSUME NEW CONSTANT Trees, HoldsParts(Trees), Balanced(Trees),
           Sessions \subseteq Seq(ProgramsOf(Trees))
    PROVE  Spec /\ []BuffersShort => []CodeSessionInv(Trees)
<1>1. Init => CodeSessionInv(Trees)
  BY CodeSessionBegins
<1>2. CodeSessionInv(Trees) /\ [Next]_monkeyVars /\ BuffersShort /\ BuffersShort'
        => CodeSessionInv(Trees)'
  BY CodeSessionStep
<1> QED BY <1>1, <1>2, PTL DEF Spec

(* Over a session, whichever lines fail and wherever, the machine is only  *)
(* ever handed code that can be run, the functions of earlier lines        *)
(* included.                                                               *)
THEOREM SessionCodeVerifies ==
    ASSUME NEW CONSTANT Trees, HoldsParts(Trees), Balanced(Trees),
           Sessions \subseteq Seq(ProgramsOf(Trees))
    PROVE  Spec /\ []BuffersShort => []CodeVerifies
<1>1. CodeSessionInv(Trees) => CodeVerifies
  BY CodeRuns DEF CodeSessionInv
<1> QED BY <1>1, CodeSessionAlways, PTL
=============================================================================
