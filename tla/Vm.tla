-------------------------------- MODULE Vm ----------------------------------
(***************************************************************************)
(* The stack machine, src/vm/vm.c.                                         *)
(*                                                                         *)
(* One step is one turn of the loop of vm_run.  The operands of an         *)
(* expression, the locals of the active calls and the functions being      *)
(* called share one stack; a frame remembers its closure, the offset of    *)
(* the last byte it has executed and the place of its first local.         *)
(*                                                                         *)
(* Nothing is checked on the way: an operand below the stack, a local that *)
(* was never set, a call deeper than the array of frames.  Where the C     *)
(* code has undefined behaviour the model stops in the status "undefined". *)
(* Two things next to each other in struct Vm_t matter: a push is refused  *)
(* only when sp is beyond STACK_SIZE, so slot STACK_SIZE can be written,   *)
(* and the word there is the field "globals".                              *)
(***************************************************************************)
EXTENDS Verifier, Objects

CONSTANTS STACK_SIZE, MAX_FRAMES,
          GlobalSlots       \* bound: the indices of globals in use

VARIABLES pool,      \* vm->constant_pool, which the compiler fills
          globals,   \* the globals; they outlive the machine
          stack,     \* vm->stack, and in slot STACK_SIZE the field after it
          sp,        \* vm->sp
          frames,    \* vm->frames up to frames_index
          status     \* "idle" without a machine, "running", or how vm_run ended
vmVars == <<globals, stack, sp, frames, status>>

Slots == 0..STACK_SIZE
GlobalsPointer == [t |-> "garbage", field |-> "globals"]

Frame == frames[Len(frames)]
Instructions == Frame.closure.fn.code
Ip == Frame.ip + 1

(* The loop goes on; the instruction at Ip is one of ops.                  *)
More == status = "running" /\ Frame.ip < Len(Instructions) - 1
At(ops) == More /\ ByteAt(Instructions, Ip) \in ops
Op == ByteAt(Instructions, Ip)
Arg(i) == ReadOperands(Op, Instructions, Ip)[i]

(* The current frame has executed the bytes up to the offset ip.           *)
Moved(ip) == [frames EXCEPT ![Len(frames)].ip = ip]
Executed == Ip + InstructionLength(Op) - 1

-----------------------------------------------------------------------------
(* vm_new: the globals are calloc'ed, the stack is as malloc left it.      *)

InitVm ==
    /\ globals = [g \in GlobalSlots |-> NullPointer]
    /\ stack = << >> /\ sp = 0 /\ frames = << >>
    /\ status = "idle"

NewFrame(closure, base) == [closure |-> closure, ip |-> -1, bp |-> base]

Load(code) ==
    /\ stack' = [i \in Slots |-> IF i = STACK_SIZE THEN GlobalsPointer ELSE Garbage]
    /\ sp' = 0
    /\ frames' = << NewFrame(Closure(CompiledFunction(code, 0, 0), << >>), 0) >>
    /\ status' = "running"
    /\ UNCHANGED globals

(* vm_run returns; only the globals outlive it.                            *)
Stop(how) == status' = how /\ UNCHANGED <<globals, stack, sp, frames>>

(* The stack does hold n operands.                                         *)
Holds(n) == n <= sp /\ (n > 0 => sp <= STACK_SIZE + 1)
Operand(i) == stack[sp - i]
LastOperands(n) == [i \in 1..n |-> Operand(n + 1 - i)]
OnObjects(n, outcome) == IF Holds(n) THEN Checked(LastOperands(n), outcome) ELSE Undefined

(* n operands make room for the outcome of the operation.                  *)
Yield(n, outcome) ==
    CASE ~Holds(n) \/ outcome = Undefined -> Stop("undefined")
      [] Holds(n) /\ outcome = Error -> Stop("error")
      [] Holds(n) /\ outcome = Exit -> Stop("exited")
      [] Holds(n) /\ sp - n > STACK_SIZE -> Stop("error")      \* stack overflow
      [] OTHER -> /\ stack' = [stack EXCEPT ![sp - n] = outcome]
                  /\ sp' = sp - n + 1
                  /\ frames' = Moved(Executed)
                  /\ UNCHANGED <<globals, status>>

-----------------------------------------------------------------------------
(* Constants and literals *)

PushConstant ==
    /\ At({OP.CONSTANT})
    /\ Yield(0, IF Arg(1) < Len(pool) THEN pool[Arg(1) + 1] ELSE Undefined)
    /\ UNCHANGED pool

PushLiteral ==
    /\ At({OP.TRUE, OP.FALSE, OP.NULL})
    /\ Yield(0, IF Op = OP.NULL THEN Null ELSE Boolean(Op = OP.TRUE))
    /\ UNCHANGED pool

-----------------------------------------------------------------------------
(* Operators *)

BinaryInt(op, l, r) ==
    CASE op = OP.ADD -> Integer(l + r)
      [] op = OP.SUB -> Integer(l - r)
      [] op = OP.MUL -> Integer(l * r)
      [] op = OP.DIV -> IF r = 0 THEN Undefined ELSE Integer(Quotient(l, r))

Binary(op, l, r) ==
    IF l.t = "INTEGER" /\ r.t = "INTEGER" THEN BinaryInt(op, l.int, r.int)
    ELSE IF l.t = "STRING" /\ r.t = "STRING" /\ op = OP.ADD THEN String(l.string \o r.string)
    ELSE Error

BinaryOperation ==
    /\ At({OP.ADD, OP.SUB, OP.MUL, OP.DIV})
    /\ Yield(2, OnObjects(2, Binary(Op, Operand(2), Operand(1))))
    /\ UNCHANGED pool

CompareInt(op, l, r) ==
    CASE op = OP.EQUAL -> Boolean(l = r)
      [] op = OP.NOT_EQUAL -> Boolean(l # r)
      [] op = OP.GREATER_THAN -> Boolean(l > r)

(* One boolean operand is enough for == and !=.                            *)
Comparisons(op, l, r) ==
    IF l.t = "INTEGER" /\ r.t = "INTEGER" THEN {CompareInt(op, l.int, r.int)}
    ELSE IF op = OP.GREATER_THAN \/ "BOOLEAN" \notin {l.t, r.t} THEN {Error}
    ELSE {Boolean((x = y) = (op = OP.EQUAL)) : x \in AsBool(l), y \in AsBool(r)}

Comparison ==
    /\ At({OP.EQUAL, OP.NOT_EQUAL, OP.GREATER_THAN})
    /\ \E outcome \in IF OnObjects(2, Null) = Null
                      THEN Comparisons(Op, Operand(2), Operand(1)) ELSE {Undefined} :
         Yield(2, outcome)
    /\ UNCHANGED pool

Minus ==
    /\ At({OP.MINUS})
    /\ Yield(1, OnObjects(1, IF Operand(1).t = "INTEGER" THEN Integer(-Operand(1).int) ELSE Error))
    /\ UNCHANGED pool

(* Only false and null are not truthy.                                     *)
Bang ==
    /\ At({OP.BANG})
    /\ Yield(1, OnObjects(1, Boolean(~Truthy(Operand(1)))))
    /\ UNCHANGED pool

-----------------------------------------------------------------------------
(* Arrays and hashes *)

BuildArray ==
    /\ At({OP.ARRAY})
    /\ Yield(Arg(1), ArrayOf(LastOperands(Arg(1))))
    /\ UNCHANGED pool

BuildHash ==
    /\ At({OP.HASH})
    /\ LET flat == LastOperands(Arg(1))
       IN  Yield(Arg(1), HashOf([i \in 1..Arg(1) \div 2 |-> <<flat[2*i - 1], flat[2*i]>>]))
    /\ UNCHANGED pool

ArrayItem(elements, i) == IF i \in 0..Len(elements) - 1 THEN elements[i + 1] ELSE Null

(* exec_hash_index compares the hashes of the keys one by one; a key       *)
(* without a hash on the way is a null pointer to strcmp.                  *)
HashItem(pairs, key) ==
    LET Equal(i) == pairs[i][1] = key
        Comparable(i) == IsObject(pairs[i][1]) /\ Hashable(pairs[i][1])
        first == {i \in DOMAIN pairs : Equal(i) /\ \A j \in 1..i-1 : ~Equal(j)}
        visited == IF first = {} THEN DOMAIN pairs ELSE UNION {1..i : i \in first}
    IN  IF ~Hashable(key) THEN Error
        ELSE IF \E i \in visited : ~Comparable(i) THEN Undefined
        ELSE IF first = {} THEN Null ELSE pairs[CHOOSE i \in first : TRUE][2]

(* The index is only looked at when what it indexes is an array or a hash. *)
Item(left, index) ==
    CASE ~IsObject(left) -> Undefined
      [] IsObject(left) /\ left.t \notin {"ARRAY", "HASH"} -> Error
      [] left.t \in {"ARRAY", "HASH"} /\ ~IsObject(index) -> Undefined
      [] left.t = "HASH" /\ IsObject(index) -> HashItem(left.pairs, index)
      [] left.t = "ARRAY" /\ IsObject(index) ->
            IF index.t = "INTEGER" THEN ArrayItem(left.elements, index.int) ELSE Error

IndexOperation ==
    /\ At({OP.INDEX})
    /\ Yield(2, IF Holds(2) THEN Item(Operand(2), Operand(1)) ELSE Undefined)
    /\ UNCHANGED pool

-----------------------------------------------------------------------------
(* Pops and jumps *)

Pop ==
    /\ At({OP.POP})
    /\ IF Holds(1) THEN /\ sp' = sp - 1
                        /\ frames' = Moved(Executed)
                        /\ UNCHANGED <<globals, stack, status>>
       ELSE Stop("undefined")
    /\ UNCHANGED pool

(* The target is the next byte to execute.                                 *)
JumpedPast(target) == Moved(target)     \* faulty: the byte after it is
Jumped(target) == Moved(target - 1)

Jump ==
    /\ At({OP.JUMP})
    /\ frames' = Jumped(Arg(1))
    /\ UNCHANGED <<pool, globals, stack, sp, status>>

JumpNotTruthy ==
    /\ At({OP.JUMP_NOT_TRUTHY})
    /\ IF OnObjects(1, Null) = Null
       THEN /\ sp' = sp - 1
            /\ frames' = IF Truthy(Operand(1)) THEN Moved(Executed) ELSE Jumped(Arg(1))
            /\ UNCHANGED <<globals, stack, status>>
       ELSE Stop("undefined")
    /\ UNCHANGED pool

-----------------------------------------------------------------------------
(* Variables *)

(* The field "globals" is gone once slot STACK_SIZE has been written.      *)
GlobalsKept == stack[STACK_SIZE] = GlobalsPointer

GetGlobal ==
    /\ At({OP.GET_GLOBAL})
    /\ Yield(0, IF GlobalsKept THEN globals[Arg(1)] ELSE Undefined)
    /\ UNCHANGED pool

SetGlobal ==
    /\ At({OP.SET_GLOBAL})
    /\ IF Holds(1) /\ GlobalsKept
       THEN /\ globals' = [globals EXCEPT ![Arg(1)] = Operand(1)]
            /\ sp' = sp - 1
            /\ frames' = Moved(Executed)
            /\ UNCHANGED <<stack, status>>
       ELSE Stop("undefined")
    /\ UNCHANGED pool

LocalAbove(i) == Frame.bp + i + 1     \* faulty: locals counted from one
LocalBelow(i) == Frame.bp + i - 1     \* faulty: the function taken for a local
Local(i) == Frame.bp + i

GetLocal ==
    /\ At({OP.GET_LOCAL})
    /\ Yield(0, IF Local(Arg(1)) \in Slots THEN stack[Local(Arg(1))] ELSE Undefined)
    /\ UNCHANGED pool

SetLocal ==
    /\ At({OP.SET_LOCAL})
    /\ IF Holds(1) /\ Local(Arg(1)) \in Slots
       THEN /\ stack' = [stack EXCEPT ![Local(Arg(1))] = Operand(1)]
            /\ sp' = sp - 1
            /\ frames' = Moved(Executed)
            /\ UNCHANGED <<globals, status>>
       ELSE Stop("undefined")
    /\ UNCHANGED pool

-----------------------------------------------------------------------------
(* Functions *)

Uncaptured(fn, n) == fn     \* faulty: the function itself is pushed
CapturedButOne(fn, n) == Closure(fn, LastOperands(n - 1))     \* faulty: the first is left out
Captured(fn, n) == Closure(fn, LastOperands(n))

PushClosure ==
    /\ At({OP.CLOSURE})
    /\ Yield(Arg(2), IF Arg(1) >= Len(pool) THEN Undefined
                     ELSE IF pool[Arg(1) + 1].t # "COMPILED_FUNCTION" THEN Error
                     ELSE Captured(pool[Arg(1) + 1], Arg(2)))
    /\ UNCHANGED pool

CurrentClosure ==
    /\ At({OP.CURRENT_CLOSURE})
    /\ Yield(0, Frame.closure)
    /\ UNCHANGED pool

GetFree ==
    /\ At({OP.GET_FREE})
    /\ Yield(0, IF Arg(1) < Len(Frame.closure.free) THEN Frame.closure.free[Arg(1) + 1] ELSE Undefined)
    /\ UNCHANGED pool

GetBuiltin ==
    /\ At({OP.GET_BUILTIN})
    /\ Yield(0, IF Arg(1) \in 0..5 THEN Builtin(Arg(1)) ELSE Exit)
    /\ UNCHANGED pool

(* The function is below its arguments on the stack.                       *)
Callee == Operand(Arg(1) + 1)
Calling(type) == At({OP.CALL}) /\ Holds(Arg(1) + 1) /\ Callee.t = type

(* call_closure: a frame on the arguments, with room for the other locals. *)
CallClosure ==
    /\ Calling("CLOSURE")
    /\ IF Arg(1) # Callee.fn.params THEN Stop("error")
       ELSE IF Len(frames) = MAX_FRAMES THEN Stop("undefined")
       ELSE /\ frames' = Append(Moved(Executed), NewFrame(Callee, sp - Arg(1)))
            /\ sp' = sp - Arg(1) + Callee.fn.locals
            /\ UNCHANGED <<globals, stack, status>>
    /\ UNCHANGED pool

(* call_builtin: the function and its arguments stay below the result.     *)
CallBuiltinFn ==
    /\ Calling("BUILT_IN")
    /\ Yield(0, CallBuiltin(Callee.index, LastOperands(Arg(1))))
    /\ UNCHANGED pool

CallOther ==
    /\ At({OP.CALL})
    /\ Holds(Arg(1) + 1) => Callee.t \notin {"CLOSURE", "BUILT_IN"}
    /\ Stop(IF Holds(Arg(1) + 1) /\ Callee.t # "garbage" THEN "error" ELSE "undefined")
    /\ UNCHANGED pool

(* A return: the frame, its locals and the function called make room for   *)
(* the value.  A return of the main program takes its only frame.          *)
ReturnFrom(value) ==
    IF Len(frames) = 1 THEN Stop("undefined")
    ELSE /\ frames' = SubSeq(frames, 1, Len(frames) - 1)
         /\ stack' = [stack EXCEPT ![Frame.bp - 1] = value]
         /\ sp' = Frame.bp
         /\ UNCHANGED <<globals, status>>

ReturnValue ==
    /\ At({OP.RETURN_VALUE})
    /\ IF Holds(1) THEN ReturnFrom(Operand(1)) ELSE Stop("undefined")
    /\ UNCHANGED pool

Return ==
    /\ At({OP.RETURN})
    /\ ReturnFrom(Null)
    /\ UNCHANGED pool

-----------------------------------------------------------------------------
Halt == status = "running" /\ ~More /\ Stop("done") /\ UNCHANGED pool

NextVm ==
    \/ PushConstant \/ PushLiteral \/ BinaryOperation \/ Comparison \/ Minus \/ Bang
    \/ BuildArray \/ BuildHash \/ IndexOperation \/ Pop \/ Jump \/ JumpNotTruthy
    \/ GetGlobal \/ SetGlobal \/ GetLocal \/ SetLocal
    \/ PushClosure \/ CurrentClosure \/ GetFree \/ GetBuiltin
    \/ CallClosure \/ CallBuiltinFn \/ CallOther \/ ReturnValue \/ Return \/ Halt

(* vm_last_popped                                                          *)
LastPopped == IF sp \in Slots THEN stack[sp] ELSE Garbage
=============================================================================
