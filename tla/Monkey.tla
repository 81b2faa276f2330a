------------------------------- MODULE Monkey -------------------------------
(***************************************************************************)
(* The compiler and the machine together: repl_start of src/repl/repl.c,   *)
(* and with a single line exec_compile of src/run/run.c.                   *)
(*                                                                         *)
(* Each line is a program.  It is compiled into the tables and the pool of *)
(* the lines before it and run by a new machine on the globals of the      *)
(* lines before it.  A line that fails to compile or to run is reported    *)
(* and the next one is read, with whatever the failed line has left.       *)
(***************************************************************************)
EXTENDS Compiler

CONSTANTS Sessions,     \* the lines entered: sequences of programs
          STACK_SIZE, MAX_FRAMES, GlobalSlots     \* see Vm

ASSUME SizesAssumption == STACK_SIZE \in Nat \ {0} /\ MAX_FRAMES \in Nat \ {0}

VARIABLES globals, stack, sp, frames, status,   \* the machine: see Vm
          session,  \* the lines that will be entered
          line,     \* how many of them have been read
          output    \* what has been printed for the lines read: objects and errors
monkeyVars == <<compilerVars, globals, stack, sp, frames, status, session, line, output>>

VM == INSTANCE Vm

Init ==
    /\ session \in Sessions /\ line = 0
    /\ output = << >>
    /\ todo = << >> /\ tables = << Symbols!BuiltinTable >>
    /\ scopes = << EmptyScope >> /\ pool = << >> /\ err = NULL
    /\ VM!InitVm

ReadLine ==
    /\ status = "idle" /\ line < Len(session)
    /\ line' = line + 1
    /\ Begin(session[line'])
    /\ status' = "compiling"
    /\ UNCHANGED <<globals, stack, sp, frames, session, output>>

CompileStep ==
    /\ status = "compiling"
    /\ NextCompiler
    /\ UNCHANGED <<globals, stack, sp, frames, status, session, line, output>>

ArrayOverrun ==
    /\ status = "compiling" /\ Overruns
    /\ status' = "undefined"
    /\ UNCHANGED <<compilerVars, globals, stack, sp, frames, session, line, output>>

CompilationFailed ==
    /\ status = "compiling" /\ todo = << >> /\ err # NULL
    /\ output' = Append(output, Error)
    /\ status' = "idle"
    /\ UNCHANGED <<compilerVars, globals, stack, sp, frames, session, line>>

Execute ==
    /\ status = "compiling" /\ Compiled
    /\ VM!Load(Code(scopes[1]))
    /\ UNCHANGED <<compilerVars, session, line, output>>

MachineStep ==
    /\ VM!NextVm
    /\ UNCHANGED <<tables, todo, scopes, err, session, line, output>>

(* The value last popped is printed, if that can be done.                  *)
Shown == status = "error" \/ Printable(VM!LastPopped)
Report ==
    /\ status \in {"done", "error"}
    /\ IF Shown THEN /\ output' = Append(output, IF status = "done" THEN VM!LastPopped ELSE Error)
                     /\ status' = "idle"
       ELSE status' = "undefined" /\ UNCHANGED output
    /\ UNCHANGED <<compilerVars, globals, stack, sp, frames, session, line>>

Next ==
    \/ ReadLine \/ CompileStep \/ ArrayOverrun \/ CompilationFailed
    \/ Execute \/ MachineStep \/ Report

Spec == Init /\ [][Next]_monkeyVars /\ WF_monkeyVars(Next)

-----------------------------------------------------------------------------
(* Properties *)

Values == {"null pointer", "garbage", "INTEGER", "BOOLEAN", "STRING", "NULL", "ARRAY", "HASH",
           "CLOSURE", "BUILT_IN"}

(* The machine is well formed: values in its slots and globals, a stack    *)
(* pointer and base pointers within the stack, frames that run functions.  *)
TypeOK ==
    /\ status \in {"idle", "compiling", "running", "done", "error", "undefined", "exited"}
    /\ \A g \in GlobalSlots : globals[g].t \in Values
    /\ status = "running" =>
         /\ DOMAIN stack = 0..STACK_SIZE /\ \A i \in 0..STACK_SIZE : stack[i].t \in Values
         /\ sp \in Nat
         /\ Len(frames) \in 1..MAX_FRAMES
         /\ \A k \in DOMAIN frames :
              /\ frames[k].ip \in -1..Len(frames[k].closure.fn.code) - 1
              /\ frames[k].bp \in 0..STACK_SIZE + 1

(* Calls that nest too deeply end in the error "stack overflow" of push(), *)
(* as any other misuse of the machine ends in an error of its own.         *)
OverflowReported == status # "undefined"

(* The frames lie on the stack one above the other, and while a function   *)
(* runs, the closure it was called through is still below its locals.      *)
FramesNested ==
    status = "running" =>
      \A k \in 2..Len(frames) :
        /\ frames[k].bp > frames[k-1].bp + frames[k-1].closure.fn.locals
        /\ stack[frames[k].bp - 1] = frames[k].closure
        /\ frames[k].bp + frames[k].closure.fn.locals <= sp

(* The operands on the stack of every active call include those its code   *)
(* has there, instruction by instruction: when the call above it returns,  *)
(* for a caller.  There are no others in a program on its own none of      *)
(* whose code loads a builtin; a call of one leaves more, as it pops       *)
(* nothing, and a function or an earlier line may have handed one on.      *)
Top0(k) == IF k = Len(frames) THEN sp ELSE frames[k+1].bp
Depth(k) == Top0(k) - (frames[k].bp + frames[k].closure.fn.locals)
LoadsBuiltin(code) == \E ins \in Instrs(code) : ins.op = OP.GET_BUILTIN
NoBuiltins == line = 1 /\ \A code \in Streams : ~LoadsBuiltin(code)
DepthAgrees ==
    status = "running" =>
      \A k \in DOMAIN frames :
        \E r \in Reached(frames[k].closure.fn.code) :
          /\ r[1] = frames[k].ip + 1
          /\ Depth(k) >= r[2]
          /\ NoBuiltins => Depth(k) = r[2]

(* Nothing is checked before it is done: not the arrays of the compiler,   *)
(* not the machine's stack, not what instructions refer to, not the value  *)
(* that is printed.  On code of the compiler, nothing undefined comes of   *)
(* it but for what is listed here.  Compiling: an array is full.  Running: *)
(* a limit is exceeded, the main program returns, an operand is a zero to  *)
(* divide by, a hash with a key without a hash, has in it the value of a   *)
(* variable that was never set, or is put and has no text.  At the end:    *)
(* the value last popped is no such thing or has no text.                  *)
Taken == {VM!Operand(i) : i \in {j \in 1..Pops(VM!Instructions, VM!Ip) : VM!Holds(j)}}
StackUsedUp == sp > STACK_SIZE \/ ~VM!GlobalsKept
FramesUsedUp == VM!Op = OP.CALL /\ Len(frames) = MAX_FRAMES
MainReturns == VM!Op \in Ends /\ Len(frames) = 1
DividesByZero ==
    VM!Op = OP.DIV /\ VM!Holds(1) /\ VM!Operand(1).t = "INTEGER" /\ VM!Operand(1).int = 0
KeyWithoutHash ==
    VM!Op = OP.INDEX /\ \E v \in Taken : v.t = "HASH" /\ \E i \in DOMAIN v.pairs : ~Hashable(v.pairs[i][1])
UnsetIsRead == \E v \in Taken : Dangling(v)
TextlessIsPut ==
    /\ VM!Op = OP.CALL /\ VM!Holds(VM!Arg(1) + 1) /\ IsPuts(VM!Callee)
    /\ \E i \in 1..VM!Arg(1) : Textless(VM!Operand(i))
ArrayIsFull == Len(pool) = MAX_CONSTANTS \/ Len(scopes) = MAX_SCOPES
MachineFails ==
    \/ StackUsedUp \/ FramesUsedUp \/ MainReturns
    \/ DividesByZero \/ KeyWithoutHash \/ UnsetIsRead \/ TextlessIsPut
UndefinedExplained ==
    [][status # "undefined" /\ status' = "undefined" =>
         \/ status = "compiling" /\ ArrayIsFull
         \/ status = "running" /\ MachineFails
         \/ status = "done" /\ ~Printable(VM!LastPopped)]_monkeyVars

(* What earlier lines have compiled stays as it is: the code in the        *)
(* closures of the globals refers to constants and functions by their      *)
(* place in the pool, and to the globals by their slots, of which none is  *)
(* given out again - not even after a line that failed halfway, with       *)
(* functions open.                                                         *)
EarlierCodeStays ==
    [][/\ Len(pool) <= Len(pool') /\ \A i \in DOMAIN pool : pool'[i] = pool[i]
       /\ tables[1].num <= tables'[1].num]_monkeyVars

(* Every line is answered: the compiler and the machine come to an end on  *)
(* it, and the next one is read.                                           *)
SessionEnds == <>(line = Len(session) /\ status \in {"idle", "undefined", "exited"})
=============================================================================
