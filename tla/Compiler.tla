------------------------------ MODULE Compiler ------------------------------
(***************************************************************************)
(* The bytecode compiler, src/compiler/compiler.c.                         *)
(*                                                                         *)
(* compile() walks the syntax tree recursively and emits instructions into *)
(* the buffer of the innermost open scope.  Its recursion is the stack     *)
(* "todo": its first element is either a node to compile or the rest of a  *)
(* call of compile() that waited for a nested call - the emit after an     *)
(* operand, the backpatching after a block, the end of a function literal. *)
(* One step of the model is one stretch of compile() between two nested    *)
(* calls.                                                                  *)
(*                                                                         *)
(* The tables of symbols are those of SymbolTable, used here through its   *)
(* operators; the encoding of instructions is that of Bytecode.            *)
(*                                                                         *)
(* A node is a record whose field "type" names the node type of ast.h:     *)
(*   statements   LET name value, RETURN value, EXPR value                 *)
(*   expressions  INT int, STRING string, BOOL bool, IDENT name,           *)
(*                PREFIX operator right, INFIX operator left right,        *)
(*                ARRAY elements, HASH pairs, INDEX left index,            *)
(*                IF condition consequence alternative (NULL or a block),  *)
(*                FN name (or NULL) params body, CALL fn args              *)
(*   blocks       sequences of statements                                  *)
(***************************************************************************)
EXTENDS Verifier, Objects

CONSTANTS Programs,      \* the programs to compile: sequences of statements
          Names, Extensions, BuiltinIndex, NULL,  \* see SymbolTable
          MAX_CONSTANTS,   \* the pool's array has room for so many
          MAX_SCOPES       \* so has compiler->scopes

(* A constant is named by the length of the pool, which is a UInt8.        *)
ASSUME LimitsAssumption == MAX_CONSTANTS \in 0..255 /\ MAX_SCOPES \in Nat \ {0}

(* A message is not the null pointer.                                      *)
ASSUME MessageAssumption == NULL # "undefined variable"

VARIABLES tables,        \* compiler->symbol_table and its outer tables
          todo,          \* what is left of the calls of compile() that are active
          scopes,        \* compiler->scopes up to scope_index
          pool,          \* compiler->constant_pool
          err            \* the error compile() has returned, or NULL
compilerVars == <<tables, todo, scopes, pool, err>>

(* The bounds of SymbolTable are bounds of its own actions.                *)
Symbols == INSTANCE SymbolTable WITH result <- NULL, MaxDepth <- 0, MaxDefinitions <- 0

(* What SymbolTable assumes of the names, the builtins and the null        *)
(* pointer.                                                                *)
ASSUME NamesAssumption ==
    /\ Extensions \in [Names -> SUBSET Names]
    /\ \A n \in Names : n \notin Extensions[n]
    /\ BuiltinIndex \in [Names -> Nat \cup {NULL}]
    /\ NULL \notin Names \cup Symbols!Symbol

-----------------------------------------------------------------------------
(* The programs *)

(* A set of syntax trees that holds the parts of its trees: the trees of a *)
(* program, as the parser builds them.                                     *)
HoldsParts(Trees) ==
    \A n \in Trees :
      /\ n.type \in {"LET", "EXPR", "RETURN"} => n.value \in Trees
      /\ n.type = "INFIX" => n.left \in Trees /\ n.right \in Trees
      /\ n.type = "PREFIX" => n.right \in Trees
      /\ n.type = "ARRAY" => n.elements \in Seq(Trees)
      /\ n.type = "HASH" => n.pairs \in Seq(Trees \X Trees)
      /\ n.type = "INDEX" => n.left \in Trees /\ n.index \in Trees
      /\ n.type = "CALL" => n.fn \in Trees /\ n.args \in Seq(Trees)
      /\ n.type = "IF" => /\ n.condition \in Trees /\ n.consequence \in Seq(Trees)
                         /\ n.alternative \in Seq(Trees) \cup {NULL}
      /\ n.type = "FN" => n.params \in Seq(Names) /\ n.body \in Seq(Trees)

Expressions == {"INT", "STRING", "BOOL", "IDENT", "PREFIX", "INFIX", "ARRAY", "HASH", "INDEX",
                "CALL", "IF", "FN"}
Statements == {"LET", "EXPR", "RETURN"}
AreStatements(nodes) == \A i \in 1..Len(nodes) : nodes[i].type \in Statements
AreExpressions(nodes) == \A i \in 1..Len(nodes) : nodes[i].type \in Expressions
IsBlock(nodes) == Len(nodes) > 0 /\ nodes[Len(nodes)].type # "LET"
IsArm(nodes) == AreStatements(nodes) /\ IsBlock(nodes)

(* Syntax trees as the parser builds them: statements and expressions in   *)
(* their places, names of the program, the operators of the language.  The *)
(* blocks of a conditional are not empty and do not end in a let.          *)
Operators == {"+", "-", "*", "/", ">", "<", "==", "!="}
Balanced(Trees) ==
    \A n \in Trees :
      /\ n.type \in {"LET", "EXPR", "RETURN"} => n.value.type \in Expressions
      /\ n.type \in {"LET", "IDENT"} => n.name \in Names
      /\ n.type = "INFIX" => /\ n.left.type \in Expressions /\ n.right.type \in Expressions
                             /\ n.operator \in Operators
      /\ n.type = "PREFIX" => n.right.type \in Expressions
      /\ n.type = "ARRAY" => AreExpressions(n.elements)
      /\ n.type = "HASH" =>
           \A i \in 1..Len(n.pairs) : /\ n.pairs[i][1].type \in Expressions
                                      /\ n.pairs[i][2].type \in Expressions
      /\ n.type = "INDEX" => n.left.type \in Expressions /\ n.index.type \in Expressions
      /\ n.type = "CALL" => n.fn.type \in Expressions /\ AreExpressions(n.args)
      /\ n.type = "IF" => /\ n.condition.type \in Expressions /\ IsArm(n.consequence)
                          /\ n.alternative # NULL => IsArm(n.alternative)
      /\ n.type = "FN" => n.name \in Names \cup {NULL} /\ AreStatements(n.body)

(* The programs of such trees.                                             *)
ProgramsOf(Trees) == {p \in Seq(Trees) : AreStatements(p)}

Top == scopes[Len(scopes)]

-----------------------------------------------------------------------------
(* Scopes: a buffer of bytes, the length that is valid, and the latest two *)
(* instructions emitted. *)

(* make_scope; the two notes are uninitialised until an emit sets them.    *)
NoInstruction == [op |-> NULL, pos |-> 0]
EmptyScope == [bytes |-> << >>, length |-> 0, last |-> NoInstruction, prev |-> NoInstruction]

(* Instruct.length is a UInt8.                                             *)
UInt8(n) == n % 256

Code(scope) == SubSeq(scope.bytes, 1, scope.length)

WriteAt(bytes, pos, new) ==
    SubSeq(bytes, 1, pos) \o new \o SubSeq(bytes, pos + Len(new) + 1, Len(bytes))

(* Faulty: the length counts operands that are not written.                *)
EmitOpcodeOnly(scope, op, operands) ==
    LET new == Make(op, operands)
    IN  [bytes  |-> WriteAt(scope.bytes, scope.length, << op >>),
         length |-> UInt8(scope.length + Len(new)),
         prev   |-> scope.last,
         last   |-> [op |-> op, pos |-> scope.length]]

(* emit: add_instruction and set_last_instruction.                         *)
Emit(scope, op, operands) ==
    LET new == Make(op, operands)
    IN  [bytes  |-> WriteAt(scope.bytes, scope.length, new),
         length |-> UInt8(scope.length + Len(new)),
         prev   |-> scope.last,
         last   |-> [op |-> op, pos |-> scope.length]]

LastInstructionIs(scope, op) == scope.length # 0 /\ scope.last.op = op

(* replace_last_pop_with_return                                            *)
ReplaceLastPopWithReturn(scope) ==
    [scope EXCEPT !.bytes = WriteAt(@, scope.last.pos, Make(OP.RETURN_VALUE, << >>)),
                  !.last.op = OP.RETURN_VALUE]

(* Faulty: the note of the last instruction stays.                         *)
RemoveLastPopOnly(scope) == [scope EXCEPT !.length = UInt8(@ - 1)]

(* remove_last_pop                                                         *)
RemoveLastPop(scope) ==
    [scope EXCEPT !.length = UInt8(@ - 1), !.last = scope.prev]

(* Faulty: the pop of the last statement of a block is kept.               *)
WithLastPop(scope) == scope
WithoutLastPop(scope) ==
    IF LastInstructionIs(scope, OP.POP) THEN RemoveLastPop(scope) ELSE scope

(* Faulty: the jump is given its own position.                             *)
ChangeOperandToSelf(scope, pos, operand) ==
    [scope EXCEPT !.bytes = WriteAt(@, pos, Make(ByteAt(@, pos), <<pos>>))]

(* change_operand of the instruction at pos                                *)
ChangeOperand(scope, pos, operand) ==
    [scope EXCEPT !.bytes = WriteAt(@, pos, Make(ByteAt(@, pos), <<operand>>))]

(* load_symbol: the instruction that loads a symbol.                       *)
EmitLoad(scope, symbol) ==
    CASE symbol.scope = "GLOBAL"   -> Emit(scope, OP.GET_GLOBAL, <<symbol.index>>)
      [] symbol.scope = "LOCAL"    -> Emit(scope, OP.GET_LOCAL, <<symbol.index>>)
      [] symbol.scope = "BUILTIN"  -> Emit(scope, OP.GET_BUILTIN, <<symbol.index>>)
      [] symbol.scope = "FREE"     -> Emit(scope, OP.GET_FREE, <<symbol.index>>)
      [] symbol.scope = "FUNCTION" -> Emit(scope, OP.CURRENT_CLOSURE, << >>)

EmitLoads(scope, symbols) ==
    LET after[i \in 0..Len(symbols)] ==
          IF i = 0 THEN scope ELSE EmitLoad(after[i-1], symbols[i])
    IN  after[Len(symbols)]

-----------------------------------------------------------------------------
(* The stack of active calls *)

Compile(node) == [do |-> "compile", node |-> node]
CompileAll(nodes) == [i \in DOMAIN nodes |-> Compile(nodes[i])]
EmitLater(op, operands) == [do |-> "emit", op |-> op, operands |-> operands]

Node == Head(todo).node
Visiting(type) == todo # << >> /\ Head(todo).do = "compile" /\ Node.type = type
Resuming(what) == todo # << >> /\ Head(todo).do = what

Call(items) == todo' = items \o Tail(todo)
Return == todo' = Tail(todo)

EmitNow(op, operands) == scopes' = [scopes EXCEPT ![Len(scopes)] = Emit(@, op, operands)]

(* add_constant returns the new last index.  It does not look whether the  *)
(* array has room, no more than compiler_enter_scope does: there the model *)
(* stops, as what is written past an array is undefined.                   *)
AddConstant(object) == Len(pool) < MAX_CONSTANTS /\ pool' = Append(pool, object)
NextConstant == Len(pool)

-----------------------------------------------------------------------------
(* compile(): statements *)

InitCompiler ==
    /\ \E program \in Programs : todo = CompileAll(program)
    /\ tables = << Symbols!BuiltinTable >>
    /\ scopes = << EmptyScope >>
    /\ pool = << >>
    /\ err = NULL

(* Faulty: the table that was current when the line before ended.          *)
LatestTable(ts) == ts[Len(ts)]
GlobalTable(ts) == ts[1]

(* compiler_new_with_state: another program, with the globals and the pool *)
(* of the ones before it.                                                  *)
Begin(program) ==
    /\ todo' = CompileAll(program)
    /\ tables' = << GlobalTable(tables) >>
    /\ scopes' = << EmptyScope >>
    /\ err' = NULL
    /\ UNCHANGED pool

(* The symbol is defined before the value is compiled.                     *)
LetStatement ==
    /\ Visiting("LET")
    /\ tables' = Symbols!Define(tables, Node.name)
    /\ LET symbol == Symbols!Defined(tables, Node.name)
           op == IF symbol.scope = "GLOBAL" THEN OP.SET_GLOBAL ELSE OP.SET_LOCAL
       IN  Call(<< Compile(Node.value), EmitLater(op, <<symbol.index>>) >>)
    /\ UNCHANGED <<scopes, pool, err>>

ExpressionStatement ==
    /\ Visiting("EXPR")
    /\ Call(<< Compile(Node.value), EmitLater(OP.POP, << >>) >>)
    /\ UNCHANGED <<tables, scopes, pool, err>>

ReturnStatement ==
    /\ Visiting("RETURN")
    /\ Call(<< Compile(Node.value), EmitLater(OP.RETURN_VALUE, << >>) >>)
    /\ UNCHANGED <<tables, scopes, pool, err>>

(* emit() after the operands of a node have been compiled                  *)
EmitOperator ==
    /\ Resuming("emit")
    /\ EmitNow(Head(todo).op, Head(todo).operands)
    /\ Return
    /\ UNCHANGED <<tables, pool, err>>

-----------------------------------------------------------------------------
(* compile(): expressions *)

Constant ==
    /\ \/ Visiting("INT") /\ AddConstant(Integer(Node.int))
       \/ Visiting("STRING") /\ AddConstant(String(Node.string))
    /\ EmitNow(OP.CONSTANT, <<NextConstant>>)
    /\ Return
    /\ UNCHANGED <<tables, err>>

BooleanLiteral ==
    /\ Visiting("BOOL")
    /\ EmitNow(IF Node.bool THEN OP.TRUE ELSE OP.FALSE, << >>)
    /\ Return
    /\ UNCHANGED <<tables, pool, err>>

(* The operators tell one another apart by their first character; a < b is *)
(* compiled as b > a, operands included.                                   *)
InfixOp(operator) ==
    CASE operator = "+" -> OP.ADD [] operator = "-" -> OP.SUB
      [] operator = "*" -> OP.MUL [] operator = "/" -> OP.DIV
      [] operator \in {">", "<"} -> OP.GREATER_THAN
      [] operator = "==" -> OP.EQUAL [] operator = "!=" -> OP.NOT_EQUAL

InfixExpression ==
    /\ Visiting("INFIX")
    /\ LET operands == IF Node.operator = "<" THEN <<Node.right, Node.left>>
                       ELSE <<Node.left, Node.right>>
       IN  Call(CompileAll(operands) \o << EmitLater(InfixOp(Node.operator), << >>) >>)
    /\ UNCHANGED <<tables, scopes, pool, err>>

PrefixExpression ==
    /\ Visiting("PREFIX")
    /\ LET op == IF Node.operator = "!" THEN OP.BANG ELSE OP.MINUS
       IN  Call(<< Compile(Node.right), EmitLater(op, << >>) >>)
    /\ UNCHANGED <<tables, scopes, pool, err>>

(* An undefined variable ends every active call.  The scopes and tables of *)
(* the functions around it stay open.                                      *)
Identifier ==
    /\ Visiting("IDENT")
    /\ \/ \E d \in DOMAIN tables :
            /\ Symbols!FoundAt(tables, Node.name, d)
            /\ tables' = Symbols!AfterResolve(tables, Node.name, d)
            /\ scopes' = [scopes EXCEPT ![Len(scopes)] =
                             EmitLoad(@, Symbols!Resolved(tables, Node.name, d))]
            /\ Return
            /\ UNCHANGED err
       \/ /\ Symbols!NotFound(tables, Node.name)
          /\ err' = "undefined variable"
          /\ todo' = << >>
          /\ UNCHANGED <<tables, scopes>>
    /\ UNCHANGED pool

ArrayLiteral ==
    /\ Visiting("ARRAY")
    /\ Call(CompileAll(Node.elements) \o << EmitLater(OP.ARRAY, <<Len(Node.elements)>>) >>)
    /\ UNCHANGED <<tables, scopes, pool, err>>

(* A hash literal has its pairs as <<key, value>>.                         *)
HashLiteral ==
    /\ Visiting("HASH")
    /\ LET n == Len(Node.pairs)
           flat == [i \in 1..2*n |-> Node.pairs[(i + 1) \div 2][2 - (i % 2)]]
       IN  Call(CompileAll(flat) \o << EmitLater(OP.HASH, <<2 * n>>) >>)
    /\ UNCHANGED <<tables, scopes, pool, err>>

IndexExpression ==
    /\ Visiting("INDEX")
    /\ Call(<< Compile(Node.left), Compile(Node.index), EmitLater(OP.INDEX, << >>) >>)
    /\ UNCHANGED <<tables, scopes, pool, err>>

CallExpression ==
    /\ Visiting("CALL")
    /\ Call(<< Compile(Node.fn) >> \o CompileAll(Node.args)
            \o << EmitLater(OP.CALL, <<Len(Node.args)>>) >>)
    /\ UNCHANGED <<tables, scopes, pool, err>>

-----------------------------------------------------------------------------
(* compile(): conditionals *)

BackpatchLater == <<255>>

IfExpression ==
    /\ Visiting("IF")
    /\ Call(<< Compile(Node.condition),
               [do |-> "consequence", consequence |-> Node.consequence,
                alternative |-> Node.alternative] >>)
    /\ UNCHANGED <<tables, scopes, pool, err>>

(* After the condition: the jump over the consequence, still without its   *)
(* target, and then the consequence.                                       *)
IfConsequence ==
    /\ Resuming("consequence")
    /\ EmitNow(OP.JUMP_NOT_TRUTHY, BackpatchLater)
    /\ Call(CompileAll(Head(todo).consequence)
            \o << [do |-> "alternative", alternative |-> Head(todo).alternative,
                   jumpNotTruthy |-> Top.length] >>)
    /\ UNCHANGED <<tables, pool, err>>

(* After the consequence: its last value stays, the jump over the          *)
(* alternative follows, and the alternative (or a null) begins here.       *)
IfAlternative ==
    /\ Resuming("alternative")
    /\ LET this == Head(todo)
           kept == WithoutLastPop(Top)
           jumped == Emit(kept, OP.JUMP, BackpatchLater)
           patched == ChangeOperand(jumped, this.jumpNotTruthy, jumped.length)
           end == [do |-> "endIf", jump |-> kept.length, popped |-> this.alternative # NULL]
       IN  IF this.alternative = NULL
           THEN /\ scopes' = [scopes EXCEPT ![Len(scopes)] = Emit(patched, OP.NULL, << >>)]
                /\ Call(<< end >>)
           ELSE /\ scopes' = [scopes EXCEPT ![Len(scopes)] = patched]
                /\ Call(CompileAll(this.alternative) \o << end >>)
    /\ UNCHANGED <<tables, pool, err>>

IfEnd ==
    /\ Resuming("endIf")
    /\ LET kept == IF Head(todo).popped THEN WithoutLastPop(Top) ELSE Top
       IN  scopes' = [scopes EXCEPT ![Len(scopes)] =
                         ChangeOperand(kept, Head(todo).jump, kept.length)]
    /\ Return
    /\ UNCHANGED <<tables, pool, err>>

-----------------------------------------------------------------------------
(* compile(): function literals *)

DefineParameters(ts, names) ==
    LET after[i \in 0..Len(names)] ==
          IF i = 0 THEN ts ELSE Symbols!Define(after[i-1], names[i])
    IN  after[Len(names)]

(* compiler_enter_scope, then the names of the function and its parameters *)
FunctionLiteral ==
    /\ Visiting("FN") /\ Len(scopes) < MAX_SCOPES
    /\ tables' = DefineParameters(Symbols!EnterTable(tables, Node.name), Node.params)
    /\ scopes' = Append(scopes, EmptyScope)
    /\ Call(CompileAll(Node.body) \o << [do |-> "endFunction", params |-> Len(Node.params)] >>)
    /\ UNCHANGED <<pool, err>>

(* The value of a trailing expression statement is returned; a body that   *)
(* does not end in a return gets one.                                      *)
Returning(scope) ==
    LET valued == IF LastInstructionIs(scope, OP.POP) THEN ReplaceLastPopWithReturn(scope)
                  ELSE scope
    IN  IF LastInstructionIs(valued, OP.RETURN_VALUE) THEN valued
        ELSE Emit(valued, OP.RETURN, << >>)

(* The symbol table of the enclosing function becomes current again.       *)
TableStays(ts) == ts     \* faulty
OuterTables(ts) == Symbols!LeaveTable(ts)

(* compiler_leave_scope; the enclosing function loads what the literal     *)
(* captured and builds the closure.                                        *)
FunctionEnd ==
    /\ Resuming("endFunction")
    /\ LET table == tables[Len(tables)]
           outer == SubSeq(scopes, 1, Len(scopes) - 1)
           loaded == EmitLoads(outer[Len(outer)], table.free)
       IN  /\ AddConstant(CompiledFunction(Code(Returning(Top)), table.num, Head(todo).params))
           /\ scopes' = [outer EXCEPT ![Len(outer)] =
                            Emit(loaded, OP.CLOSURE, <<NextConstant, Len(table.free)>>)]
           /\ tables' = OuterTables(tables)
    /\ Return
    /\ UNCHANGED err

-----------------------------------------------------------------------------
NextCompiler ==
    \/ LetStatement \/ ExpressionStatement \/ ReturnStatement \/ EmitOperator
    \/ Constant \/ BooleanLiteral \/ InfixExpression \/ PrefixExpression \/ Identifier
    \/ ArrayLiteral \/ HashLiteral \/ IndexExpression \/ CallExpression
    \/ IfExpression \/ IfConsequence \/ IfAlternative \/ IfEnd
    \/ FunctionLiteral \/ FunctionEnd

(* The next step would write past the pool's array, or past the scopes'.   *)
Overruns ==
    \/ /\ Visiting("INT") \/ Visiting("STRING") \/ Resuming("endFunction")
       /\ Len(pool) = MAX_CONSTANTS
    \/ Visiting("FN") /\ Len(scopes) = MAX_SCOPES

(* compile() has returned without an error: compiler_bytecode.             *)
Compiled == todo = << >> /\ err = NULL

SpecCompiler == InitCompiler /\ [][NextCompiler]_compilerVars

-----------------------------------------------------------------------------
(* Properties *)

(* Tables of symbols, bytes in the buffers and in the code of functions, a *)
(* length that is within the buffer and fits in its byte.                  *)
CompilerTypeOK ==
    /\ tables \in Seq(Symbols!Table)
    /\ \A k \in DOMAIN scopes :
         /\ scopes[k].bytes \in Seq(Byte)
         /\ scopes[k].length \in 0..Len(scopes[k].bytes) /\ scopes[k].length \in Byte
    /\ \A i \in DOMAIN pool :
         pool[i].t = "COMPILED_FUNCTION" => pool[i].code \in Seq(Byte)

(* The compiler decides what to drop and what to turn into a return by the *)
(* note it keeps of the last instruction.  The note is true in every open  *)
(* scope: an instruction with that opcode is there and is the last one.    *)
LastInstructionTrue ==
    \A k \in DOMAIN scopes :
        LET s == scopes[k]
        IN  s.length > 0 =>
              /\ s.last.pos \in Starts(Code(s))
              /\ ByteAt(s.bytes, s.last.pos) = s.last.op
              /\ s.last.pos + InstructionLength(s.last.op) = s.length

(* The code of a scope is kept whole as long as its buffer, which has room *)
(* for MAX_INSTRUCTIONS bytes, has room for it: of the bytes written only  *)
(* a pop that has been taken back is not part of the code.                 *)
MAX_INSTRUCTIONS == 1024
CodeKept ==
    \A k \in DOMAIN scopes :
        LET written == Len(scopes[k].bytes)
        IN  written <= MAX_INSTRUCTIONS => scopes[k].length >= written - 1

(* The functions compiled so far and, at the end, the main program.        *)
Functions == {pool[i] : i \in {j \in DOMAIN pool : pool[j].t = "COMPILED_FUNCTION"}}

(* Every function literal that is entered is left again, through whatever  *)
(* its body holds: one table and one buffer are open for each of the       *)
(* functions around the code being compiled, only those of the program     *)
(* itself when compile() has returned without an error.  A function that   *)
(* has been left has a slot for each of its parameters - call_closure in   *)
(* vm.c has the arguments lie in the first of its locals.                  *)
FunctionsClosed ==
    /\ Len(scopes) = Len(tables)
    /\ Compiled => Len(tables) = 1
    /\ \A fn \in Functions : fn.params <= fn.locals

(* What compile() emits can be run: it is cut into whole instructions,     *)
(* every jump - backpatched after its block was compiled, when a pop may   *)
(* have been taken back - lands on one, and the two arms of a conditional  *)
(* leave the same number of values.                                        *)
CodeVerifies ==
    /\ \A fn \in Functions : Verifies(fn.code, FALSE)
    /\ Compiled => Verifies(Code(scopes[1]), TRUE)

(* Everything an instruction refers to exists: constants are in the pool   *)
(* and a closure is made of a function; locals are below the slots its     *)
(* frame reserves; a function that uses free variable i is only ever made  *)
(* into a closure with more than i captured values; the main program has   *)
(* no locals, no free variables and no closure of its own.                 *)
Streams == {Code(scopes[1])} \cup {fn.code : fn \in Functions}
Used(code, op) == {ins.operands[1] : ins \in {j \in Instrs(code) : j.op = op}}
Closures == {ins \in UNION {Instrs(code) : code \in Streams} : ins.op = OP.CLOSURE}
OperandsExist ==
    Compiled =>
      /\ \A code \in Streams : \A c \in Used(code, OP.CONSTANT) :
           c < Len(pool) /\ pool[c + 1].t # "COMPILED_FUNCTION"
      /\ \A code \in Streams : \A g \in Used(code, OP.GET_GLOBAL) \cup Used(code, OP.SET_GLOBAL) :
           g < tables[1].num
      /\ \A cl \in Closures :
           /\ cl.operands[1] < Len(pool)
           /\ LET fn == pool[cl.operands[1] + 1]
              IN  /\ fn.t = "COMPILED_FUNCTION"
                  /\ \A f \in Used(fn.code, OP.GET_FREE) : f < cl.operands[2]
      /\ \A fn \in Functions :
           \A l \in Used(fn.code, OP.GET_LOCAL) \cup Used(fn.code, OP.SET_LOCAL) : l < fn.locals
      /\ \A ins \in Instrs(Code(scopes[1])) :
           ins.op \notin {OP.GET_LOCAL, OP.SET_LOCAL, OP.GET_FREE, OP.CURRENT_CLOSURE}
=============================================================================
