# A specification of monkey-c

monkey-c is an implementation in C of the language Monkey: a lexer and a parser
build a syntax tree, and either an evaluator walks the tree or a compiler turns
it into bytecode for a stack machine. These TLA+ modules specify all of it: the
parser over its lexer and the printer of trees, the interpreter with its
environments, the symbol tables, the instruction encoding, the compiler, the
machine, the loops that tie them together and the command line that chooses
among them. TLC checks them on small texts, programs and sessions, among other
things that both engines give the same answers; TLAPS proves properties of the
symbol tables, the encoding, the compiler, the parser and the interpreter for all
names, texts, programs, sessions and bounds.

## The system

| part | state | operations | talks to |
|---|---|---|---|
| lexer (`lexer/`, `token/`) | static source, position | `lexer_set`, `lexer_next_token` | called by the parser, two tokens ahead |
| parser (`parser/`) | static current and peek token, errors | `parse_program`, the parselets | returns a tree of `ast/ast.h` |
| symbol table (`compiler/symbol_table.c`) | per open function: a trie of symbols, `num_definitions`, `free_symbols` | define, define a function name, resolve, enter, leave | called by the compiler |
| encoding (`code/`) | none | `code_make`, `code_read_operands`, `instructions_str` | the compiler writes, the machine reads |
| compiler (`compiler/compiler.c`) | constant pool, symbol table, stack of scopes (code, last two instructions) | `compile` of every node type | reads the tree, fills the pool, hands its code to the machine |
| machine (`vm/`) | stack, `sp`, frames, globals | one per opcode in `vm_run` | reads code and pool, calls the builtins |
| objects, builtins (`object/`) | none | copy, hash, truthiness, inspect; `len first last rest push puts` | called by both engines |
| evaluator (`evaluator/`, `object/environment.c`) | chained environments | `eval` of every node type | reads the tree |
| repl (`repl/`) | symbol table, pool and globals shared by all lines | read, parse, compile, run, print | all of the above |
| runner (`run/`, `monkey.c`, `utils/argv.c`) | none | choice of the engine by flags, reading of files | all of the above |

Nothing runs concurrently. What is hard here is of six kinds.

*Bookkeeping across a recursion.* `compile` recurses through the tree while it
mutates three stacks - scopes, tables, code - and decides by a note of the last
instruction what to take back or rewrite; jump targets are filled in later.

*A lookup that writes.* Resolving a local of an enclosing function inserts
"free" symbols in every table on the way; what the enclosing functions load for
a closure depends on the order of these insertions.

*A machine that checks nothing.* Operands, locals, arguments and the functions
being called share one stack, and correctness rests wholly on the code the
compiler emits. Sizes (`UInt8` length, 64 constants, 1024 frames, 2048 slots)
are mostly not compared with anything.

*State that outlives a failure.* A line of the REPL that fails leaves symbols,
constants and globals behind for the next line.

*Failure by return value.* A parselet that fails returns a null pointer that its
caller stores in the tree; a failed evaluation returns an error that looks like
any other object. Every one of some thirty places has to do the right thing
with what it is handed, and one that does not shows only much later.

*Two engines.* Interpreter and machine implement one language twice, with
different ideas of environments, returns and errors, and share the builtins.

`PROJECT.json` lists the hazards line by line with the properties that cover
them.

### What makes each part correct

* Symbol table: lexical scoping; distinct slots; captures that can be loaded
  where the closure is built and that mean what the name means there.
* Encoding: what is read is what was written; the listing ends.
* Compiler: its note of the last instruction is true; the code can be cut into
  instructions, its jumps land on them, the stack has one depth at each of
  them; all that is referred to exists.
* Machine: frames and stack in step with the code; no undefined behaviour on
  code from the compiler; it stops.
* Loop: every line is answered, failures included.
* Parser: the tree is the one the text was written from; a failure is recorded
  whenever a piece of the tree is missing; every text comes to an end.
* Printer: what it prints reads back as the same program.
* Evaluator: an error reaches the end of its line with nothing done on the way; every
  pointer it follows leads to an object, but for the cases that are known; a
  name is found in the environment where the function was made; its answers are
  those of the machine.
* Runner: the engine that runs is the one the usage names.

## The modules

| module | what it is |
|---|---|
| `LexicalScope` | abstract specification: names bound in nested scopes |
| `SymbolTable` | `symbol_table.c`: operators on the stack of tables, and their state machine |
| `SymbolTableProofs` | its theorems |
| `Bytecode` | opcodes, widths, `Make` (`code_make`), `ReadOperands` |
| `CodeStream` | writing a stream of instructions and listing it again |
| `Foundations` | theorems about the encoding and about when code verifies, and what all proofs share |
| `CodeStreamProofs` | theorems about the listing |
| `Objects` | objects, builtins, and the outcomes error, exit and undefined |
| `Inspector` | `object_inspect`, the text of a value and whether it has one |
| `Compiler` | `compile()`, over `SymbolTable` and `Bytecode` |
| `Vm` | `vm_run()` |
| `Monkey` | `Compiler` and `Vm` composed as `repl_start` does |
| `CompilerProofs` | theorems about `Compiler` and its code, alone and in the sessions of `Monkey` |
| `OperandProofs` | theorems about what the code that `Compiler` emits refers to |
| `MachineProofs` | theorems about the machine on this code: frames, depths, types, causes of undefined behaviour |
| `Verifier` | a bytecode verifier, used by properties only |
| `MonkeyPrograms` | families of syntax trees |
| `Lexer` | the scanner as a function from texts to tokens, with its buffers |
| `Parser` | `parser.c` and `parselets.c` as a stack of calls over a window of two tokens |
| `ParserProofs` | its theorems |
| `Printer` | `ast.c`, the text of a program |
| `ReadPrint` | scanner, parser and printer composed as `repl_start_parsed_string` does |
| `Evaluator` | `eval()` as a stack of calls over a heap of environments |
| `EvaluatorProofs` | its theorems: errors unwind, types, causes of undefined behaviour |
| `Engines` | `Evaluator` and, as an instance, `Monkey` side by side on the same sessions |
| `Runner` | `main`, `argv.c` and `run.c` |
| `MCSymbolTable`, `MCCodeStream`, `MCCompiler`, `MCMonkey`, `MCParser`, `MCEngines`, `MCRunner` | instances for TLC |

`Compiler` uses the tables through `INSTANCE SymbolTable`, so what is proved of
those operators is about the definitions the compiler model runs. `Monkey`
EXTENDS `Compiler` and instantiates `Vm`, which shares its constant pool.

### How state and actions correspond to the code

*Tables.* `tables` is the chain of `outer` pointers, outermost first. A store is
a function from names to symbols or `NULL`. In the code it is a trie, and
`symbol_put` hangs a new node at the last character of a name, dropping what
was below: `Put` sets to `NULL` the names in `Extensions[name]`, the constant
that says which names properly extend which.

*Compiler.* The recursion of `compile` is the stack `todo`. An element is a node
to compile or the rest of a call that waits for a nested one; a step is a
stretch of `compile` between two nested calls, with the emits in it. A scope
has its whole buffer `bytes` and the `length` that counts, cut to eight bits
at every change. A constant more than the pool's array holds, or a function deeper than
the array of scopes, stops the compiler in the status `undefined` (`Overruns`): the code
compares neither with anything, and what lies behind the arrays is written over. The
`UInt8` that counts the constants would wrap only at the 256th, long after the 64th has
been written out of bounds. `OuterTables` and dropping the last scope are
`compiler_leave_scope`; `Begin` is `compiler_new_with_state`.

*Machine.* A step is one turn of the loop. `Yield(n, outcome)` is the common end
of most opcodes: drop n operands, push the outcome, or stop. Reading below or
above the stack, following a null or stale pointer, dividing by zero,
overflowing the frames and returning from the main frame stop in the status
`undefined`. The stack has one slot more than `STACK_SIZE`, as `push` allows;
the word there is the field `globals`, and `GlobalsKept` says whether it is
still intact.

*Values.* What a line comes to is printed, and `puts` prints its arguments. Whether there
is a text to print is asked of a value and of everything in it (`Contents`): a place
where no object is (`Dangling`) makes it undefined, and so does a part for which
no text can be made (`Textless`). These are hashes, as `hash_inspect` appends to a buffer
in which there is nothing yet; functions of the interpreter whose body `ast.c` cannot
print; and texts too long for their 1024 characters. The last two are a matter of texts and
belong to `Inspector`. To the engines they are a constant, the predicate `HasText`, of which
the theorems assume nothing; the runs give it the meaning of `Inspector`.

*Parser.* The C functions recurse; here `calls` is the stack of those that are
active, the innermost first, each with what it keeps in local variables.
`result` is what the last call to end has returned: a node, a `List`, or `NULL`.
A step is a stretch of code between two nested calls. `tokens` is what is left
of the text: the first of them is `current_token`, the second `peek_token`, and
only these have been scanned, so that a token that does not fit its buffer is
met (`Overrun`) when it enters the window. `Infixes(precedence)` is the loop of
`parse_expression`, and every parselet ends by becoming it. A field of a node
that is never assigned is `Unset`.

*Interpreter.* `calls` and `object` are the same for `eval()`. A call is "eval",
"block", "expressions" or "pairs" before it has made a call of its own, and
afterwards is named for what it waits for: "left", "condition", "arguments" and so
on. Ten of them look whether the object is an error (`IsErrorChecked`), and
`PassError` is all they do then; `NextInBlock`, `UnwrapReturnValue` and
`AppendObject` have their own ways. `Wrapped(o)` is the object in which a returned
value travels, `ListOf` a `List` of objects. `envs` is the heap of environments,
each with its bindings, latest first, and the index of its outer one.

*Both engines.* `Engines` enters a session's lines to the interpreter and then to
the machine, and compares `answers` with `output`.

*Runner.* `stage` goes through `main`, `run`, the reading of the file and `exec`, to
the loop or the engine that is started.

*Loop.* `status` runs from `idle` over `compiling` and `running` to `done` or
`error` and back. `exec_compile` in `run/run.c` is the same with one line,
except that it ends the process where the loop goes on.

## What is checked

| run | instance | shows |
|---|---|---|
| `symtab_scoping` | names `a`, `len` (a builtin), 4 tables, 2 definitions each | types; `SlotsDistinct`; `CapturesInRange`, `CapturesCurrent`, `CaptureChain`, `NamesStay`; refinement of `LexicalScope` |
| `symtab_prefix` | names `a`, `ab`, `len`, 3 tables | **violates** `NamesStay` |
| `codestream` | every opcode, operands at the edges of their widths, 2 instructions | `ListingFaithful`, `ListingEnds` |
| `compiler` | 623 programs | `LastInstructionTrue`, `CodeVerifies`, `OperandsExist`, `FunctionsClosed` |
| `compiler_wrap` | programs of 254 and 256 bytes | **violates** `CodeKept` |
| `monkey` | the same programs, 36 sessions of two lines and 24 faulty sessions, 16 slots, 6 frames | `UndefinedOnlyAfterFailure`, `FramesNested`, `DepthAgrees`, `EarlierCodeStays`, `UndefinedExplained`, `SessionEnds` |
| `monkey_recursion` | endless recursion, 16 slots, 8 frames | **violates** `OverflowReported` |
| `monkey_builtins` | five programs of the evaluator's tests | **violates** `ValuesAsTested` |
| `parser` | 4,352 texts: written from trees, and with one character wrong | `NullReported`, `AcceptedIsWhole`, `FindsTheTree`, `ReadsBack`, `Ends` |
| `engines` | the programs and sessions of `monkey` that are not faulty and 58 more, in both engines | `EnginesAgree`, `DefinedWhereInterpreted`, `ErrorsUnwind`, `FaultsExplained`, `BothEnd` |
| `engines_return` | `return 10;` as a program | **violates** `DefinedWhereInterpreted` |
| `runner_flags` | 36 command lines | **violates** `EngineAsDocumented` |

What the properties say is at their definitions. Three of them rest on something
outside of the code:

* `FindsTheTree` holds the tree against a writer of texts in `MCParser` that knows
  the rules of the language - which operator binds more strongly, that they group
  to the left, where parentheses are needed - and nothing of the parser.
* `EnginesAgree` holds each engine against the other. It asks for sessions that
  are settled; `MCEngines` says which are not, below.
* `Verifier`, used by `CodeVerifies` and `DepthAgrees`, is a verifier of bytecode
  that the project does not have.

### Bounds

Four tables are enough for a chain of captures that passes through two
functions which neither define nor use the name; two definitions for a capture
and a local to compete for slots. Names enter the tables only through equality
and `Extensions`, so one user name and one builtin exercise each case of a
single lookup, and a second user name only matters through `Extensions`
(`symtab_prefix`) and distinct slots, which the proofs cover. Two
instructions are enough to see a walk leave the rhythm. The programs put every
operator on every kind of operand, nest conditionals in conditionals and in
functions, return from every place of a block, capture each of seven names from
three nested functions, and recurse through a global and through a function's
own name; the sessions follow a line that succeeds or fails by one that uses
what it left. They need less than 16 slots and 6 frames, so that they meet no
limit in `monkey`. The faulty sessions of that run (`Faulty` in `MCMonkey`) are made to
come to something undefined, by each of the causes of `UndefinedExplained`: they fill the
pool in one line and over two and three, nest one function more than there are scopes, use
up the stack and the frames, overwrite the field `globals`, return from the main
program, divide by zero, look up a key without a hash, use what was never set, and
show, by `puts` and as the value of a line, hashes and an array with too long a text. The
pool has the 64 places of the code, the scopes are 5 for 256.
`monkey_recursion` keeps the ratio 2:1 of the code's limits. Values are looked at eight
levels deep (`MaxNesting`), which is to the last part of those in the runs. Texts of values
and of trees have the buffers of the code (1024 and 100), which the arrays `LongArray` of
`MonkeyPrograms` fill to the last character and exceed.

What the theorems about the compiler and the machine ask of the trees they are given
(`HoldsParts`, `Balanced`), TLC evaluates on all programs of `compiler` and all sessions
of `monkey` (`ProgramsAssumption`, `SessionsAssumption`).

The trees of `parser` are looked at ten levels deep, which is to their leaves
(`MaxDepth`). Each of the programs is a tree the parser builds, given as a record. In the runs
of the compiler and the machine no conditional has a block that is empty or ends
in a let; see below.

The texts of `parser` arrange two operators in every way, one or the other in
parentheses, and three in the ways that differ by precedence (one sign of each of
four), with prefixes, indices and calls in every place; write the programs of
the other runs, once with blanks and once with as few as can be; and spoil five
texts that hold every construct of the grammar by leaving out, adding or changing
one character at every place, and by ending early. The buffers are small enough
to be met at their edge by a text made for it (names of 8 characters, strings of
12, `MAX_STMT_STR_LEN` 40 for 100, texts of 400 for 4096, `ERR_MSG_LEN` 35 for 50, which
a zero of five digits exceeds), and `MAX_ERRORS` is 4, so
that a text can have more errors than there is room for.

The additional programs of `engines` put an expression that fails in every place
where one is evaluated, divide by zero and round, use names in their own
definition, give unhashable keys, hand to a builtin what is not in a hash, name two parameters alike, give a builtin a
name of its own and a parameter the name of a builtin. The command lines of
`runner_flags` have every flag with a program that fits, one that does not, one
that is not there and one given on the line.

### Fairness

`CodeStream` asks for weak fairness of the listing's step, `Monkey` and `Engines` of
their next step, `ReadPrint` of parsing and printing: the code is sequential and
runs on by itself, a call that has started goes on until it returns. No fairness is
assumed of the environment beyond lines being there to read; in `ReadPrint` nobody
has to enter the second line.

Deadlock is not checked in the runs of streams, texts, programs, sessions and
command lines: they come to an end there. The tables of `symtab_scoping` can always go
on, and it is.

### Findings

1. `symbol_put` loses names (`symbol_table.c:120`): after `let ab = 1; let a = 2;`
   the name `ab` is undefined. The unit test that resolves several names defines `a`,
   `b`, `bb`, `bbb` and `abc` (`symbol_table_test.c:41`), each before those that extend it:
   the order in which none is lost.
2. The length of code is a `UInt8` (`code.h:43`) although the buffer has 1024
   bytes: the 256th byte of a function or of the main program wraps it.
3. `push_frame` has no limit (`vm.c:552`): recursion overruns `frames` when half
   of the stack is used, before "stack overflow" can be reported.
4. `call_builtin` does not drop the function and its arguments (`vm.c:597`):
   `len(rest([1, 2, 3, 4]))`, a test of the evaluator, fails in the machine.
   What is left lies in the frame of the caller, which need not name a builtin
   itself: a builtin can be handed to a function or come from a global of an earlier
   line. `DepthAgrees` therefore asks for exact depths only in the first line of a
   session, and only if none of its code names a builtin (`NoBuiltins`); elsewhere
   the stack is at least as deep as the code says.
5. A `return` outside of functions, `return 10;` in a test of the evaluator, pops the
   machine's only frame (`vm.c:232`) where the interpreter unwraps the value.
6. `run` takes `-i` for the compiler and everything else for the interpreter
   (`run.c:31`); the usage says the opposite.

Met on the way, with no statement in the repository to hold against them, and
listed as hazards: a conditional whose block is empty or ends in a let leaves no
value where one is popped; `let x = x` reads an unset slot, also in
`let a = 1; let a = a + 1;`; a full pool of constants, which a long session reaches as all
lines share it, is written past its end, and so are the scopes; `puts` of a hash
appends to what `malloc` has left, and so does printing one; in the interpreter, `puts` of
a function follows a null pointer if its body is a string or a conditional, and is
undefined if it is empty; a text of more than 1023 characters overruns its buffer; a hash is built with keys
that crash a later lookup; an error in the first element of an array or argument of
a call is written through an empty list; a let whose value does not parse follows
the null pointer it has just been given.

The engines disagree, and the repository does not say which is right, on these
sessions (`Unsettled` in `MCEngines`), which `EnginesAgree` leaves out:

* `==` or `!=` between values of different types compares the union of an object
  with a bool (`Mixed`); those of the same type are settled, but for the next;
* `==` or `!=` between two arrays is a boolean in the interpreter (`evaluator.c:226`) and an
  error in the machine (`vm.c:409`);
* a function whose body ends in a `let` returns the value, or null;
* a name is looked up when it is used, or when the code that uses it is compiled, so
  that a function may name what is defined later only in the interpreter;
* a key without a hash is refused when the hash is built, or when it is looked up;
* a global that is defined again is seen by the functions made before, or not.

One more concerns `DefinedWhereInterpreted`, whose comment leaves it out: a name that is
defined a second time by its own value, `let a = 1; let a = a + 1; a`, is 2 in the
interpreter and in the machine the sum of a slot that was never set. `monkey` has this
program among the faulty ones. For `let a = a` alone the interpreter answers an error, so
that the property has nothing to ask; that the machine reads the unset slot is
`UnsetIsRead` in `UndefinedExplained`.

## What is proved

`SymbolTableProofs` proves for every set of names, every builtin table and all
bounds, from the assumptions of `SymbolTable` about its constants (extension is
between names and irreflexive; builtin indices are numbers or `NULL`; `NULL` is
no name, no symbol and no answer):

* `TypeCorrect`, `SlotsAreDistinct`, `CapturesAreInRange`, by `Safety`;
* under `NoPrefixes` (no name extends another), `CapturesAreCurrent`,
  `CapturesAreChained` and `NamesAreKept`, by `LexicalSafety`. Finding 1 is that
  without `NoPrefixes` the last one is false; so are the other two, as a
  capture may be dropped with its name;
* under `NoPrefixes`, `LexicalScoping`: the tables implement the nested scopes of
  `LexicalScope` (`ImplementsLexicalScope`). An answer is the innermost binding of the
  name and the scope it was made in, though what is returned is a free index.

`ParserProofs` proves, for every text and every size of the parser's arrays:

* `NullsAreReported`: a null pointer is returned only once an error is on record,
  and the count of errors stays in its array (`NullReported`);
* `AcceptedProgramsAreWhole`: a program for which no error was recorded has, at every
  depth, expressions where expressions belong, statements where statements belong, the
  operators of the language in its operator nodes and no null pointer anywhere
  (`AcceptedIsWhole`). Whoever finds a count of zero may use the tree. This is also, but
  for the blocks of its conditionals and the names, what the theorems about the
  compiler ask of the trees it is given.

`EvaluatorProofs` proves, for all programs, and of whatever size:

* `ErrorsAreNotLost`: while something has failed, a step of the interpreter binds no
  name, calls no function and does nothing but end the innermost call with the
  error (`ErrorsUnwind`);
* `InterpreterTypesCorrect`: no name is ever bound to an error or to what is no object, no
  line evaluates to what is no object, and every environment is enclosed by an older
  one, so that the search for a name ends (`InterpreterTypeOK`);
* `FaultsHaveCause`: a step of the interpreter that does something undefined does so at
  a block without a statement, at a list whose first expression fails, at a division
  by zero, or where a value is to be shown that has no text (`FaultsExplained`). Nothing in `eval()` or the builtins tests the
  pointers it follows, so this is what their callers guarantee them.

What is proved rests on what `eval()` does and not on the shape of the tree, but for one
thing: `Evaluator` has no step for a null pointer in the tree, which is what
`AcceptedProgramsAreWhole` excludes.

`CompilerProofs` proves, for all programs and sessions whose nodes come from some set
of trees that is closed under parts (`HoldsParts`, as what a parser builds is), and
for every size of the machine:

* `FunctionsAreClosed`: there is a buffer for every table and a table for every
  function being compiled; a compiled program ends with one of each; a compiled
  function has a slot for each of its parameters (`FunctionsClosed`);
* `FunctionsAreClosedInSessions`: the same while lines follow lines, some of which
  fail within functions, and the machine runs in between;
* `EarlierCodeIsKept`: no step of a session changes what is in the pool or takes back
  a slot of a global (`EarlierCodeStays`), so that the closures of earlier lines
  go on meaning what they meant. This is so as long as the session goes on: one that
  fills the array of the pool is stopped there, in the status `undefined`, as the next
  constant is written behind it.

It goes on with the bytecode, for all programs whose trees are balanced, as
those a parser builds are but for the blocks that end without a value
(`HoldsParts`, and `Balanced`: statements and expressions each in their
places, known operators, and no conditional with a block that is empty or ends in a
let), as long as every buffer stays below 255 bytes (`BuffersShort`):

* `CompiledCodeVerifies`: every function that has been compiled and, at the end, the
  main program is cut into whole instructions, jumps forward and onto one of them,
  and has at each of them one depth of the stack, which suffices for it
  (`CodeVerifies`);
* `SessionCodeVerifies`: the same while lines follow lines, some of which fail, so that
  the machine is only ever handed code that can be run;
* `NotesAreTrue`: the note of the last instruction is true in every open scope
  (`LastInstructionTrue`);
* `CompilerTypesCorrect`: the types (`CompilerTypeOK`).

Both hypotheses are needed. Without `BuffersShort` the length wraps (finding 2); the
programs of `compiler` keep to it. Without the last part of `Balanced` the conclusion
is false, as a block that leaves no value makes the arms of its conditional differ
in depth (see above). `MCCompiler` has TLC evaluate on all programs of its run that
they are `Balanced`.

`OperandProofs` proves of the same programs, with no more constants than the pool's array
holds, which is at most 255 (`LimitsAssumption`; 64 in the code), as its length is a `UInt8`:

* `CompiledOperandsExist`: what an instruction refers to is there (`OperandsExist`): the
  constant or the function in the pool, the slot among the globals or in the frame, and
  in each closure that is made of a function as many captured values as it uses;
* `SessionOperandsExist`: the same for the lines of a session, which go on with the pool
  and the globals of the lines before, failed ones included.

`MachineProofs` proves of the machine, for all sessions of such programs, under the same
bound on the buffers and as long as there is a slot for each global that has been counted
(`GlobalsReach`; `globals` has 65536, as many as an index of two bytes reaches):

* `FramesStayNested`: the frames of the calls lie above one another on the stack, each
  behind the locals of the one below, and the stack pointer above the last
  (`FramesNested`), so that a return, which drops all by one assignment, drops what
  belongs to the call that ends, and no call writes to a local of another;
* `DepthsAgree`: each call stands at an instruction of its code, with at least the
  operands on the stack that the code has there, and as long as no builtin is named
  exactly as many (`DepthAgrees`): no instruction takes for an operand what is not one;
* `MachineWellFormed`: the types, of the machine and of the loop (`TypeOK`);
* `UndefinedHasCause`: a step of the loop that does something undefined has one of
  these causes (`UndefinedExplained`). While a line is compiled, the pool or the array of
  scopes is full. While it runs, the stack is used up, or the field `globals` behind
  it has been overwritten; there is no frame left for a call; the main program returns;
  the divisor is zero; a hash that is looked up has a key without a hash; an operand has
  in it the value of a variable that was never set; a value is put that has no text. When
  its value is printed, that value has no text or has an unset one in it. `vm_run` checks
  none of what it reads, so this says what the compiler guarantees it: no operand,
  constant, function, local, captured value, builtin or global is ever missing, and
  no jump or return goes nowhere.

No bound on the stack or on the frames is assumed: the theorems hold for every size,
also for ones that are used up, as long as the machine runs.

`Compiler` assumes of its constants that the absence of an error is not one
(`MessageAssumption`), that the length of the pool's array fits in a
`UInt8` and that there is room for one scope (`LimitsAssumption`), and what `SymbolTable` assumes (`NamesAssumption`).

`Foundations` proves of the encoding, for all opcodes and operands, and of all code:

* `RoundTrip`: what `code_make` encodes, `code_read_operands` reads back, if the
  operands fit in their widths and wherever the instruction lies;
* `SoundVerifies`: code with a certificate (see below) verifies.

`CodeStreamProofs` proves of the listing:

* `StreamTypeCorrect` and `ListingIsFaithful`, under `NoCut` (four bytes for each
  of `MaxInstructions` stay below 256): a longer stream is cut by the `UInt8` of
  its length, which `compiler_wrap` shows.

The argument for the listing: the instructions written lie end to end from
position 0 to the end of the stream (`InstructionsInPlace`,
`InstructionsAdjoin`), and the walk stands at the start of the instruction after
those it has listed (`ListingInStep`); so the byte it looks at is that
instruction's opcode, and `RoundTrip` gives its operands.

The argument for the tables. `SlotsDistinct` and `CapturesInRange` are not inductive: a lookup
appends to all inner tables at once, and a free index is in range only because
the next table out was extended in the same step. The invariant of `Safety`
adds that every symbol sits under its own name, that slots lie below
`num_definitions`, that the outermost table captures nothing, and that a free
symbol stands for an entry of `free_symbols` under its own name. The tables are a stack, so lemmas about `Append`,
`SubSeq` and a change of the last element reduce Enter, Leave and Define to one
table; for Resolve the lemma is about a pair of neighbours, each of which is
either untouched or has been given one capture. `LexicalSafety` adds that a
captured symbol is the current one of its name in the next table out. With
`NoPrefixes` a definition touches one name of the innermost table only, and no
open table lies inside that one, so nothing captured becomes stale; the chain
of `CaptureChain` is then followed outwards table by table.
For the refinement, an operation is compared with its abstract one on the bindings that
the tables show (`View`): opening, leaving and defining change them as the
specification says (`OpenShown`, `CloseShown`, `BindShown`), and a lookup, for all the
captures it writes, not at all (`ResolveShown`), since a free symbol binds nothing.
The answer of the refinement mapping is a `CHOOSE` over a recursive function that
follows the free indices. There is only one such function (`OneWayOut`), and the chain of
`CaptureChain` shows what it is (`AnswerChained`); for a global or a builtin one needs to
know that they lie in the outermost table only (`OutermostGlobals`).

The argument for the parser. Every function either returns a node or a list, goes on
with nested calls, or records an error (`ErrorIsCounted`, `ValueIsReturned`,
`NothingIsReturned`); the only way to a null pointer is through `Refuse`. As the
count only grows and starts with a list in `result`, "no error yet, no null pointer
yet" is inductive. That says nothing of what has been stored. For the trees the invariant
is that, while no error is on record, there is a set of nodes (`Growing`) which contains
with a node what is below it, which everything on `calls` and in `result` is taken from,
and in which each node has the right kind of thing in each place (`Whole`); the stack
matters because `ListItem`, say, stores whatever `result` is, so that every call must be
the one its neighbour waits for (`Stacked`, by what a call `Yields` and `Expects`). A
step takes nodes from the set, or adds one made of such nodes. That the nodes found by
looking down from a program level by level stay within the set is an induction over
the depth (`NodesWithin`).

The argument for the compiler. That tables and buffers are as many holds in each step; that
there is one of each at the end does not follow from it, as a step that leaves a
function needs one to be open. The number of open functions is that of the calls on
`todo` which wait for a body, and counting them would take an induction over
`todo`. Instead the invariant says that there is a function `depths` from places in
`todo` to numbers (`Depths`), which changes from one place to the next just where a
function is left, begins with the number of tables and ends with one
(`OpenTables`); each step cuts such a function or extends it. The parameters of a
function, defined one by one by a recursive function, only make its table grow
(`ParametersGrow`); this one induction over numbers is made by a least
counterexample (`LeastNumber`), which needs no theorem with an operator for a
parameter. For sessions the same invariant is kept through the steps of the machine,
which touch neither the tables nor the pool, and through the beginning of a line,
which keeps the outermost table and the pool only.

The argument for the code. `Verifies` is recursive over the code from its first byte,
the compiler appends at the last one, takes the last pop back and fills in targets
long behind. So `Foundations` has a criterion without recursion: a function D from
the offsets at which instructions begin to the depth of the stack there, such that
each instruction finds its operands and leaves to its successors the depth that D has
for them (`Sound`), except for jumps whose target is not yet known. `SoundVerifies`
is the link, by two inductions over offsets (`StartsOfSound`, `ReachedOfSound`). What
emit, `remove_last_pop` and `change_operand` do to a buffer becomes what they do to D:
one entry more, one less, one jump fewer that is open. `Good` adds that the note is true.
The invariant (`CodeInv`, with `ScopesSane`) then says of all that is going on: every
open scope has a certificate, and between any two calls on `todo` there is a *stage*:
which scope, how many operands on its stack, whether the code ends with a statement
that has left its value in a pop, and which jumps are open. A call leads from the
stage before it to the one behind it (`Passes`), as a grammar of the code of each
node: an expression adds one operand, a statement none, a block of a conditional one when
its pop has been taken back. A step replaces the call on top by those it makes; that
the first leads where the next begins is what has to be shown for each action
(`CodeStep`), and nothing below it has to be looked at again. As in `FunctionsClosed`
the stages are a function that is said to exist, not one that is computed.

The argument for the operands. The property speaks of the end of a compilation; while it
goes on, an instruction that has been emitted refers to what its table, the tables
around it and the pool have counted so far, and the invariant (`ReferenceInv`) says that
of every open scope, within the bounds that `BoundsOf` reads off the tables. These bounds
only grow (`BoundsGrow`), so that an instruction is looked at once, when it is emitted:
a load refers to what the symbol stands for (`Reaches`), which is there because every
symbol of a table lies within the table's own count, or is one of its captures
(`TablesReach`, kept by each operation on the tables); a store refers to the slot that
was defined before the value was compiled, which the call that waits on `todo` remembers
(`Stores`, in the invariant of `CompilerProofs`). When a function is left, the bounds of
its scope become those of the function: its captures are what `FunctionEnd` loads,
within the bounds of the scope around, and as many as it uses (`FunctionCloses`). A slot
beyond 255 does not fit in its operand and is read as another; the bounds are closed
downwards, so that this one is there as well. That the offsets at which a certificate has
instructions are the ones at which `Verifies` and `Instrs` find them
(`StartsOfTiled`) makes the result one about the bytes and not about the way they were
written.

The argument for the interpreter. That an error ends the calls one by one is plain for
those that look for it, and wrong for the others: a call that has not waited yet
would evaluate its node, and one that waits for a list would take the error for one.
So the proof is that an error is never handed to these. The invariant `UnwindInv` says
of any two neighbours on the stack that the outer one has waited, and waits for a
list just when the inner one makes one (`WaitsFor`); and that the call on top, when
the object is an error, is one that can receive it. The second part is what a return
re-establishes from the first, whatever the stack below looks like
(`ReturnKeeps`); the first is kept by a step that makes a nested call because the
names under which calls wait are chosen for it (`MovesKeep`). `ErrorStep` then goes
through the actions: those of fresh calls and of receivers that look are disabled, and
the four left return the error or stop.

For the types and the causes a second invariant, `ValuesInv`, stands on the first. It
says what a call has kept and what it is handed: the left side of an operator, a
callee, the items of a list or the pairs of a hash so far are proper values
(`CallSound`), and whoever waits receives a proper value or an error, or, for a list, a
list of proper values or of one error (`Receives`). A proper value has no error in it, and
nothing that is no object, at any depth, and the functions in it have environments that
exist; it is said as for the machine, by a set of values that is closed under parts
(`MadeOf`, `Store`). The bindings of all environments are proper (`EnvsSound`), and
that is where the two hang together: a function is called with what it has kept, its
environment is younger than the one it was made in (`EnteredFunction`), and
what a name is looked up to is proper because every search, a recursive function again, goes on
in an older environment (`SearchExists`, `Found`). Which kind of object a call is handed
follows from `WaitsFor`, which is why the first invariant is needed. The operators,
indexing and the builtins make proper values or errors of proper values
(`InfixOutcome`, `ItemGood`, `BuiltinGood`), and what is left are the four causes.

The argument for the machine. `FramesNested` and `DepthAgrees` are not inductive: that
the frame of a call lies where it should is known when its arguments are, and how many
these are is known from the code. The invariant (`MachineSessionInv`) puts that of the
compiler, which speaks of the code in the pool, next to one of the machine
(`MachineInv`):

* every value that can still be reached - on the stack, among the globals, captured, in
  an array or a hash, to any depth - is made of objects of the machine, and a closure
  among them is one of a function of the pool with at least its parameters as locals
  and with as many captured values as its code uses (`Captures`)
  (`Proper`; a value is finite but of any depth, so that this is said by a set of values
  which is closed under parts, `MadeOf`, in the way `Growing` says it of trees);
* the calls are stacked (`Stacked`): each begins where its caller has put the function
  and the arguments, ends below the next, stands at an instruction of its own code, and
  has the depth which the code has there - at least, and exactly while no builtin is
  about (`Quiet`).

Every operation of the loop then has a lemma of its own. `StepHas` says what it finds:
the operands that `Verifies` promises for this instruction lie above the locals of the
call, so that `Pop` cannot reach into them and an assignment to a slot cannot reach a
frame below. A call makes the depth of its caller the base of a new frame; a return
drops the frame and is, to the caller, an instruction which has taken its operands and
left one value (`FrameReturned`). A builtin that leaves its arguments only makes the
stack deeper than the code has it, which is where `Quiet` ends, and which is why the
depths are compared by `>=` there. What depth the code has at a place is computed by
`Reached`, a recursive function, following the code; `OneDepth` and its neighbours
show, from `CodeVerifies`, that it gives one depth at each place and that the next
instruction, or the target of a jump, has the one that this instruction leaves. While
lines are compiled, only the pool grows, so that what the machine has left in the
globals stays proper.

The argument for the causes looks at the same steps from the other side: the machine is
about to do something undefined, and none of the causes is there. Each operation has
a lemma for this too (`ConstantFails` to `ReturnFails`), put together in
`MachineExplained`. `OperandsTaken` says that what an instruction takes off the stack is
there unless the stack is used up; `ConstantThere`, `LocalThere`, `FreeThere` and
`GlobalThere` say the same of what an operand of the code refers to, from the theorem
on operands and from `Captures`; a builtin is undefined only on an argument that is, or
has in it, a value that was never set, or, if it is `puts`, one without a text
(`BuiltinUndefined`, by one lemma for each that can fail). Such a value may be deep inside
an operand: what is in it are its `Contents`, a recursive function over the depth of
values, and `LevelsExist` and `WholeInItsParts` show, by a least counterexample
again, that the items of an array or a hash are objects unless it is `Dangling`. The steps
of the compiler and the printing of a line are undefined just where they say so
(`StepExplained`).

Only model-checked:

* `UndefinedOnlyAfterFailure`: `UndefinedHasCause` says which causes there are; the run
  shows that, but for those that are faulty on purpose, the programs and sessions of the
  families meet none of them before a line has failed;
* that the tree is the one the text was written from (`FindsTheTree`), what the printer
  makes of it (`ReadsBack`), the agreement of the engines (`EnginesAgree`,
  `DefinedWhereInterpreted`) and the types of `ReadPrint`: they compare with, or
  stand next to, recursive operators over data, for which the prover has no induction
  and no backend;
* liveness (`ListingEnds`, `SessionEnds`, `Ends`, `BothEnd`), as fairness and ENABLED
  are outside of what the prover here can do.

Where the proofs above need an induction they make it by a least counterexample or
state a function or a set that grows with the data.

## What is not modelled

* The token loop of the REPL (`-t`) prints tokens and keeps nothing; `Runner` only
  chooses it. Reading of characters from the terminal is the entering of a line.
* The depth of the C stack, which recursion of `eval` and of the parselets uses up:
  the stacks of calls have no bound.
* What `run` prints of a function in the interpreter: `run.c:42` makes a text of every
  value, the loop of `repl.c:84` of all but functions, which is what `Evaluator` has.
* The wording of errors, layout of listings, memory
  (nothing is ever freed except one instruction buffer), integer overflow of the
  language's `int`. One object is allocated with the size of a pointer (`vm.c:456`);
  allocators round that up to what it needs, and the model lets it be whole.
* The parser leaves `FunctionLiteral.name` and, without an else,
  `IfExpression.alternative` unassigned: `Unset` in `Parser`, which the engines then
  read. The engines are run on trees with the null pointer in these fields, which is
  what fresh memory holds.
* `MAX_FREE_VARIABLES`: not compared with anything in the code, and not met by the
  programs of the runs.
* The list of `utils/` is a TLA+ sequence; `test/` supports the unit tests.

## Plan

Done, in this order: tables, encoding, compiler, machine and loop with the proofs of
tables and encoding; parser, lexer and printer; evaluator and its agreement with the
machine; command line; the proofs about parser, evaluator and compiler; those about
the code that is emitted, about the machine that runs it, and about what may still go
wrong there; those about the values and the environments of the interpreter;
the text of values and the limits of the compiler's arrays.

Left: few frames against wide ones, and the limit on captured variables.
