------------------------------ MODULE Objects -------------------------------
(***************************************************************************)
(* The values of the language, src/object: what an Object is, and the      *)
(* functions of object.c and builtins.c on them.                           *)
(*                                                                         *)
(* An Object is a record whose field "t" names its type.  A slot that is   *)
(* meant to hold a pointer to an Object may instead hold the null pointer  *)
(* or what the memory held before; a function that follows such a pointer  *)
(* has undefined behaviour, which is an outcome of its own here, like the  *)
(* error objects and the end of the process.                               *)
(***************************************************************************)
EXTENDS Naturals, Integers, Sequences

CONSTANT HasText(_)     \* the text of a value whose parts have one can be made: see Inspector

Integer(n) == [t |-> "INTEGER", int |-> n]
Boolean(b) == [t |-> "BOOLEAN", bool |-> b]
String(s) == [t |-> "STRING", string |-> s]
Null == [t |-> "NULL"]
ArrayOf(elements) == [t |-> "ARRAY", elements |-> elements]
HashOf(pairs) == [t |-> "HASH", pairs |-> pairs]
CompiledFunction(code, locals, params) ==
    [t |-> "COMPILED_FUNCTION", code |-> code, locals |-> locals, params |-> params]
Closure(fn, free) == [t |-> "CLOSURE", fn |-> fn, free |-> free]
Builtin(index) == [t |-> "BUILT_IN", index |-> index]

(* What is no Object.                                                      *)
NullPointer == [t |-> "null pointer"]
Garbage == [t |-> "garbage"]
IsObject(v) == v.t \notin {"null pointer", "garbage"}

(* Outcomes of an operation other than an object.                          *)
Error == [t |-> "ERROR"]
Undefined == [t |-> "undefined behaviour"]
Exit == [t |-> "exit"]

Checked(vs, outcome) == IF \A i \in DOMAIN vs : IsObject(vs[i]) THEN outcome ELSE Undefined

-----------------------------------------------------------------------------
Truthy(o) == o.t # "NULL" /\ ~(o.t = "BOOLEAN" /\ ~o.bool)

(* What the union of an object yields as a bool: the first byte of its     *)
(* value.  A pointer, or a byte that is no bool, may be read either way,   *)
(* and so may a null: object_copy leaves its value unassigned.             *)
AsBool(o) ==
    CASE o.t = "BOOLEAN" -> {o.bool}
      [] o.t = "INTEGER" /\ o.int % 256 \in {0, 1} -> {o.int % 256 = 1}
      [] OTHER -> BOOLEAN

(* int division cuts towards zero; by zero it is undefined.                *)
Magnitude(n) == IF n < 0 THEN -n ELSE n
Quotient(l, r) == IF (l < 0) = (r < 0) THEN Magnitude(l) \div Magnitude(r)
                  ELSE -(Magnitude(l) \div Magnitude(r))

(* object_hash: the hash names the type and the value, so keys with equal  *)
(* hashes are equal.                                                       *)
Hashable(o) == o.t \in {"STRING", "BOOLEAN", "INTEGER"}

(* object_inspect makes the text of a value from the texts of its parts,   *)
(* whose pointers it follows.                                              *)
MaxNesting == 8     \* bound: arrays, hashes and wrappings within each other
Parts(o) ==
    CASE o.t = "ARRAY" -> {o.elements[i] : i \in DOMAIN o.elements}
      [] o.t = "HASH" -> UNION {{o.pairs[i][1], o.pairs[i][2]} : i \in DOMAIN o.pairs}
      [] o.t = "RETURN_VALUE" -> {o.object}
      [] OTHER -> {}
Contents(o) ==
    LET within[d \in 0..MaxNesting] ==
          IF d = 0 THEN {o} ELSE UNION {Parts(v) : v \in within[d-1]}
    IN  UNION {within[d] : d \in 0..MaxNesting}

(* Whatever is in a hash, its text is appended to a buffer in which there  *)
(* is nothing yet, and that is undefined.                                  *)
Dangling(o) == \E v \in Contents(o) : ~IsObject(v)
Textless(o) == \E v \in Contents(o) : IsObject(v) /\ (v.t = "HASH" \/ ~HasText(v))
Printable(o) == ~Dangling(o) /\ ~Textless(o)

(* object_copy ends the process on a function of the machine.              *)
Copyable(o) == o.t \notin {"BUILT_IN", "CLOSURE", "COMPILED_FUNCTION"}
Copied(elements, outcome) ==
    IF \A i \in DOMAIN elements : IsObject(elements[i])
    THEN IF \A i \in DOMAIN elements : Copyable(elements[i]) THEN outcome ELSE Exit
    ELSE Undefined

-----------------------------------------------------------------------------
(* The builtins, in the order of enum BuiltinIndexes *)

ArrayArg(args, outcome(_)) ==
    IF Len(args) # 1 THEN Error
    ELSE IF ~IsObject(args[1]) THEN Undefined
    ELSE IF args[1].t # "ARRAY" THEN Error
    ELSE outcome(args[1].elements)

(* An item of a list is returned by value.                                 *)
Deref(v) == Checked(<<v>>, v)

BuiltinFirst(args) == ArrayArg(args, LAMBDA es : IF es = << >> THEN Null ELSE Deref(es[1]))
BuiltinLast(args) == ArrayArg(args, LAMBDA es : IF es = << >> THEN Null ELSE Deref(es[Len(es)]))
BuiltinRest(args) ==
    ArrayArg(args, LAMBDA es : IF es = << >> THEN Null ELSE Copied(Tail(es), ArrayOf(Tail(es))))

BuiltinLen(args) ==
    IF Len(args) # 1 THEN Error
    ELSE Checked(args, CASE args[1].t = "STRING" -> Integer(Len(args[1].string))
                         [] args[1].t = "ARRAY" -> Integer(Len(args[1].elements))
                         [] OTHER -> Error)

BuiltinPush(args) ==
    IF Len(args) # 2 THEN Error
    ELSE IF ~IsObject(args[1]) THEN Undefined
    ELSE IF args[1].t # "ARRAY" THEN Error
    ELSE LET pushed == Append(args[1].elements, args[2])
         IN  Copied(pushed, ArrayOf(pushed))

IsPuts(o) == o.t = "BUILT_IN" /\ o.index = 4
BuiltinPuts(args) ==
    IF \A i \in DOMAIN args : Printable(args[i]) THEN Null ELSE Undefined

CallBuiltin(index, args) ==
    CASE index = 0 -> BuiltinLen(args)
      [] index = 1 -> BuiltinFirst(args)
      [] index = 2 -> BuiltinRest(args)
      [] index = 3 -> BuiltinPush(args)
      [] index = 4 -> BuiltinPuts(args)
      [] index = 5 -> BuiltinLast(args)
      [] OTHER -> Exit
=============================================================================
