----------------------------- MODULE Evaluator ------------------------------
(***************************************************************************)
(* The tree-walking interpreter, src/evaluator/evaluator.c, and its        *)
(* environments, src/object/environment.c.                                 *)
(*                                                                         *)
(* eval() is recursive.  Its active calls are the stack "calls", the       *)
(* innermost first: a node to be evaluated in an environment, or the rest  *)
(* of a function that waits for a nested call, with what that function     *)
(* keeps in local variables meanwhile.  What the last call returned is in  *)
(* "object".  One step is one stretch of the C code between nested calls.  *)
(*                                                                         *)
(* An error is an object like any other, which whoever receives it has to  *)
(* look for and pass on.  So is a value on its way out of a function, in   *)
(* its wrapping: only a block, a program and the call of a function look   *)
(* for it, anything else takes the wrapping for a value.                   *)
(***************************************************************************)
EXTENDS Objects

CONSTANTS NULL,             \* the alternative of a conditional that has none
          BuiltinIndex,     \* get_builtin: names to their place, or NULL
          Lines             \* the programs that may be entered

VARIABLES envs,         \* all environments; the first is the global one
          calls,        \* the active calls, the innermost first
          object,       \* what the last call that has ended returned
          evaluation,   \* "idle", "running", or how the process ended
          answers       \* the objects that programs have evaluated to
evaluatorVars == <<envs, calls, object, evaluation, answers>>

Function(fn, env) == [t |-> "FUNCTION", params |-> fn.params, body |-> fn.body, env |-> env]
Wrapped(o) == [t |-> "RETURN_VALUE", object |-> o]
ListOf(items) == [t |-> "list", items |-> items]    \* a List*, no object
IsError(o) == o.t = "ERROR"

-----------------------------------------------------------------------------
(* Environments: a list of bindings, the latest first, and an outer one,   *)
(* which is always older.                                                  *)

GlobalEnv == [store |-> << >>, outer |-> 0]
NotFound == [t |-> "NOT_FOUND"]

EnvGet(e, name) ==
    LET Bound(i) == {k \in DOMAIN envs[i].store : envs[i].store[k][1] = name}
        get[i \in 0..e] ==
          IF i = 0 THEN NotFound
          ELSE IF Bound(i) = {} THEN get[envs[i].outer]
          ELSE LET k == CHOOSE k \in Bound(i) : \A l \in Bound(i) : k <= l IN envs[i].store[k][2]
    IN  get[e]

EnvSet(e, name, o) == envs' = [envs EXCEPT ![e].store = << <<name, o>> >> \o @]

(* extend_function_env; the last parameter is bound last.                  *)
ExtendedInCaller(fn, args) == [store |-> << >>, outer |-> Head(calls).env]      \* faulty
ExtendedEnv(fn, args) ==
    LET n == Len(args)
    IN  [store |-> [i \in 1..n |-> <<fn.params[n + 1 - i], args[n + 1 - i]>>], outer |-> fn.env]

-----------------------------------------------------------------------------
(* Calls *)

(* Those that look whether what they have waited for is an error.          *)
AllButLeft == {"operand", "right", "returned", "bound", "condition", "callee", "indexed", "index",
               "key", "value"}      \* faulty: an error to the left goes unseen
AllButBound == {"operand", "left", "right", "returned", "condition", "callee", "indexed", "index",
                "key", "value"}     \* faulty: an error is bound to a name
IsErrorChecked == AllButLeft \cup {"left"}

Running == evaluation = "running" /\ calls # << >>
Waiting == Head(calls)
Env == Waiting.env
At(names) == Running /\ Waiting.call \in names /\ ~(Waiting.call \in IsErrorChecked /\ IsError(object))
Entering(types) == At({"eval"}) /\ Waiting.node.type \in types

Eval(node, env) == [call |-> "eval", node |-> node, env |-> env, kept |-> << >>]
Block(statements, env) == [call |-> "block", node |-> statements, env |-> env, kept |-> << >>]
Expressions(nodes) == [call |-> "expressions", node |-> nodes, env |-> Env, kept |-> << >>]
Unwrap == [call |-> "unwrap"]

(* The first call evaluates a node and waits under another name.           *)
Replace(rest) == calls' = rest \o Tail(calls) /\ UNCHANGED <<object, evaluation>>
Wait(first, name) == Replace(<< first, [Waiting EXCEPT !.call = name] >>)
WaitWith(first, name, o) ==
    Replace(<< first, [Waiting EXCEPT !.call = name, !.kept = Append(@, o)] >>)

(* It returns, or the process comes to its end.                            *)
Return(o) == object' = o /\ calls' = Tail(calls) /\ UNCHANGED evaluation
Stop(how) == evaluation' = how /\ UNCHANGED <<calls, object>>
Yield(o) ==
    CASE o = Undefined -> Stop("undefined")
      [] o = Exit -> Stop("exited")
      [] OTHER -> Return(o)

PassError ==
    /\ Running /\ Waiting.call \in IsErrorChecked /\ IsError(object)
    /\ Return(object)
    /\ UNCHANGED <<envs, answers>>

-----------------------------------------------------------------------------
(* The lines of a session: each is a program, evaluated in the environment *)
(* that those before it have left.                                         *)

InitEvaluator ==
    /\ envs = << GlobalEnv >> /\ calls = << >> /\ object = Garbage
    /\ evaluation = "idle" /\ answers = << >>

BeginProgram(program) ==
    /\ evaluation = "idle"
    /\ evaluation' = "running"
    /\ calls' = << Block(program, 1), Unwrap >> /\ object' = Garbage
    /\ UNCHANGED <<envs, answers>>

(* The loop shows what the line evaluates to, unless it is a function.     *)
Shown == object.t = "FUNCTION" \/ Printable(object)
EndProgram ==
    /\ evaluation = "running" /\ calls = << >>
    /\ IF Shown THEN answers' = Append(answers, object) /\ evaluation' = "idle"
       ELSE evaluation' = "undefined" /\ UNCHANGED answers
    /\ UNCHANGED <<envs, calls, object>>

-----------------------------------------------------------------------------
(* Statements *)

(* eval_block_statement, and eval_program, which unwraps besides.  Without *)
(* a statement they return an object that was never assigned.              *)
BeginBlock ==
    /\ At({"block"})
    /\ IF Waiting.node = << >> THEN Stop("undefined")
       ELSE Replace(<< Eval(Head(Waiting.node), Env),
                       [Waiting EXCEPT !.call = "nextInBlock", !.node = Tail(@)] >>)
    /\ UNCHANGED <<envs, answers>>

NextInBlock ==
    /\ At({"nextInBlock"})
    /\ IF object.t \in {"RETURN_VALUE", "ERROR"} \/ Waiting.node = << >> THEN Return(object)
       ELSE Replace(<< Eval(Head(Waiting.node), Env), [Waiting EXCEPT !.node = Tail(@)] >>)
    /\ UNCHANGED <<envs, answers>>

UnwrapReturnValue ==
    /\ At({"unwrap"})
    /\ Return(IF object.t = "RETURN_VALUE" THEN object.object ELSE object)
    /\ UNCHANGED <<envs, answers>>

Statement ==
    /\ \/ Entering({"LET"}) /\ Wait(Eval(Waiting.node.value, Env), "bound")
       \/ Entering({"RETURN"}) /\ Wait(Eval(Waiting.node.value, Env), "returned")
       \/ Entering({"EXPR"}) /\ Replace(<< Eval(Waiting.node.value, Env) >>)
    /\ UNCHANGED <<envs, answers>>

LetBound ==
    /\ At({"bound"})
    /\ EnvSet(Env, Waiting.node.name, object)
    /\ Return(object)
    /\ UNCHANGED answers

Returned ==
    /\ At({"returned"})
    /\ IF Copyable(object) THEN Return(Wrapped(object)) ELSE Stop("exited")
    /\ UNCHANGED <<envs, answers>>

-----------------------------------------------------------------------------
(* Literals, names and operators *)

Literal ==
    /\ Entering({"INT", "STRING", "BOOL", "FN"})
    /\ LET node == Waiting.node
       IN  Return(CASE node.type = "INT" -> Integer(node.int)
                    [] node.type = "STRING" -> String(node.string)
                    [] node.type = "BOOL" -> Boolean(node.bool)
                    [] node.type = "FN" -> Function(node, Env))
    /\ UNCHANGED <<envs, answers>>

Identifier ==
    /\ Entering({"IDENT"})
    /\ LET name == Waiting.node.name
           found == EnvGet(Env, name)
       IN  Return(IF found # NotFound THEN found
                  ELSE IF BuiltinIndex[name] # NULL THEN Builtin(BuiltinIndex[name]) ELSE Error)
    /\ UNCHANGED <<envs, answers>>

(* Only a boolean is inverted; of anything else but null, ! makes false.   *)
Prefix(operator, right) ==
    IF operator = "!" THEN Boolean(~Truthy(right))
    ELSE IF right.t = "INTEGER" THEN Integer(-right.int) ELSE Error

IntegerInfix(operator, l, r) ==
    CASE operator = "+" -> Integer(l + r)
      [] operator = "-" -> Integer(l - r)
      [] operator = "*" -> Integer(l * r)
      [] operator = "/" -> IF r = 0 THEN Undefined ELSE Integer(Quotient(l, r))
      [] operator = "<" -> Boolean(l < r)
      [] operator = ">" -> Boolean(l > r)
      [] operator = "==" -> Boolean(l = r)
      [] operator = "!=" -> Boolean(l # r)
      [] OTHER -> Error

(* == and != compare what is not two integers or two strings as booleans.  *)
Infixes(operator, l, r) ==
    IF l.t = "INTEGER" /\ r.t = "INTEGER" THEN {IntegerInfix(operator, l.int, r.int)}
    ELSE IF l.t = "STRING" /\ r.t = "STRING"
         THEN {IF operator = "+" THEN String(l.string \o r.string) ELSE Error}
    ELSE IF operator \in {"==", "!="}
         THEN {Boolean((x = y) = (operator = "==")) : x \in AsBool(l), y \in AsBool(r)}
    ELSE {Error}

PrefixExpression ==
    /\ \/ Entering({"PREFIX"}) /\ Wait(Eval(Waiting.node.right, Env), "operand")
       \/ At({"operand"}) /\ Return(Prefix(Waiting.node.operator, object))
    /\ UNCHANGED <<envs, answers>>

InfixExpression ==
    /\ \/ Entering({"INFIX"}) /\ Wait(Eval(Waiting.node.left, Env), "left")
       \/ At({"left"}) /\ WaitWith(Eval(Waiting.node.right, Env), "right", object)
       \/ At({"right"}) /\ \E outcome \in Infixes(Waiting.node.operator, Waiting.kept[1], object) :
                             Yield(outcome)
    /\ UNCHANGED <<envs, answers>>

IfExpression ==
    /\ \/ Entering({"IF"}) /\ Wait(Eval(Waiting.node.condition, Env), "condition")
       \/ At({"condition"}) /\ Truthy(object) /\ Replace(<< Block(Waiting.node.consequence, Env) >>)
       \/ /\ At({"condition"}) /\ ~Truthy(object)
          /\ IF Waiting.node.alternative = NULL THEN Return(Null)
             ELSE Replace(<< Block(Waiting.node.alternative, Env) >>)
    /\ UNCHANGED <<envs, answers>>

-----------------------------------------------------------------------------
(* Arrays, hashes and calls *)

(* eval_expressions: an error is put in the place of the list, which there *)
(* is only once something is in it.                                        *)
EvalExpressions ==
    /\ At({"expressions"})
    /\ IF Waiting.node = << >> THEN Return(ListOf(Waiting.kept))
       ELSE Replace(<< Eval(Head(Waiting.node), Env),
                       [Waiting EXCEPT !.call = "expression", !.node = Tail(@)] >>)
    /\ UNCHANGED <<envs, answers>>

AppendObject ==
    /\ At({"expression"})
    /\ CASE IsError(object) /\ Waiting.kept = << >> -> Stop("undefined")
         [] IsError(object) /\ Waiting.kept # << >> -> Return(ListOf(<<object>>))
         [] ~IsError(object) /\ ~Copyable(object) -> Stop("exited")
         [] OTHER -> Replace(<< [Waiting EXCEPT !.call = "expressions", !.kept = Append(@, object)] >>)
    /\ UNCHANGED <<envs, answers>>

SoleError(items) == Len(items) = 1 /\ IsError(items[1])

ArrayLiteral ==
    /\ \/ Entering({"ARRAY"}) /\ Wait(Expressions(Waiting.node.elements), "elements")
       \/ At({"elements"}) /\ Return(IF SoleError(object.items) THEN object.items[1]
                                     ELSE ArrayOf(object.items))
    /\ UNCHANGED <<envs, answers>>

CallExpression ==
    /\ \/ Entering({"CALL"}) /\ Wait(Eval(Waiting.node.fn, Env), "callee")
       \/ At({"callee"}) /\ WaitWith(Expressions(Waiting.node.args), "arguments", object)
    /\ UNCHANGED <<envs, answers>>

(* apply_function; the number of arguments decides over the process.       *)
Callee == Waiting.kept[1]
ApplyFunction ==
    /\ At({"arguments"}) /\ ~SoleError(object.items) /\ Callee.t = "FUNCTION"
    /\ IF Len(object.items) = Len(Callee.params)
       THEN /\ envs' = Append(envs, ExtendedEnv(Callee, object.items))
            /\ Replace(<< Block(Callee.body, Len(envs')), Unwrap >>)
       ELSE Stop("exited") /\ UNCHANGED envs
    /\ UNCHANGED answers

ApplyOther ==
    /\ At({"arguments"}) /\ (SoleError(object.items) \/ Callee.t # "FUNCTION")
    /\ Yield(IF SoleError(object.items) THEN object.items[1]
             ELSE IF Callee.t = "BUILT_IN" THEN CallBuiltin(Callee.index, object.items) ELSE Error)
    /\ UNCHANGED <<envs, answers>>

(* The keys of a hash have a hash each.                                    *)
HashItemFallsOff(pairs, key) ==     \* faulty: nothing is assigned when no key is equal
    LET equal == {i \in DOMAIN pairs : pairs[i][1] = key}
    IN  IF equal = {} THEN Garbage
        ELSE pairs[CHOOSE i \in equal : \A j \in equal : i <= j][2]
HashItem(pairs, key) ==
    LET equal == {i \in DOMAIN pairs : pairs[i][1] = key}
    IN  IF equal = {} THEN Null
        ELSE pairs[CHOOSE i \in equal : \A j \in equal : i <= j][2]
Item(left, index) ==
    CASE left.t = "ARRAY" /\ index.t = "INTEGER" ->
           IF index.int \in 0..Len(left.elements) - 1 THEN left.elements[index.int + 1] ELSE Null
      [] left.t = "HASH" -> IF Hashable(index) THEN HashItem(left.pairs, index) ELSE Error
      [] OTHER -> Error

IndexExpression ==
    /\ \/ Entering({"INDEX"}) /\ Wait(Eval(Waiting.node.left, Env), "indexed")
       \/ At({"indexed"}) /\ WaitWith(Eval(Waiting.node.index, Env), "index", object)
       \/ At({"index"}) /\ Return(Item(Waiting.kept[1], object))
    /\ UNCHANGED <<envs, answers>>

(* eval_hash_literal: "node" is the pairs still to come.                   *)
Pairs(nodes, pairs) == [call |-> "pairs", node |-> nodes, env |-> Env, kept |-> pairs]
HashLiteral ==
    /\ \/ Entering({"HASH"}) /\ Replace(<< Pairs(Waiting.node.pairs, << >>) >>)
       \/ At({"pairs"}) /\ Waiting.node = << >> /\ Return(HashOf(Waiting.kept))
       \/ At({"pairs"}) /\ Waiting.node # << >> /\ Wait(Eval(Head(Waiting.node)[1], Env), "key")
       \/ /\ At({"key"})
          /\ IF Hashable(object) THEN WaitWith(Eval(Head(Waiting.node)[2], Env), "value", object)
             ELSE Return(Error)
       \/ /\ At({"value"})
          /\ LET n == Len(Waiting.kept)
             IN  IF Copyable(object)
                 THEN Replace(<< Pairs(Tail(Waiting.node),
                                       [Waiting.kept EXCEPT ![n] = <<@, object>>]) >>)
                 ELSE Stop("exited")
    /\ UNCHANGED <<envs, answers>>

-----------------------------------------------------------------------------
NextEvaluator ==
    \/ EndProgram \/ PassError
    \/ BeginBlock \/ NextInBlock \/ UnwrapReturnValue \/ Statement \/ LetBound \/ Returned
    \/ Literal \/ Identifier \/ PrefixExpression \/ InfixExpression \/ IfExpression
    \/ EvalExpressions \/ AppendObject \/ ArrayLiteral
    \/ CallExpression \/ ApplyFunction \/ ApplyOther \/ IndexExpression \/ HashLiteral

SpecEvaluator ==
    /\ InitEvaluator
    /\ [][NextEvaluator \/ \E program \in Lines : BeginProgram(program)]_evaluatorVars

-----------------------------------------------------------------------------
(* Properties *)

ObjectTypes == {"FUNCTION", "INTEGER", "BOOLEAN", "STRING", "NULL", "RETURN_VALUE", "ERROR", "ARRAY",
                "HASH", "BUILT_IN"}

(* Whatever a name is bound to or a line evaluates to is an object that    *)
(* somebody has assigned; an environment's outer one is older, so that the *)
(* search for a name comes to an end; a call's environment is there.       *)
InterpreterTypeOK ==
    /\ evaluation \in {"idle", "running", "undefined", "exited"}
    /\ \A e \in DOMAIN envs :
         /\ envs[e].outer \in 0..e - 1
         /\ \A k \in DOMAIN envs[e].store : envs[e].store[k][2].t \in ObjectTypes \ {"ERROR"}
    /\ \A k \in DOMAIN calls : calls[k].call # "unwrap" => calls[k].env \in DOMAIN envs
    /\ \A i \in DOMAIN answers : answers[i].t \in ObjectTypes

(* Once something has failed, nothing else of the line happens: no name is *)
(* bound and no call is made, whoever waits returns, down to the line.     *)
Failing == evaluation = "running" /\ IsError(object)
Unwinds == envs' = envs /\ (evaluation' = "running" => calls' = Tail(calls))
ErrorsUnwind == [][Failing /\ calls # << >> => Unwinds]_evaluatorVars

(* The interpreter follows pointers and reads unions without looking, and  *)
(* yet there are four ways only to something undefined: a block without a  *)
(* statement, whose object was never assigned, a list in which the first   *)
(* expression fails, a division by zero, and a value that is to be shown   *)
(* but has no text - a hash, a function whose body the printer of trees    *)
(* cannot print, a text too long, or something with one of these in it.    *)
(* No pointer is ever missing, at whatever depth of a value.               *)
EmptyBlock == Waiting.call = "block" /\ Waiting.node = << >>
FirstFails == Waiting.call = "expression" /\ Waiting.kept = << >> /\ IsError(object)
ZeroDivisor ==
    Waiting.call = "right" /\ Waiting.node.operator = "/" /\ object.t = "INTEGER" /\ object.int = 0
TextlessPut ==
    /\ Waiting.call = "arguments" /\ IsPuts(Callee)
    /\ \E i \in DOMAIN object.items : Textless(object.items[i])
FaultsExplained ==
    [][evaluation = "running" /\ evaluation' = "undefined" =>
         IF calls = << >> THEN object.t # "FUNCTION" /\ Textless(object)
         ELSE EmptyBlock \/ FirstFails \/ ZeroDivisor \/ TextlessPut]_evaluatorVars
=============================================================================
