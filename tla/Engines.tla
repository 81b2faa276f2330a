------------------------------ MODULE Engines -------------------------------
(***************************************************************************)
(* The two engines of the language side by side: the lines of a session    *)
(* are entered to the loop of repl_start_eval, which evaluates them, and   *)
(* then to that of repl_start, which compiles and runs them.               *)
(***************************************************************************)
EXTENDS Evaluator

CONSTANTS Programs, Names, Extensions, MAX_CONSTANTS, MAX_SCOPES,   \* see Compiler
          Sessions, STACK_SIZE, MAX_FRAMES, GlobalSlots,            \* see Monkey
          Settled    \* those sessions on which the engines are to agree

VARIABLES tables, todo, scopes, pool, err,                          \* see Compiler
          globals, stack, sp, frames, status, session, line, output \* see Monkey
machineVars == <<tables, todo, scopes, pool, err, globals, stack, sp, frames, status,
                 session, line, output>>
Machine == INSTANCE Monkey
enginesVars == <<machineVars, evaluatorVars>>

InitEngines == Machine!Init /\ InitEvaluator

(* The process has ended, or all its lines have been read.                 *)
Interpreted ==
    \/ evaluation \in {"undefined", "exited"}
    \/ evaluation = "idle" /\ Len(answers) = Len(session)

EnterLine ==
    /\ ~Interpreted
    /\ BeginProgram(session[Len(answers) + 1])
    /\ UNCHANGED machineVars

Interpret == NextEvaluator /\ UNCHANGED machineVars

CompileAndRun == Interpreted /\ Machine!Next /\ UNCHANGED evaluatorVars

NextEngines == EnterLine \/ Interpret \/ CompileAndRun

SpecEngines == InitEngines /\ [][NextEngines]_enginesVars /\ WF_enginesVars(NextEngines)

-----------------------------------------------------------------------------
(* Properties; the first ones are those of Evaluator.                      *)

RECURSIVE SameValue(_, _)
SameValue(v, w) ==
    CASE v.t = "FUNCTION" -> w.t = "CLOSURE" /\ w.fn.params = Len(v.params)
      [] v.t = "ARRAY" -> /\ w.t = "ARRAY" /\ Len(w.elements) = Len(v.elements)
                          /\ \A i \in DOMAIN v.elements : SameValue(v.elements[i], w.elements[i])
      [] v.t = "HASH" -> /\ w.t = "HASH" /\ Len(w.pairs) = Len(v.pairs)
                         /\ \A i \in DOMAIN v.pairs, k \in {1, 2} : SameValue(v.pairs[i][k], w.pairs[i][k])
      [] OTHER -> w = v

(* A session is settled when it leaves nothing to the engine: it compares  *)
(* nothing with a value of another type and no array with an array, no     *)
(* function ends in a let, every name is defined before it is used and     *)
(* never again, and every key has a hash.  Both engines answer the lines   *)
(* of such a session alike, value for value and error for error, until one *)
(* of them fails: the operands of every operator, the branch of every      *)
(* conditional, the variable behind every name, the value of every call.   *)
EnginesAgree ==
    session \in Settled =>
      \A i \in DOMAIN output \cap DOMAIN answers :
        (\A j \in 1..i - 1 : answers[j] # Error) => SameValue(answers[i], output[i])

(* The machine comes to nothing undefined and does not end the process     *)
(* where the interpreter has answered this line and those before it with   *)
(* values, unless the line defines a name a second time by its own value.  *)
(* (In let a = 1; let a = a + 1; the compiler takes the second a for the   *)
(* new variable, which has no value yet.  No session here does that.)      *)
DefinedWhereInterpreted ==
    status \in {"undefined", "exited"} =>
        \E i \in 1..line : i \notin DOMAIN answers \/ answers[i] = Error

(* Both engines come to the end of their session.                          *)
BothEnd == <>(Interpreted /\ line = Len(session) /\ status \in {"idle", "undefined", "exited"})
=============================================================================
