-------------------------- MODULE EvaluatorProofs ---------------------------
(***************************************************************************)
(* Proofs that an error of the interpreter unwinds all its active calls,   *)
(* that its names and lines have values, and that it has undefined         *)
(* behaviour in three cases only.                                          *)
(*                                                                         *)
(* The object last returned is an error only when the first call is one    *)
(* that waits for an object and looks at it, or hands it on as it is.  Two *)
(* calls wait for a list of objects instead; they stand below the call     *)
(* that makes the list, and nowhere else.  All others are handed values,   *)
(* which are made of values, and keep nothing else.                        *)
(***************************************************************************)
EXTENDS Evaluator, Foundations

Fresh == {"eval", "block", "expressions", "pairs"}      \* have not waited yet
GivesList == {"expressions", "expression"}
TakesList == {"elements", "arguments"}

(* Two calls of which the second waits for the first.                      *)
WaitsFor(waiter, call) ==
    /\ waiter.call \notin Fresh
    /\ waiter.call \in TakesList <=> call.call \in GivesList

IsStack(s) ==
    /\ \E S : s \in Seq(S)
    /\ \A k \in 1..Len(s) : "call" \in DOMAIN s[k]
    /\ \A k \in 2..Len(s) : WaitsFor(s[k], s[k - 1])
    /\ s # << >> => s[Len(s)].call \notin GivesList

CanReceive(call, o) == IsError(o) => call.call \notin Fresh \cup TakesList

UnwindInv ==
    evaluation = "running" =>
        /\ IsStack(calls)
        /\ calls # << >> => CanReceive(Head(calls), object)

-----------------------------------------------------------------------------
(* Stacks *)

LEMMA TailOfStack ==
    ASSUME NEW s, IsStack(s), s # << >>
    PROVE  /\ IsStack(Tail(s))
           /\ Tail(s) # << >> => WaitsFor(Head(Tail(s)), Head(s))
           /\ Tail(s) = << >> => Head(s).call \notin GivesList
<1>1. PICK S : s \in Seq(S)
  BY DEF IsStack
<1>2. Tail(s) \in Seq(S) /\ Len(Tail(s)) = Len(s) - 1 /\ Len(s) \in Nat \ {0}
  BY <1>1
<1>3. \A k \in 1..Len(s) - 1 : Tail(s)[k] = s[k + 1]
  BY <1>1
<1>4. \A k \in 1..Len(Tail(s)) : "call" \in DOMAIN Tail(s)[k]
  BY <1>2, <1>3 DEF IsStack
<1>5. \A k \in 2..Len(Tail(s)) : WaitsFor(Tail(s)[k], Tail(s)[k - 1])
  <2> SUFFICES ASSUME NEW k \in 2..Len(Tail(s)) PROVE WaitsFor(Tail(s)[k], Tail(s)[k - 1])
    OBVIOUS
  <2>1. Tail(s)[k] = s[k + 1] /\ Tail(s)[k - 1] = s[(k + 1) - 1] /\ k + 1 \in 2..Len(s)
    BY <1>2, <1>3
  <2> QED BY <2>1 DEF IsStack
<1>6. Tail(s) # << >> => WaitsFor(Head(Tail(s)), Head(s))
  <2> SUFFICES ASSUME Tail(s) # << >> PROVE WaitsFor(Head(Tail(s)), Head(s))
    OBVIOUS
  <2>1. 2 \in 2..Len(s) /\ Head(Tail(s)) = s[2] /\ Head(s) = s[2 - 1]
    BY <1>1, <1>2, <1>3
  <2> QED BY <2>1 DEF IsStack
<1>7. Tail(s) = << >> => Head(s).call \notin GivesList
  <2> SUFFICES ASSUME Tail(s) = << >> PROVE Head(s).call \notin GivesList
    OBVIOUS
  <2>1. Len(Tail(s)) = 0
    OBVIOUS
  <2>2. Head(s) = s[1] /\ Len(s) = 1
    <3>1. IsSequence(s)
      BY <1>1 DEF IsSequence
    <3> QED BY <1>2, <2>1, <3>1, SequenceTail
  <2>3. s[Len(s)].call \notin GivesList
    BY DEF IsStack
  <2>4. s[Len(s)] = Head(s)
    BY <2>2
  <2> QED BY <2>3, <2>4, Zenon
<1>8. Tail(s) # << >> => Tail(s)[Len(Tail(s))].call \notin GivesList
  <2> SUFFICES ASSUME Tail(s) # << >> PROVE Tail(s)[Len(Tail(s))].call \notin GivesList
    OBVIOUS
  <2>1. Len(s) - 1 \in 1..Len(s) - 1 /\ Tail(s)[Len(s) - 1] = s[(Len(s) - 1) + 1]
    BY <1>1, <1>2, <1>3
  <2>2. (Len(s) - 1) + 1 = Len(s)
    BY <1>2
  <2> QED BY <1>2, <2>1, <2>2 DEF IsStack
<1> QED BY <1>2, <1>4, <1>5, <1>6, <1>7, <1>8 DEF IsStack

LEMMA OnStack ==
    ASSUME NEW s, IsStack(s), NEW c, "call" \in DOMAIN c, s # << >> => WaitsFor(Head(s), c),
           s = << >> => c.call \notin GivesList
    PROVE  IsStack(<<c>> \o s) /\ <<c>> \o s # << >> /\ Head(<<c>> \o s) = c
<1>1. PICK S : s \in Seq(S)
  BY DEF IsStack
<1> DEFINE T == S \cup {c}
           t == <<c>> \o s
<1>2. s \in Seq(T) /\ <<c>> \in Seq(T)
  BY <1>1
<1>3. t \in Seq(T) /\ Len(t) = Len(s) + 1 /\ Len(s) \in Nat
  BY <1>2
<1>4. t[1] = c /\ \A k \in 1..Len(s) : t[k + 1] = s[k]
  BY <1>2
<1>5. t # << >> /\ Head(t) = c
  BY <1>3, <1>4
<1>6. \A k \in 1..Len(t) : "call" \in DOMAIN t[k]
  <2> SUFFICES ASSUME NEW k \in 1..Len(t) PROVE "call" \in DOMAIN t[k]
    OBVIOUS
  <2>1. CASE k = 1
    BY <1>4, <2>1
  <2>2. CASE k # 1
    <3>1. k - 1 \in 1..Len(s) /\ t[k] = s[k - 1]
      BY <1>3, <1>4, <2>2
    <3> QED BY <3>1 DEF IsStack
  <2> QED BY <2>1, <2>2
<1>7. \A k \in 2..Len(t) : WaitsFor(t[k], t[k - 1])
  <2> SUFFICES ASSUME NEW k \in 2..Len(t) PROVE WaitsFor(t[k], t[k - 1])
    OBVIOUS
  <2>1. CASE k = 2
    <3>1. t[k] = s[1] /\ t[k - 1] = c /\ s # << >> /\ Head(s) = s[1]
      BY <1>1, <1>3, <1>4, <2>1
    <3> QED BY <3>1
  <2>2. CASE k # 2
    <3>1. k - 1 \in 2..Len(s) /\ t[k] = s[k - 1] /\ t[k - 1] = s[(k - 1) - 1]
      BY <1>3, <1>4, <2>2
    <3> QED BY <3>1 DEF IsStack
  <2> QED BY <2>1, <2>2
<1>8. t[Len(t)].call \notin GivesList
  <2>1. CASE s = << >>
    <3>1. t[Len(t)] = c
      BY <1>3, <1>4, <2>1
    <3> QED BY <2>1, <3>1
  <2>2. CASE s # << >>
    <3>1. t[Len(t)] = s[Len(s)]
      BY <1>1, <1>3, <1>4, <2>2
    <3> QED BY <2>2, <3>1 DEF IsStack
  <2> QED BY <2>1, <2>2
<1> QED BY <1>3, <1>5, <1>6, <1>7, <1>8 DEF IsStack

(* What replaces the first call: one that takes its place ...              *)
LEMMA OneForTheFirst ==
    ASSUME NEW s, IsStack(s), s # << >>, NEW c, "call" \in DOMAIN c,
           c.call \in GivesList <=> Head(s).call \in GivesList
    PROVE  /\ IsStack(<<c>> \o Tail(s)) /\ <<c>> \o Tail(s) # << >>
           /\ Head(<<c>> \o Tail(s)) = c
BY TailOfStack, OnStack DEF WaitsFor

(* ... and perhaps another that it waits for.                              *)
LEMMA TwoForTheFirst ==
    ASSUME NEW s, IsStack(s), s # << >>,
           NEW c, "call" \in DOMAIN c, NEW w, "call" \in DOMAIN w, WaitsFor(w, c),
           w.call \in GivesList <=> Head(s).call \in GivesList
    PROVE  /\ IsStack(<<c, w>> \o Tail(s)) /\ <<c, w>> \o Tail(s) # << >>
           /\ Head(<<c, w>> \o Tail(s)) = c
<1> DEFINE t == <<w>> \o Tail(s)
<1>1. IsStack(t) /\ t # << >> /\ Head(t) = w
  BY OneForTheFirst
<1>2. IsStack(<<c>> \o t) /\ <<c>> \o t # << >> /\ Head(<<c>> \o t) = c
  BY <1>1, OnStack
<1>3. <<c>> \o t = <<c, w>> \o Tail(s)
  <2>1. PICK S : s \in Seq(S)
    BY DEF IsStack
  <2>2. Tail(s) \in Seq(S \cup {c, w}) /\ <<c>> \in Seq(S \cup {c, w}) /\ <<w>> \in Seq(S \cup {c, w})
        /\ <<c, w>> \in Seq(S \cup {c, w})
    BY <2>1
  <2> QED BY <2>2
<1> QED BY <1>2, <1>3

-----------------------------------------------------------------------------
(* Steps *)

LEMMA FirstIsCall ==
    ASSUME UnwindInv, Running
    PROVE  "call" \in DOMAIN Waiting
<1>1. IsStack(calls) /\ calls # << >>
  BY DEF UnwindInv, Running
<1>2. 1 \in 1..Len(calls) /\ Head(calls) = calls[1]
  BY <1>1 DEF IsStack
<1> QED BY <1>1, <1>2 DEF IsStack, Waiting

(* The first call returns: the one below waits for what it returns.        *)
LEMMA ReturnKeeps ==
    ASSUME UnwindInv, Running, NEW STATE o, IsError(o) => Waiting.call \notin GivesList, Return(o)
    PROVE  UnwindInv'
<1>1. IsStack(calls) /\ calls # << >>
  BY DEF UnwindInv, Running
<1>2. calls' = Tail(calls) /\ object' = o
  BY DEF Return
<1>3. IsStack(calls') /\ (calls' # << >> => WaitsFor(Head(calls'), Waiting))
  BY <1>1, <1>2, TailOfStack DEF Waiting
<1>4. calls' # << >> => CanReceive(Head(calls'), o)
  BY <1>3 DEF WaitsFor, CanReceive
<1>5. IsStack(calls)' /\ (calls' # << >> => CanReceive(Head(calls'), object'))
  BY <1>2, <1>3, <1>4 DEF IsStack
<1> QED BY <1>5 DEF UnwindInv, CanReceive, IsError

(* Another call takes the place of the first, ...                          *)
LEMMA ReplaceOne ==
    ASSUME UnwindInv, Running, ~IsError(object), NEW STATE c, "call" \in DOMAIN c,
           c.call \in GivesList <=> Waiting.call \in GivesList, Replace(<<c>>)
    PROVE  UnwindInv'
<1>1. IsStack(calls) /\ calls # << >>
  BY DEF UnwindInv, Running
<1>2. calls' = <<c>> \o Tail(calls) /\ object' = object
  BY DEF Replace
<1>3. IsStack(<<c>> \o Tail(calls))
  BY <1>1, OneForTheFirst DEF Waiting
<1>4. IsStack(calls)' /\ ~IsError(object)'
  BY <1>2, <1>3 DEF IsStack, IsError
<1> QED BY <1>4 DEF UnwindInv, CanReceive

(* ... or two, one of which waits for the other.                           *)
LEMMA ReplaceTwo ==
    ASSUME UnwindInv, Running, ~IsError(object),
           NEW STATE c, "call" \in DOMAIN c, NEW STATE w, "call" \in DOMAIN w, WaitsFor(w, c),
           w.call \in GivesList <=> Waiting.call \in GivesList, Replace(<<c, w>>)
    PROVE  UnwindInv'
<1>1. IsStack(calls) /\ calls # << >>
  BY DEF UnwindInv, Running
<1>2. calls' = <<c, w>> \o Tail(calls) /\ object' = object
  BY DEF Replace
<1>3. IsStack(<<c, w>> \o Tail(calls))
  BY <1>1, TwoForTheFirst DEF Waiting
<1>4. IsStack(calls)' /\ ~IsError(object)'
  BY <1>2, <1>3 DEF IsStack, IsError
<1> QED BY <1>4 DEF UnwindInv, CanReceive

LEMMA StopKeeps ==
    ASSUME NEW how, how # "running", Stop(how)
    PROVE  UnwindInv'
BY DEF Stop, UnwindInv

(* The nested call c of a node, and the rest of the function under a name. *)
WaitsAs(c, name) ==
    \E w : "call" \in DOMAIN w /\ w.call = name /\ Replace(<< c, w >>)

LEMMA WaitsAsItWas ==
    ASSUME UnwindInv, Running, NEW STATE c
    PROVE  /\ \A name : Wait(c, name) => WaitsAs(c, name)
           /\ \A name, o : WaitWith(c, name, o) => WaitsAs(c, name)
           /\ \A name : Replace(<< c, [Waiting EXCEPT !.call = name, !.node = Tail(@)] >>)
                            => WaitsAs(c, name)
           /\ Replace(<< c, [Waiting EXCEPT !.node = Tail(@)] >>) => WaitsAs(c, Waiting.call)
<1> DEFINE A(name) == [Waiting EXCEPT !.call = name]
           B(name, o) == [Waiting EXCEPT !.call = name, !.kept = Append(@, o)]
           C(name) == [Waiting EXCEPT !.call = name, !.node = Tail(@)]
           D == [Waiting EXCEPT !.node = Tail(@)]
<1>1. /\ \A name : "call" \in DOMAIN A(name) /\ A(name).call = name
      /\ \A name, o : "call" \in DOMAIN B(name, o) /\ B(name, o).call = name
      /\ \A name : "call" \in DOMAIN C(name) /\ C(name).call = name
      /\ "call" \in DOMAIN D /\ D.call = Waiting.call
  BY FirstIsCall
<1>2. /\ \A name : Wait(c, name) => Replace(<< c, A(name) >>)
      /\ \A name, o : WaitWith(c, name, o) => Replace(<< c, B(name, o) >>)
  BY Zenon DEF Wait, WaitWith
<1> QED BY <1>1, <1>2, Zenon DEF WaitsAs

LEMMA WaitKeeps ==
    ASSUME UnwindInv, Running, ~IsError(object),
           NEW STATE c, "call" \in DOMAIN c, NEW STATE name, name \notin Fresh,
           name \in TakesList <=> c.call \in GivesList,
           name \in GivesList <=> Waiting.call \in GivesList,
           WaitsAs(c, name)
    PROVE  UnwindInv'
<1>1. PICK w : "call" \in DOMAIN w /\ w.call = name /\ Replace(<<c, w>>)
  BY DEF WaitsAs
<1> QED BY <1>1, ReplaceTwo DEF WaitsFor

-----------------------------------------------------------------------------
(* Actions *)

LEMMA NoErrorAt ==
    ASSUME UnwindInv, NEW names, At(names), names \subseteq Fresh \cup TakesList \cup IsErrorChecked
    PROVE  ~IsError(object) /\ Waiting.call \in names /\ Running
BY DEF UnwindInv, At, Running, Waiting, CanReceive

LEMMA NodesAreCalls ==
    ASSUME NEW STATE n, NEW STATE e
    PROVE  /\ "call" \in DOMAIN Eval(n, e) /\ Eval(n, e).call = "eval"
           /\ "call" \in DOMAIN Block(n, e) /\ Block(n, e).call = "block"
           /\ "call" \in DOMAIN Expressions(n) /\ Expressions(n).call = "expressions"
           /\ "call" \in DOMAIN Pairs(n, e) /\ Pairs(n, e).call = "pairs"
           /\ "call" \in DOMAIN Unwrap /\ Unwrap.call = "unwrap"
BY DEF Eval, Block, Expressions, Pairs, Unwrap

LEMMA BlocksKeep ==
    ASSUME UnwindInv, BeginBlock \/ NextInBlock \/ UnwrapReturnValue
    PROVE  UnwindInv'
<1> DEFINE c == Eval(Head(Waiting.node), Env)
<1>c. "call" \in DOMAIN c /\ c.call = "eval"
  BY NodesAreCalls, Zenon
<1>1. CASE BeginBlock
  <2>1. ~IsError(object) /\ Waiting.call = "block" /\ Running
    BY <1>1, NoErrorAt DEF BeginBlock, Fresh
  <2>2. \/ Stop("undefined")
        \/ Replace(<< c, [Waiting EXCEPT !.call = "nextInBlock", !.node = Tail(@)] >>)
    BY <1>1, Zenon DEF BeginBlock
  <2>3. Stop("undefined") \/ WaitsAs(c, "nextInBlock")
    BY <2>1, <2>2, WaitsAsItWas, Zenon
  <2> HIDE DEF c
  <2> QED BY <1>c, <2>1, <2>3, StopKeeps, WaitKeeps DEF Fresh, TakesList, GivesList
<1>2. CASE NextInBlock
  <2>1. Running /\ Waiting.call = "nextInBlock"
    BY <1>2 DEF NextInBlock, At
  <2>2. CASE Return(object)
    BY <2>1, <2>2, ReturnKeeps DEF GivesList
  <2>3. CASE ~Return(object)
    <3>1. ~IsError(object) /\ Replace(<< c, [Waiting EXCEPT !.node = Tail(@)] >>)
      <4>1. /\ ~(object.t \in {"RETURN_VALUE", "ERROR"})
            /\ Replace(<< c, [Waiting EXCEPT !.node = Tail(@)] >>)
        BY <1>2, <2>3, Zenon DEF NextInBlock
      <4> QED BY <4>1, Zenon DEF IsError
    <3>2. WaitsAs(c, "nextInBlock")
      BY <2>1, <3>1, WaitsAsItWas, Zenon
    <3> HIDE DEF c
    <3> QED BY <1>c, <2>1, <3>1, <3>2, WaitKeeps DEF Fresh, TakesList, GivesList
  <2> QED BY <2>2, <2>3
<1>3. CASE UnwrapReturnValue
  <2>1. Running /\ Waiting.call = "unwrap"
    BY <1>3 DEF UnwrapReturnValue, At
  <2>2. \E o : Return(o)
    BY <1>3 DEF UnwrapReturnValue
  <2> QED BY <2>1, <2>2, ReturnKeeps DEF GivesList
<1> QED BY <1>1, <1>2, <1>3

(* What the other calls do: they end, ask, or become another call.         *)
Receivers == IsErrorChecked
Concludes == (\E o : Return(o)) \/ Stop("undefined") \/ Stop("exited")
Asks == \E c, name : /\ "call" \in DOMAIN c /\ name \notin Fresh \cup GivesList
                     /\ name \in TakesList <=> c.call \in GivesList
                     /\ WaitsAs(c, name)
Becomes == \E c : "call" \in DOMAIN c /\ c.call \notin GivesList /\ Replace(<< c >>)
Moves == Concludes \/ Asks \/ Becomes

LEMMA MovesKeep ==
    ASSUME UnwindInv, Running, Waiting.call \notin GivesList,
           Concludes \/ (~IsError(object) /\ Moves)
    PROVE  UnwindInv'
<1>1. CASE Concludes
  BY <1>1, ReturnKeeps, StopKeeps DEF Concludes
<1>2. CASE Asks /\ ~IsError(object)
  <2>1. PICK c, name : /\ "call" \in DOMAIN c /\ name \notin Fresh \cup GivesList
                       /\ name \in TakesList <=> c.call \in GivesList
                       /\ WaitsAs(c, name)
    BY <1>2, Zenon DEF Asks
  <2> QED BY <1>2, <2>1, WaitKeeps
<1>3. CASE Becomes /\ ~IsError(object)
  <2>1. PICK c : "call" \in DOMAIN c /\ c.call \notin GivesList /\ Replace(<< c >>)
    BY <1>3, Zenon DEF Becomes
  <2> QED BY <1>3, <2>1, ReplaceOne
<1> QED BY <1>1, <1>2, <1>3 DEF Moves

LEMMA YieldEnds ==
    ASSUME NEW STATE o, Yield(o)
    PROVE  Concludes
<1>1. Return(o) \/ Stop("undefined") \/ Stop("exited")
  BY DEF Yield
<1> QED BY <1>1, Zenon DEF Concludes

LEMMA AsksForObject ==
    ASSUME UnwindInv, Running, NEW STATE n, NEW STATE name, name \in Receivers,
           Wait(Eval(n, Env), name) \/ \E o : WaitWith(Eval(n, Env), name, o)
    PROVE  Moves
<1> DEFINE c == Eval(n, Env)
<1>1. "call" \in DOMAIN c /\ c.call = "eval"
  BY NodesAreCalls, Zenon
<1>2. WaitsAs(c, name)
  BY WaitsAsItWas, Zenon
<1> HIDE DEF c
<1>3. name \notin Fresh \cup GivesList /\ (name \in TakesList <=> c.call \in GivesList)
  BY <1>1 DEF Receivers, IsErrorChecked, AllButLeft, Fresh, GivesList, TakesList
<1> QED BY <1>1, <1>2, <1>3, Zenon DEF Moves, Asks

LEMMA AsksForList ==
    ASSUME UnwindInv, Running, NEW STATE n, NEW STATE name, name \in TakesList,
           Wait(Expressions(n), name) \/ \E o : WaitWith(Expressions(n), name, o)
    PROVE  Moves
<1> DEFINE c == Expressions(n)
<1>1. "call" \in DOMAIN c /\ c.call = "expressions"
  BY NodesAreCalls, Zenon
<1>2. WaitsAs(c, name)
  BY WaitsAsItWas, Zenon
<1> HIDE DEF c
<1>3. name \notin Fresh \cup GivesList /\ (name \in TakesList <=> c.call \in GivesList)
  BY <1>1 DEF Fresh, GivesList, TakesList
<1> QED BY <1>1, <1>2, <1>3, Zenon DEF Moves, Asks

LEMMA BecomesCall ==
    ASSUME NEW STATE n, NEW STATE x,
           Replace(<< Eval(n, Env) >>) \/ Replace(<< Block(n, Env) >>) \/ Replace(<< Pairs(n, x) >>)
    PROVE  Moves
<1>1. /\ "call" \in DOMAIN Eval(n, Env) /\ Eval(n, Env).call \notin GivesList
      /\ "call" \in DOMAIN Block(n, Env) /\ Block(n, Env).call \notin GivesList
      /\ "call" \in DOMAIN Pairs(n, x) /\ Pairs(n, x).call \notin GivesList
  BY NodesAreCalls DEF GivesList
<1> QED BY <1>1, Zenon DEF Moves, Becomes

LEMMA Entered ==
    ASSUME UnwindInv, NEW types, Entering(types)
    PROVE  Running /\ Waiting.call \notin GivesList /\ ~IsError(object)
<1>1. At({"eval"})
  BY DEF Entering
<1> QED BY <1>1, NoErrorAt DEF Fresh, GivesList

LEMMA Received ==
    ASSUME UnwindInv, NEW names, At(names), names \subseteq Receivers \cup TakesList
    PROVE  Running /\ Waiting.call \notin GivesList /\ ~IsError(object)
BY NoErrorAt DEF Receivers, IsErrorChecked, AllButLeft, TakesList, GivesList

LEMMA StatementsKeep ==
    ASSUME UnwindInv, Statement \/ LetBound \/ Returned
    PROVE  UnwindInv'
<1> USE DEF Receivers, IsErrorChecked, AllButLeft
<1>1. CASE Statement
  <2>1. /\ Running /\ Waiting.call \notin GivesList /\ ~IsError(object)
    BY <1>1, Entered, Zenon DEF Statement
  <2>2. \/ Wait(Eval(Waiting.node.value, Env), "bound")
        \/ Wait(Eval(Waiting.node.value, Env), "returned")
        \/ Replace(<< Eval(Waiting.node.value, Env) >>)
    BY <1>1, Zenon DEF Statement
  <2>3. "bound" \in Receivers /\ "returned" \in Receivers
    OBVIOUS
  <2>4. Moves
    BY <2>1, <2>2, <2>3, AsksForObject, BecomesCall, Zenon
  <2> QED BY <2>1, <2>4, MovesKeep, Zenon
<1>2. CASE LetBound
  <2>1. Running /\ Waiting.call \notin GivesList
    BY <1>2, Received DEF LetBound
  <2>2. Concludes
    BY <1>2, Zenon DEF LetBound, Concludes
  <2> QED BY <2>1, <2>2, MovesKeep
<1>3. CASE Returned
  <2>1. Running /\ Waiting.call \notin GivesList
    BY <1>3, Received DEF Returned
  <2>2. Concludes
    BY <1>3, Zenon DEF Returned, Concludes
  <2> QED BY <2>1, <2>2, MovesKeep
<1> QED BY <1>1, <1>2, <1>3

LEMMA OperatorsKeep ==
    ASSUME UnwindInv, Literal \/ Identifier \/ PrefixExpression \/ InfixExpression \/ IfExpression
    PROVE  UnwindInv'
<1>n. {"operand", "left", "right", "condition"} \subseteq Receivers
  BY DEF Receivers, IsErrorChecked, AllButLeft
<1>1. CASE Literal \/ Identifier
  <2>1. Running /\ Waiting.call \notin GivesList
    BY <1>1, Entered, Zenon DEF Literal, Identifier
  <2>2. Concludes
    BY <1>1, Zenon DEF Literal, Identifier, Concludes
  <2> QED BY <2>1, <2>2, MovesKeep, Zenon
<1>2. CASE PrefixExpression
  <2>1. CASE Entering({"PREFIX"}) /\ Wait(Eval(Waiting.node.right, Env), "operand")
    <3>1. Running /\ Waiting.call \notin GivesList /\ ~IsError(object)
      BY <2>1, Entered, Zenon
    <3>2. Moves
      BY <1>n, <2>1, <3>1, AsksForObject
    <3> QED BY <3>1, <3>2, MovesKeep, Zenon
  <2>2. CASE At({"operand"}) /\ Return(Prefix(Waiting.node.operator, object))
    <3>1. Running /\ Waiting.call \notin GivesList
      BY <1>n, <2>2, Received
    <3>2. Concludes
      BY <2>2, Zenon DEF Concludes
    <3> QED BY <3>1, <3>2, MovesKeep, Zenon
  <2> QED BY <1>2, <2>1, <2>2, Zenon DEF PrefixExpression
<1>3. CASE InfixExpression
  <2>1. CASE Entering({"INFIX"}) /\ Wait(Eval(Waiting.node.left, Env), "left")
    <3>1. Running /\ Waiting.call \notin GivesList /\ ~IsError(object)
      BY <2>1, Entered, Zenon
    <3>2. Moves
      BY <1>n, <2>1, <3>1, AsksForObject
    <3> QED BY <3>1, <3>2, MovesKeep, Zenon
  <2>2. CASE At({"left"}) /\ WaitWith(Eval(Waiting.node.right, Env), "right", object)
    <3>1. Running /\ Waiting.call \notin GivesList /\ ~IsError(object)
      BY <1>n, <2>2, Received
    <3>2. Moves
      BY <1>n, <2>2, <3>1, AsksForObject
    <3> QED BY <3>1, <3>2, MovesKeep, Zenon
  <2>3. CASE /\ At({"right"})
             /\ \E outcome \in Infixes(Waiting.node.operator, Waiting.kept[1], object) : Yield(outcome)
    <3>1. Running /\ Waiting.call \notin GivesList
      BY <1>n, <2>3, Received
    <3>2. PICK outcome : Yield(outcome)
      BY <2>3, Zenon
    <3> QED BY <3>1, <3>2, YieldEnds, MovesKeep, Zenon
  <2> QED BY <1>3, <2>1, <2>2, <2>3, Zenon DEF InfixExpression
<1>4. CASE IfExpression
  <2>1. CASE Entering({"IF"}) /\ Wait(Eval(Waiting.node.condition, Env), "condition")
    <3>1. Running /\ Waiting.call \notin GivesList /\ ~IsError(object)
      BY <2>1, Entered, Zenon
    <3>2. Moves
      BY <1>n, <2>1, <3>1, AsksForObject
    <3> QED BY <3>1, <3>2, MovesKeep, Zenon
  <2>2. CASE At({"condition"}) /\ (Return(Null) \/ \E n : Replace(<< Block(n, Env) >>))
    <3>1. Running /\ Waiting.call \notin GivesList /\ ~IsError(object)
      BY <1>n, <2>2, Received
    <3>2. Moves
      BY <2>2, BecomesCall, Zenon DEF Moves, Concludes
    <3> QED BY <3>1, <3>2, MovesKeep, Zenon
  <2> QED BY <1>4, <2>1, <2>2, Zenon DEF IfExpression
<1> QED BY <1>1, <1>2, <1>3, <1>4, Zenon

LEMMA CallsKeep ==
    ASSUME UnwindInv, ArrayLiteral \/ CallExpression \/ ApplyFunction \/ ApplyOther
    PROVE  UnwindInv'
<1>n. "callee" \in Receivers /\ {"elements", "arguments"} \subseteq TakesList
  BY DEF Receivers, IsErrorChecked, AllButLeft, TakesList
<1>1. CASE ArrayLiteral
  <2>1. CASE Entering({"ARRAY"}) /\ Wait(Expressions(Waiting.node.elements), "elements")
    <3>1. Running /\ Waiting.call \notin GivesList /\ ~IsError(object)
      BY <2>1, Entered, Zenon
    <3>2. Moves
      BY <1>n, <2>1, <3>1, AsksForList
    <3> QED BY <3>1, <3>2, MovesKeep, Zenon
  <2>2. CASE At({"elements"}) /\ \E o : Return(o)
    <3>1. Running /\ Waiting.call \notin GivesList
      BY <1>n, <2>2, Received
    <3> QED BY <2>2, <3>1, MovesKeep, Zenon DEF Concludes
  <2> QED BY <1>1, <2>1, <2>2, Zenon DEF ArrayLiteral
<1>2. CASE CallExpression
  <2>1. CASE Entering({"CALL"}) /\ Wait(Eval(Waiting.node.fn, Env), "callee")
    <3>1. Running /\ Waiting.call \notin GivesList /\ ~IsError(object)
      BY <2>1, Entered, Zenon
    <3>2. Moves
      BY <1>n, <2>1, <3>1, AsksForObject
    <3> QED BY <3>1, <3>2, MovesKeep, Zenon
  <2>2. CASE At({"callee"}) /\ WaitWith(Expressions(Waiting.node.args), "arguments", object)
    <3>1. Running /\ Waiting.call \notin GivesList /\ ~IsError(object)
      BY <1>n, <2>2, Received
    <3>2. Moves
      BY <1>n, <2>2, <3>1, AsksForList
    <3> QED BY <3>1, <3>2, MovesKeep, Zenon
  <2> QED BY <1>2, <2>1, <2>2, Zenon DEF CallExpression
<1>3. CASE ApplyFunction
  <2>1. Running /\ Waiting.call \notin GivesList /\ ~IsError(object)
    BY <1>n, <1>3, Received DEF ApplyFunction
  <2>2. CASE \E e : Replace(<< Block(Callee.body, e), Unwrap >>)
    <3>1. PICK e : Replace(<< Block(Callee.body, e), Unwrap >>)
      BY <2>2
    <3> DEFINE c == Block(Callee.body, e)
    <3>2. /\ "call" \in DOMAIN c /\ c.call = "block"
          /\ "call" \in DOMAIN Unwrap /\ Unwrap.call = "unwrap"
      BY NodesAreCalls, Zenon
    <3>3. Replace(<< c, Unwrap >>)
      BY <3>1
    <3> HIDE DEF c
    <3> QED BY <2>1, <3>2, <3>3, ReplaceTwo DEF WaitsFor, Fresh, GivesList, TakesList
  <2>3. CASE Stop("exited")
    BY <2>1, <2>3, MovesKeep, Zenon DEF Concludes
  <2> QED BY <1>3, <2>2, <2>3, Zenon DEF ApplyFunction
<1>4. CASE ApplyOther
  <2>1. Running /\ Waiting.call \notin GivesList
    BY <1>n, <1>4, Received DEF ApplyOther
  <2>2. PICK o : Yield(o)
    BY <1>4, Zenon DEF ApplyOther
  <2> QED BY <2>1, <2>2, YieldEnds, MovesKeep, Zenon
<1> QED BY <1>1, <1>2, <1>3, <1>4, Zenon

(* The two calls that make a list.                                         *)
LEMMA ListsKeep ==
    ASSUME UnwindInv, EvalExpressions \/ AppendObject
    PROVE  UnwindInv'
<1>1. CASE EvalExpressions
  <2> DEFINE c == Eval(Head(Waiting.node), Env)
  <2>c. "call" \in DOMAIN c /\ c.call = "eval"
    BY NodesAreCalls, Zenon
  <2>1. Running /\ Waiting.call = "expressions" /\ ~IsError(object)
    BY <1>1, NoErrorAt DEF EvalExpressions, Fresh
  <2>2. CASE Return(ListOf(Waiting.kept))
    <3>1. ~IsError(ListOf(Waiting.kept))
      BY DEF IsError, ListOf
    <3> QED BY <2>1, <2>2, <3>1, ReturnKeeps, Zenon
  <2>3. CASE Replace(<< c, [Waiting EXCEPT !.call = "expression", !.node = Tail(@)] >>)
    <3>1. WaitsAs(c, "expression")
      BY <2>1, <2>3, WaitsAsItWas, Zenon
    <3> HIDE DEF c
    <3> QED BY <2>c, <2>1, <3>1, WaitKeeps DEF Fresh, TakesList, GivesList
  <2> QED BY <1>1, <2>2, <2>3, Zenon DEF EvalExpressions
<1>2. CASE AppendObject
  <2>1. Running /\ Waiting.call = "expression"
    BY <1>2 DEF AppendObject, At
  <2>2. CASE Stop("undefined") \/ Stop("exited")
    BY <2>2, StopKeeps
  <2>3. CASE Return(ListOf(<<object>>))
    <3>1. ~IsError(ListOf(<<object>>))
      BY DEF IsError, ListOf
    <3> QED BY <2>1, <2>3, <3>1, ReturnKeeps, Zenon
  <2> DEFINE w == [Waiting EXCEPT !.call = "expressions", !.kept = Append(@, object)]
  <2>4. CASE ~IsError(object) /\ Replace(<< w >>)
    <3>1. "call" \in DOMAIN w /\ w.call = "expressions"
      BY <2>1, FirstIsCall
    <3> HIDE DEF w
    <3> QED BY <2>1, <2>4, <3>1, ReplaceOne DEF GivesList
  <2>5. \/ Stop("undefined") \/ Stop("exited") \/ Return(ListOf(<<object>>))
        \/ ~IsError(object) /\ Replace(<< w >>)
    <3>1. CASE IsError(object) /\ Waiting.kept = << >>
      BY <1>2, <3>1, Zenon DEF AppendObject
    <3>2. CASE IsError(object) /\ Waiting.kept # << >>
      BY <1>2, <3>2, Zenon DEF AppendObject
    <3>3. CASE ~IsError(object) /\ ~Copyable(object)
      BY <1>2, <3>3, Zenon DEF AppendObject
    <3>4. CASE ~IsError(object) /\ Copyable(object)
      BY <1>2, <3>4, Zenon DEF AppendObject
    <3> QED BY <3>1, <3>2, <3>3, <3>4, Zenon
  <2> QED BY <2>2, <2>3, <2>4, <2>5, Zenon
<1> QED BY <1>1, <1>2

LEMMA IndexKeeps ==
    ASSUME UnwindInv, IndexExpression
    PROVE  UnwindInv'
<1>n. {"indexed", "index"} \subseteq Receivers
  BY DEF Receivers, IsErrorChecked, AllButLeft
<1>1. CASE Entering({"INDEX"}) /\ Wait(Eval(Waiting.node.left, Env), "indexed")
  <2>1. Running /\ Waiting.call \notin GivesList /\ ~IsError(object)
    BY <1>1, Entered, Zenon
  <2>2. Moves
    BY <1>n, <1>1, <2>1, AsksForObject
  <2> QED BY <2>1, <2>2, MovesKeep, Zenon
<1>2. CASE At({"indexed"}) /\ WaitWith(Eval(Waiting.node.index, Env), "index", object)
  <2>1. Running /\ Waiting.call \notin GivesList /\ ~IsError(object)
    BY <1>n, <1>2, Received
  <2>2. Moves
    BY <1>n, <1>2, <2>1, AsksForObject
  <2> QED BY <2>1, <2>2, MovesKeep, Zenon
<1>3. CASE At({"index"}) /\ \E o : Return(o)
  <2>1. Running /\ Waiting.call \notin GivesList
    BY <1>n, <1>3, Received
  <2> QED BY <1>3, <2>1, MovesKeep, Zenon DEF Concludes
<1> QED BY <1>1, <1>2, <1>3, Zenon DEF IndexExpression

LEMMA HashKeeps ==
    ASSUME UnwindInv, HashLiteral
    PROVE  UnwindInv'
<1>n. {"key", "value"} \subseteq Receivers
  BY DEF Receivers, IsErrorChecked, AllButLeft
<1>1. CASE Entering({"HASH"}) /\ Replace(<< Pairs(Waiting.node.pairs, << >>) >>)
  <2>1. Running /\ Waiting.call \notin GivesList /\ ~IsError(object)
    BY <1>1, Entered, Zenon
  <2>2. Moves
    BY <1>1, BecomesCall, Zenon
  <2> QED BY <2>1, <2>2, MovesKeep, Zenon
<1>2. CASE At({"pairs"}) /\ ((\E o : Return(o)) \/ \E n : Wait(Eval(n, Env), "key"))
  <2>1. Running /\ Waiting.call \notin GivesList /\ ~IsError(object)
    BY <1>2, NoErrorAt DEF Fresh, GivesList
  <2>2. Moves
    BY <1>n, <1>2, <2>1, AsksForObject, Zenon DEF Moves, Concludes
  <2> QED BY <2>1, <2>2, MovesKeep, Zenon
<1>3. CASE /\ At({"key"})
           /\ \/ WaitWith(Eval(Head(Waiting.node)[2], Env), "value", object)
              \/ Return(Error)
  <2>1. Running /\ Waiting.call \notin GivesList /\ ~IsError(object)
    BY <1>n, <1>3, Received
  <2>2. Moves
    BY <1>n, <1>3, <2>1, AsksForObject, Zenon DEF Moves, Concludes
  <2> QED BY <2>1, <2>2, MovesKeep, Zenon
<1>4. CASE At({"value"}) /\ ((\E n, x : Replace(<< Pairs(n, x) >>)) \/ Stop("exited"))
  <2>1. Running /\ Waiting.call \notin GivesList /\ ~IsError(object)
    BY <1>n, <1>4, Received
  <2>2. Moves
    BY <1>4, BecomesCall, Zenon DEF Moves, Concludes
  <2> QED BY <2>1, <2>2, MovesKeep, Zenon
<1> QED BY <1>1, <1>2, <1>3, <1>4, Zenon DEF HashLiteral

-----------------------------------------------------------------------------
(* The specification *)

LEMMA NextKeeps ==
    ASSUME UnwindInv, NextEvaluator
    PROVE  UnwindInv'
<1>1. CASE EndProgram
  <2>1. evaluation' # "running"
    BY <1>1 DEF EndProgram
  <2> QED BY <2>1 DEF UnwindInv
<1>2. CASE PassError
  <2>1. Running /\ Waiting.call \notin GivesList
    BY <1>2 DEF PassError, GivesList, IsErrorChecked, AllButLeft
  <2>2. Concludes
    BY <1>2, Zenon DEF PassError, Concludes
  <2> QED BY <2>1, <2>2, MovesKeep, Zenon
<1> QED BY <1>1, <1>2, BlocksKeep, StatementsKeep, OperatorsKeep, CallsKeep, ListsKeep, IndexKeeps,
           HashKeeps, Zenon DEF NextEvaluator

LEMMA BeginKeeps ==
    ASSUME NEW program, BeginProgram(program)
    PROVE  UnwindInv'
<1> DEFINE c == Block(program, 1)
           s == << c, Unwrap >>
<1>1. /\ "call" \in DOMAIN c /\ c.call = "block"
      /\ "call" \in DOMAIN Unwrap /\ Unwrap.call = "unwrap"
  BY NodesAreCalls, Zenon
<1>2. calls' = s /\ object' = Garbage
  BY DEF BeginProgram
<1> HIDE DEF c
<1>3. WaitsFor(Unwrap, c)
  BY <1>1 DEF WaitsFor, Fresh, TakesList, GivesList
<1>4. s \in Seq({c, Unwrap}) /\ Len(s) = 2 /\ s[1] = c /\ s[2] = Unwrap
  OBVIOUS
<1> HIDE DEF s
<1>5. IsStack(s)
  <2>1. \E S : s \in Seq(S)
    BY <1>4
  <2>2. \A k \in 1..Len(s) : k = 1 \/ k = 2
    BY <1>4
  <2>3. \A k \in 2..Len(s) : k = 2 /\ k - 1 = 1
    BY <1>4
  <2>4. \A k \in 1..Len(s) : "call" \in DOMAIN s[k]
    BY <1>1, <1>4, <2>2
  <2>5. \A k \in 2..Len(s) : WaitsFor(s[k], s[k - 1])
    BY <1>3, <1>4, <2>3
  <2>6. s[Len(s)].call \notin GivesList
    BY <1>1, <1>4 DEF GivesList
  <2> QED BY <2>1, <2>4, <2>5, <2>6 DEF IsStack
<1>6. IsStack(calls)' /\ ~IsError(object)'
  BY <1>2, <1>5 DEF IsStack, IsError, Garbage
<1> QED BY <1>6 DEF UnwindInv, CanReceive

LEMMA UnwindInductive ==
    ASSUME UnwindInv, [NextEvaluator \/ \E program \in Lines : BeginProgram(program)]_evaluatorVars
    PROVE  UnwindInv'
<1>1. CASE UNCHANGED evaluatorVars
  BY <1>1 DEF evaluatorVars, UnwindInv, IsStack, CanReceive, IsError
<1> QED BY <1>1, NextKeeps, BeginKeeps

(* A call that has received an error returns it and does nothing else.  Of *)
(* those that could do otherwise, none is there to receive it.             *)
LEMMA ErrorStep ==
    ASSUME UnwindInv, Failing, calls # << >>,
           [NextEvaluator \/ \E program \in Lines : BeginProgram(program)]_evaluatorVars
    PROVE  UNCHANGED evaluatorVars \/ Unwinds
<1> DEFINE names == Fresh \cup TakesList \cup IsErrorChecked
           Begins == \E program \in Lines : BeginProgram(program)
<1> USE DEF Unwinds
<1>1. \A ns : At(ns) => ~(ns \subseteq names)
  BY NoErrorAt, Zenon DEF Failing
<1>2. ~Begins /\ ~EndProgram /\ evaluation = "running" /\ IsError(object)
  BY DEF Failing, BeginProgram, EndProgram
<1>3. \A types : ~Entering(types)
  BY <1>1 DEF Entering, Fresh
<1>4. /\ ~At({"block"}) /\ ~At({"expressions"}) /\ ~At({"pairs"}) /\ ~At({"elements"})
      /\ ~At({"arguments"}) /\ ~At({"bound"}) /\ ~At({"returned"}) /\ ~At({"operand"})
      /\ ~At({"left"}) /\ ~At({"right"}) /\ ~At({"condition"}) /\ ~At({"callee"})
      /\ ~At({"indexed"}) /\ ~At({"index"}) /\ ~At({"key"}) /\ ~At({"value"})
  BY <1>1 DEF Fresh, TakesList, IsErrorChecked, AllButLeft
<1>5. PassError => Unwinds
  BY DEF PassError, Return, evaluatorVars
<1>6. NextInBlock => Unwinds
  <2> SUFFICES ASSUME NextInBlock PROVE Unwinds
    OBVIOUS
  <2>1. object.t \in {"RETURN_VALUE", "ERROR"}
    BY <1>2 DEF IsError
  <2>2. Return(object) /\ UNCHANGED envs
    BY <2>1, Zenon DEF NextInBlock
  <2> QED BY <2>2 DEF Return
<1>7. UnwrapReturnValue => Unwinds
  BY DEF UnwrapReturnValue, Return
<1>8. AppendObject => Unwinds
  <2> SUFFICES ASSUME AppendObject PROVE Unwinds
    OBVIOUS
  <2>1. UNCHANGED envs
    BY Zenon DEF AppendObject
  <2>2. CASE Waiting.kept = << >>
    <3>1. Stop("undefined")
      BY <1>2, <2>2, Zenon DEF AppendObject
    <3> QED BY <2>1, <3>1 DEF Stop
  <2>3. CASE Waiting.kept # << >>
    <3>1. Return(ListOf(<<object>>))
      BY <1>2, <2>3, Zenon DEF AppendObject
    <3> QED BY <2>1, <3>1 DEF Return
  <2> QED BY <2>2, <2>3
<1>9. ~BeginBlock /\ ~Statement /\ ~LetBound /\ ~Returned /\ ~Literal /\ ~Identifier
  BY <1>3, <1>4, Zenon DEF BeginBlock, Statement, LetBound, Returned, Literal, Identifier
<1>10. ~PrefixExpression /\ ~InfixExpression /\ ~IfExpression /\ ~EvalExpressions /\ ~ArrayLiteral
  BY <1>3, <1>4, Zenon DEF PrefixExpression, InfixExpression, IfExpression, EvalExpressions,
     ArrayLiteral
<1>11. ~CallExpression /\ ~ApplyFunction /\ ~ApplyOther /\ ~IndexExpression /\ ~HashLiteral
  BY <1>3, <1>4, Zenon DEF CallExpression, ApplyFunction, ApplyOther, IndexExpression, HashLiteral
<1> HIDE DEF Unwinds
<1> QED
  BY <1>2, <1>5, <1>6, <1>7, <1>8, <1>9, <1>10, <1>11, Zenon DEF NextEvaluator

(* A line in which something has failed comes to its end with nothing else *)
(* done: no name bound, no function called, no error lost on the way.      *)
THEOREM ErrorsAreNotLost == SpecEvaluator => ErrorsUnwind
<1>1. InitEvaluator => UnwindInv
  BY DEF InitEvaluator, UnwindInv
<1>2. UnwindInv /\ [NextEvaluator \/ \E program \in Lines : BeginProgram(program)]_evaluatorVars
        => UnwindInv'
  BY UnwindInductive
<1>3. UnwindInv /\ [NextEvaluator \/ \E program \in Lines : BeginProgram(program)]_evaluatorVars
        => [Failing /\ calls # << >> => Unwinds]_evaluatorVars
  BY ErrorStep
<1> QED BY <1>1, <1>2, <1>3, PTL DEF SpecEvaluator, ErrorsUnwind
-----------------------------------------------------------------------------
(* Values *)

Values == ObjectTypes \ {"ERROR"}

(* What a value is made of is in V; a function has one of n environments.  *)
MadeOf(v, V, n) ==
    /\ v.t \in Values
    /\ v.t = "FUNCTION" => v.env \in 1..n
    /\ v.t = "RETURN_VALUE" => v.object \in V
    /\ v.t = "ARRAY" => IsSequence(v.elements) /\ \A i \in 1..Len(v.elements) : v.elements[i] \in V
    /\ v.t = "HASH" => /\ IsSequence(v.pairs)
                       /\ \A i \in DOMAIN v.pairs : v.pairs[i][1] \in V /\ v.pairs[i][2] \in V

(* A proper value is one of a set of values made of each other: there is   *)
(* no error in it, at any depth, and nothing that is no object.            *)
Store(V, n) == \A v \in V : MadeOf(v, V, n)
Proper(v, n) == \E V : v \in V /\ Store(V, n)

LEMMA MadeOfMore ==
    ASSUME NEW v, NEW V, NEW n \in Nat, MadeOf(v, V, n), NEW W, V \subseteq W, NEW m \in Nat, n <= m
    PROVE  MadeOf(v, W, m)
BY DEF MadeOf

LEMMA ProperMore ==
    ASSUME NEW v, NEW n \in Nat, Proper(v, n), NEW m \in Nat, n <= m
    PROVE  Proper(v, m)
<1>1. PICK V : v \in V /\ Store(V, n)
  BY DEF Proper
<1>2. ASSUME NEW w \in V PROVE MadeOf(w, V, m)
  BY <1>1, MadeOfMore DEF Store
<1> QED BY <1>1, <1>2 DEF Proper, Store

LEMMA Gathered ==
    ASSUME NEW S, NEW n \in Nat, \A s \in S : Proper(s, n)
    PROVE  \E V : S \subseteq V /\ Store(V, n)
<1> DEFINE Around(s) == CHOOSE V : s \in V /\ Store(V, n)
           U == UNION {Around(s) : s \in S}
<1>1. ASSUME NEW s \in S PROVE s \in Around(s) /\ Store(Around(s), n)
  BY <1>1, Zenon DEF Proper
<1> HIDE DEF Around
<1>2. S \subseteq U
  BY <1>1
<1>3. ASSUME NEW v \in U PROVE MadeOf(v, U, n)
  <2>1. PICK s \in S : v \in Around(s)
    OBVIOUS
  <2>2. MadeOf(v, Around(s), n)
    BY <1>1, <2>1 DEF Store
  <2>3. Around(s) \subseteq U
    OBVIOUS
  <2> HIDE DEF U
  <2> QED BY <2>2, <2>3, MadeOfMore
<1> HIDE DEF U
<1> QED BY <1>2, <1>3, Zenon DEF Store

LEMMA ProperMade ==
    ASSUME NEW S, NEW n \in Nat, \A s \in S : Proper(s, n), NEW v, MadeOf(v, S, n)
    PROVE  Proper(v, n)
<1>1. PICK V : S \subseteq V /\ Store(V, n)
  BY Gathered
<1> DEFINE W == V \cup {v}
<1>2. MadeOf(v, W, n)
  BY <1>1, MadeOfMore
<1>3. ASSUME NEW w \in V PROVE MadeOf(w, W, n)
  BY <1>1, MadeOfMore DEF Store
<1>4. Store(W, n)
  BY <1>2, <1>3 DEF Store
<1> QED BY <1>4, Zenon DEF Proper

LEMMA ProperParts ==
    ASSUME NEW v, NEW n \in Nat, Proper(v, n)
    PROVE  /\ v.t \in Values
           /\ v.t = "FUNCTION" => v.env \in 1..n
           /\ v.t = "RETURN_VALUE" => Proper(v.object, n)
           /\ v.t = "ARRAY" => /\ IsSequence(v.elements)
                               /\ \A i \in 1..Len(v.elements) : Proper(v.elements[i], n)
           /\ v.t = "HASH" => /\ IsSequence(v.pairs)
                              /\ \A i \in DOMAIN v.pairs : /\ Proper(v.pairs[i][1], n)
                                                           /\ Proper(v.pairs[i][2], n)
<1>1. PICK V : v \in V /\ Store(V, n)
  BY DEF Proper
<1>2. MadeOf(v, V, n)
  BY <1>1 DEF Store
<1>3. \A w \in V : Proper(w, n)
  BY <1>1 DEF Proper
<1> QED BY <1>2, <1>3 DEF MadeOf

Scalars == Values \ {"FUNCTION", "RETURN_VALUE", "ARRAY", "HASH"}

LEMMA ProperScalar ==
    ASSUME NEW v, v.t \in Scalars, NEW n \in Nat
    PROVE  Proper(v, n)
<1>1. MadeOf(v, {}, n)
  BY DEF MadeOf, Scalars
<1> QED BY <1>1, ProperMade

LEMMA ProperFunction ==
    ASSUME NEW n \in Nat, NEW fn, NEW e \in 1..n
    PROVE  Proper(Function(fn, e), n)
<1>1. Function(fn, e).t = "FUNCTION" /\ Function(fn, e).env = e
  BY DEF Function
<1>2. MadeOf(Function(fn, e), {}, n)
  BY <1>1 DEF MadeOf, Values, ObjectTypes
<1> QED BY <1>2, ProperMade

LEMMA ProperWrapped ==
    ASSUME NEW n \in Nat, NEW o, Proper(o, n)
    PROVE  Proper(Wrapped(o), n)
<1>1. Wrapped(o).t = "RETURN_VALUE" /\ Wrapped(o).object = o
  BY DEF Wrapped
<1>2. MadeOf(Wrapped(o), {o}, n)
  BY <1>1 DEF MadeOf, Values, ObjectTypes
<1> QED BY <1>2, ProperMade

(* A sequence of proper values, and one of pairs of them.                  *)
AllProper(vs, n) == IsSequence(vs) /\ \A i \in 1..Len(vs) : Proper(vs[i], n)
PairsProper(ps, n) ==
    IsSequence(ps) /\ \A i \in 1..Len(ps) : Proper(ps[i][1], n) /\ Proper(ps[i][2], n)

LEMMA ProperArray ==
    ASSUME NEW n \in Nat, NEW es, AllProper(es, n)
    PROVE  Proper(ArrayOf(es), n)
<1> DEFINE S == {es[i] : i \in 1..Len(es)}
<1>1. ArrayOf(es).t = "ARRAY" /\ ArrayOf(es).elements = es
  BY DEF ArrayOf
<1>2. MadeOf(ArrayOf(es), S, n)
  BY <1>1 DEF MadeOf, Values, ObjectTypes, AllProper
<1> QED BY <1>2, ProperMade DEF AllProper

LEMMA ProperHash ==
    ASSUME NEW n \in Nat, NEW pairs, PairsProper(pairs, n)
    PROVE  Proper(HashOf(pairs), n)
<1> DEFINE S == {pairs[i][1] : i \in DOMAIN pairs} \cup {pairs[i][2] : i \in DOMAIN pairs}
<1>1. HashOf(pairs).t = "HASH" /\ HashOf(pairs).pairs = pairs
  BY DEF HashOf
<1>2. IsSequence(pairs) /\ DOMAIN pairs = 1..Len(pairs)
  BY SequenceForm DEF PairsProper
<1>3. MadeOf(HashOf(pairs), S, n)
  BY <1>1, <1>2 DEF MadeOf, Values, ObjectTypes
<1>4. \A s \in S : Proper(s, n)
  BY <1>2 DEF PairsProper
<1> QED BY <1>3, <1>4, ProperMade

LEMMA AllProperMore ==
    ASSUME NEW n \in Nat, NEW m \in Nat, n <= m, NEW s
    PROVE  (AllProper(s, n) => AllProper(s, m)) /\ (PairsProper(s, n) => PairsProper(s, m))
BY ProperMore DEF AllProper, PairsProper

LEMMA OneMore ==
    ASSUME NEW n \in Nat, NEW vs, AllProper(vs, n), NEW v, Proper(v, n)
    PROVE  AllProper(Append(vs, v), n)
<1>1. IsSequence(vs)
  BY DEF AllProper
<1>2. /\ IsSequence(Append(vs, v)) /\ Len(Append(vs, v)) = Len(vs) + 1 /\ Len(vs) \in Nat
      /\ \A i \in 1..Len(vs) : Append(vs, v)[i] = vs[i]
      /\ Append(vs, v)[Len(vs) + 1] = v
  BY <1>1, SequenceAppend, SequenceForm
<1>3. ASSUME NEW i \in 1..Len(vs) + 1 PROVE Proper(Append(vs, v)[i], n)
  <2>1. i \in 1..Len(vs) \/ i = Len(vs) + 1
    BY <1>2
  <2> QED BY <1>2, <2>1 DEF AllProper
<1> QED BY <1>2, <1>3 DEF AllProper

(* In a set of objects that holds their parts, no pointer is missing.      *)
LEMMA ClosedWhole ==
    ASSUME NEW V, NEW o \in V, \A v \in V : IsObject(v) /\ Parts(v) \subseteq V
    PROVE  ~Dangling(o)
<1> DEFINE f == CHOOSE g : IsLevels(o, g, MaxNesting)
<1>3. MaxNesting \in Nat
  BY DEF MaxNesting
<1>4. f = Levels(o, f, MaxNesting)
  BY <1>3, LevelsExist, Zenon DEF IsLevels
<1>5. Contents(o) = UNION {f[d] : d \in 0..MaxNesting}
  BY Zenon DEF Contents, IsLevels, Levels
<1> HIDE DEF f
<1> DEFINE Beyond == {d \in 0..MaxNesting : ~(f[d] \subseteq V)}
<1>6. Beyond = {}
  <2>1. SUFFICES ASSUME Beyond # {} PROVE FALSE
    OBVIOUS
  <2>2. PICK d \in Beyond : \A k \in Beyond : d <= k
    <3>1. Beyond \subseteq Nat
      BY <1>3
    <3> QED BY <2>1, <3>1, LeastNumber, Zenon
  <2>3. d \in 0..MaxNesting
    OBVIOUS
  <2>4. f[d] = IF d = 0 THEN {o} ELSE UNION {Parts(v) : v \in f[d-1]}
    BY <1>4, <2>3 DEF Levels
  <2>5. CASE d = 0
    BY <2>4, <2>5
  <2>6. CASE d # 0
    <3>1. d - 1 \in 0..MaxNesting /\ ~(d <= d - 1)
      BY <1>3, <2>3, <2>6
    <3>2. f[d-1] \subseteq V
      BY <2>2, <3>1
    <3> QED BY <2>4, <2>6, <3>2
  <2> QED BY <2>5, <2>6
<1>7. \A v \in Contents(o) : IsObject(v)
  BY <1>5, <1>6
<1> QED BY <1>7 DEF Dangling

(* A proper value is whole: whatever is in it is an object.                *)
LEMMA ProperWhole ==
    ASSUME NEW o, NEW n \in Nat, Proper(o, n)
    PROVE  ~Dangling(o) /\ IsObject(o)
<1>1. PICK V : o \in V /\ Store(V, n)
  BY DEF Proper
<1>2. ASSUME NEW v \in V PROVE IsObject(v) /\ Parts(v) \subseteq V
  <2>1. MadeOf(v, V, n)
    BY <1>1 DEF Store
  <2>2. IsObject(v)
    BY <2>1 DEF MadeOf, Values, ObjectTypes, IsObject
  <2>3. v.t = "ARRAY" => DOMAIN v.elements = 1..Len(v.elements)
    BY <2>1, SequenceForm DEF MadeOf
  <2>4. Parts(v) \subseteq V
    BY <2>1, <2>3 DEF MadeOf, Parts
  <2> QED BY <2>2, <2>4
<1> QED BY <1>1, <1>2, ClosedWhole

-----------------------------------------------------------------------------
(* Environments *)

Bindings(store, n) == IsSequence(store) /\ \A k \in 1..Len(store) : Proper(store[k][2], n)
EnvsSound(es) ==
    /\ IsSequence(es) /\ Len(es) > 0
    /\ \A e \in 1..Len(es) : /\ {"store", "outer"} \subseteq DOMAIN es[e]
                             /\ es[e].outer \in 0..e - 1 /\ Bindings(es[e].store, Len(es))

(* What EnvGet finds from each environment on, the ones inside it aside.   *)
Search(name, g, e) ==
    LET Bound(i) == {k \in DOMAIN envs[i].store : envs[i].store[k][1] = name}
    IN  [i \in 0..e |->
          IF i = 0 THEN NotFound
          ELSE IF Bound(i) = {} THEN g[envs[i].outer]
          ELSE LET k == CHOOSE k \in Bound(i) : \A l \in Bound(i) : k <= l IN envs[i].store[k][2]]
IsSearch(name, g, e) == g = Search(name, g, e)

LEMMA SearchExists ==
    ASSUME EnvsSound(envs), NEW STATE name, NEW STATE e, e \in 0..Len(envs)
    PROVE  \E g : IsSearch(name, g, e)
<1> DEFINE Missing == {m \in 0..Len(envs) : ~\E g : IsSearch(name, g, m)}
<1>0. Len(envs) \in Nat
  BY SequenceForm DEF EnvsSound
<1>1. SUFFICES ASSUME Missing # {} PROVE FALSE
  OBVIOUS
<1>2. PICK m \in Missing : \A k \in Missing : m <= k
  <2>1. Missing \subseteq Nat
    BY <1>0
  <2> QED BY <1>1, <2>1, LeastNumber, Zenon
<1>3. CASE m = 0
  <2> DEFINE f == [i \in 0..0 |-> NotFound]
  <2>1. f = Search(name, f, 0)
    BY DEF Search
  <2> QED BY <1>2, <1>3, <2>1 DEF IsSearch
<1>4. CASE m # 0
  <2>1. m \in 0..Len(envs) /\ m \in 1..Len(envs) /\ m - 1 \in 0..Len(envs) /\ m - 1 \notin Missing
    BY <1>0, <1>2, <1>4
  <2>2. PICK g : IsSearch(name, g, m - 1)
    BY <2>1
  <2> DEFINE Bound(i) == {k \in DOMAIN envs[i].store : envs[i].store[k][1] = name}
             value(h, i) ==
               IF i = 0 THEN NotFound
               ELSE IF Bound(i) = {} THEN h[envs[i].outer]
               ELSE LET k == CHOOSE k \in Bound(i) : \A l \in Bound(i) : k <= l
                    IN envs[i].store[k][2]
             f == [i \in 0..m |-> IF i = m THEN value(g, m) ELSE g[i]]
  <2>3. ASSUME NEW i \in 0..m PROVE f[i] = value(f, i)
    <3>1. i # 0 => envs[i].outer \in 0..i - 1 /\ envs[i].outer \in 0..m /\ envs[i].outer # m
      <4>1. i # 0 => i \in 1..Len(envs)
        BY <1>0, <2>1
      <4>2. i # 0 => envs[i].outer \in 0..i - 1
        BY <4>1 DEF EnvsSound
      <4> QED BY <1>0, <2>1, <4>2
    <3>2. i # 0 => f[envs[i].outer] = g[envs[i].outer]
      BY <3>1
    <3>3. CASE i = m
      <4>1. f[i] = value(g, i)
        <5> HIDE DEF value
        <5> QED BY <3>3
      <4>2. value(g, i) = value(f, i)
        <5> DEFINE Latest == LET k == CHOOSE k \in Bound(i) : \A l \in Bound(i) : k <= l
                             IN envs[i].store[k][2]
        <5>1. \A h : value(h, i) = IF i = 0 THEN NotFound
                                   ELSE IF Bound(i) = {} THEN h[envs[i].outer] ELSE Latest
          OBVIOUS
        <5> HIDE DEF f, value, Bound, Latest
        <5> QED BY <3>2, <5>1
      <4> QED BY <4>1, <4>2
    <3>4. CASE i # m
      <4>1. i \in 0..m - 1 /\ f[i] = g[i]
        BY <1>0, <2>1, <3>4
      <4>2. g[i] = value(g, i)
        <5>1. g = [j \in 0..m - 1 |-> value(g, j)]
          BY <2>2, Zenon DEF IsSearch, Search
        <5> HIDE DEF value
        <5> QED BY <4>1, <5>1
      <4> QED BY <3>2, <4>1, <4>2, Zenon
    <3> QED BY <3>3, <3>4
  <2>4. f = [i \in 0..m |-> value(f, i)]
    <3> HIDE DEF value
    <3>1. DOMAIN f = 0..m
      OBVIOUS
    <3> QED BY <2>3
  <2>5. IsSearch(name, f, m)
    BY <2>4, Zenon DEF IsSearch, Search
  <2> HIDE DEF f
  <2> QED BY <1>2, <2>5
<1> QED BY <1>3, <1>4

(* What is found is a proper value: every search goes on in an environment *)
(* that is older, to the global one.                                       *)
LEMMA Found ==
    ASSUME EnvsSound(envs), NEW STATE name, NEW STATE e, e \in 1..Len(envs)
    PROVE  EnvGet(e, name) = NotFound \/ Proper(EnvGet(e, name), Len(envs))
<1> DEFINE get == CHOOSE g : IsSearch(name, g, e)
           Bound(i) == {k \in DOMAIN envs[i].store : envs[i].store[k][1] = name}
           Place(i) == CHOOSE k \in Bound(i) : \A l \in Bound(i) : k <= l
           n == Len(envs)
           Astray == {i \in 0..e : ~(get[i] = NotFound \/ Proper(get[i], n))}
<1>0. n \in Nat /\ e \in Nat /\ e \in 0..n
  BY SequenceForm DEF EnvsSound
<1>1. IsSearch(name, get, e)
  BY <1>0, SearchExists, Zenon
<1>2. EnvGet(e, name) = get[e]
  BY Zenon DEF EnvGet, IsSearch, Search
<1> HIDE DEF get
<1>3. ASSUME NEW i \in 1..e, Bound(i) # {} PROVE Proper(envs[i].store[Place(i)][2], n)
  <2>1. Bindings(envs[i].store, n) /\ i \in 1..n
    BY <1>0 DEF EnvsSound
  <2>2. IsSequence(envs[i].store)
    BY <2>1 DEF Bindings
  <2>3. DOMAIN envs[i].store = 1..Len(envs[i].store) /\ Len(envs[i].store) \in Nat
    BY <2>2, SequenceForm
  <2>4. Bound(i) \subseteq Nat
    BY <2>3
  <2>5. \E k \in Bound(i) : \A l \in Bound(i) : k <= l
    <3> HIDE DEF Bound
    <3> QED BY <1>3, <2>4, LeastNumber
  <2>6. Place(i) \in Bound(i)
    <3> HIDE DEF Bound
    <3> QED BY <2>5, Zenon
  <2>7. Place(i) \in 1..Len(envs[i].store)
    <3> HIDE DEF Place
    <3> QED BY <2>3, <2>6
  <2> QED BY <2>1, <2>7, Zenon DEF Bindings
<1>4. \A i \in 0..e : get[i] = IF i = 0 THEN NotFound
                               ELSE IF Bound(i) = {} THEN get[envs[i].outer]
                               ELSE envs[i].store[Place(i)][2]
  <2>1. get = [i \in 0..e |-> IF i = 0 THEN NotFound
                               ELSE IF Bound(i) = {} THEN get[envs[i].outer]
                               ELSE envs[i].store[Place(i)][2]]
    BY <1>1, Zenon DEF IsSearch, Search
  <2> HIDE DEF Bound, Place
  <2> QED BY <2>1
<1> HIDE DEF Bound, Place
<1>5. Astray = {}
  <2>1. SUFFICES ASSUME Astray # {} PROVE FALSE
    OBVIOUS
  <2>2. PICK i \in Astray : \A k \in Astray : i <= k
    <3>1. Astray \subseteq Nat
      BY <1>0
    <3> QED BY <2>1, <3>1, LeastNumber, Zenon
  <2>3. i \in 0..e /\ i # 0
    BY <1>4
  <2>4. i \in 1..e /\ i \in 1..n
    BY <1>0, <2>3
  <2>5. envs[i].outer \in 0..e /\ ~(i <= envs[i].outer)
    <3>1. envs[i].outer \in 0..i - 1
      BY <2>4 DEF EnvsSound
    <3> QED BY <1>0, <2>4, <3>1
  <2>6. get[envs[i].outer] = NotFound \/ Proper(get[envs[i].outer], n)
    BY <2>2, <2>5
  <2> QED BY <1>3, <1>4, <2>2, <2>3, <2>4, <2>6
<1>6. e \in 0..e
  BY <1>0
<1> QED BY <1>2, <1>5, <1>6

-----------------------------------------------------------------------------
(* Operations *)

Good(o, n) == IsError(o) \/ Proper(o, n)

LEMMA PlainObjects ==
    /\ Null.t \in Scalars
    /\ \A k : Integer(k).t \in Scalars
    /\ \A b : Boolean(b).t \in Scalars
    /\ \A s : String(s).t \in Scalars
    /\ \A i : Builtin(i).t \in Scalars
BY DEF Scalars, Values, ObjectTypes, Null, Integer, Boolean, String, Builtin

LEMMA PlainGood ==
    ASSUME NEW o, o = Error \/ o.t \in Scalars, NEW n \in Nat
    PROVE  Good(o, n)
BY ProperScalar DEF Good, IsError, Error

LEMMA GoodDefined ==
    ASSUME NEW o, NEW n \in Nat, Good(o, n)
    PROVE  o # Undefined /\ o # Exit /\ o.t \in ObjectTypes
<1>1. o.t \in ObjectTypes
  BY ProperParts DEF Good, IsError, Values, ObjectTypes
<1>2. Undefined.t \notin ObjectTypes /\ Exit.t \notin ObjectTypes
  BY DEF Undefined, Exit, ObjectTypes
<1> QED BY <1>1, <1>2

LEMMA PrefixGood ==
    ASSUME NEW operator, NEW right, NEW n \in Nat
    PROVE  Good(Prefix(operator, right), n)
<1>1. Prefix(operator, right) = Error \/ Prefix(operator, right).t \in Scalars
  <2>1. \/ Prefix(operator, right) = Error
        \/ \E b : Prefix(operator, right) = Boolean(b)
        \/ \E k : Prefix(operator, right) = Integer(k)
    BY Zenon DEF Prefix
  <2> QED BY <2>1, PlainObjects
<1> QED BY <1>1, PlainGood

LEMMA InfixOutcome ==
    ASSUME NEW operator, NEW l, NEW r, NEW o \in Infixes(operator, l, r), NEW n \in Nat
    PROVE  \/ Good(o, n)
           \/ o = Undefined /\ operator = "/" /\ r.t = "INTEGER" /\ r.int = 0
<1> DEFINE x == IntegerInfix(operator, l.int, r.int)
<1>1. \/ x = Error \/ (x = Undefined /\ operator = "/" /\ r.int = 0)
      \/ (\E k : x = Integer(k)) \/ (\E b : x = Boolean(b))
  BY DEF IntegerInfix
<1> HIDE DEF x
<1>2. \/ (o = x /\ r.t = "INTEGER") \/ o = Error \/ (\E s : o = String(s)) \/ (\E b : o = Boolean(b))
  <2>1. CASE l.t = "INTEGER" /\ r.t = "INTEGER"
    BY <2>1 DEF Infixes, x
  <2>2. CASE ~(l.t = "INTEGER" /\ r.t = "INTEGER") /\ l.t = "STRING" /\ r.t = "STRING"
    BY <2>2 DEF Infixes
  <2>3. CASE ~(l.t = "INTEGER" /\ r.t = "INTEGER") /\ ~(l.t = "STRING" /\ r.t = "STRING")
    BY <2>3 DEF Infixes
  <2> QED BY <2>1, <2>2, <2>3
<1>3. \/ o = Error \/ o.t \in Scalars
      \/ o = Undefined /\ operator = "/" /\ r.t = "INTEGER" /\ r.int = 0
  BY <1>1, <1>2, PlainObjects
<1> QED BY <1>3, PlainGood

LEMMA ItemGood ==
    ASSUME NEW left, NEW index, NEW n \in Nat, Proper(left, n)
    PROVE  Good(Item(left, index), n)
<1> DEFINE es == left.elements
           ps == left.pairs
           equal == {i \in DOMAIN ps : ps[i][1] = index}
           place == CHOOSE i \in equal : \A j \in equal : i <= j
<1>1. \/ Item(left, index) \in {Error, Null}
      \/ /\ left.t = "ARRAY" /\ index.int \in 0..Len(es) - 1
         /\ Item(left, index) = es[index.int + 1]
      \/ left.t = "HASH" /\ equal # {} /\ Item(left, index) = ps[place][2]
  BY Zenon DEF Item, HashItem
<1>2. CASE Item(left, index) \in {Error, Null}
  BY <1>2, PlainObjects, PlainGood
<1>3. CASE /\ left.t = "ARRAY" /\ index.int \in 0..Len(es) - 1
           /\ Item(left, index) = es[index.int + 1]
  <2>1. IsSequence(es) /\ \A i \in 1..Len(es) : Proper(es[i], n)
    BY <1>3, ProperParts
  <2>2. index.int + 1 \in 1..Len(es)
    BY <1>3, <2>1, SequenceForm
  <2> HIDE DEF es
  <2> QED BY <1>3, <2>1, <2>2 DEF Good
<1>4. CASE left.t = "HASH" /\ equal # {} /\ Item(left, index) = ps[place][2]
  <2>1. IsSequence(ps) /\ \A i \in DOMAIN ps : Proper(ps[i][1], n) /\ Proper(ps[i][2], n)
    BY <1>4, ProperParts
  <2>2. DOMAIN ps = 1..Len(ps) /\ Len(ps) \in Nat
    BY <2>1, SequenceForm
  <2>3. equal \subseteq Nat
    BY <2>2
  <2>4. \E i \in equal : \A j \in equal : i <= j
    <3> HIDE DEF equal
    <3> QED BY <1>4, <2>3, LeastNumber
  <2>5. place \in equal
    <3> HIDE DEF equal
    <3> QED BY <2>4, Zenon
  <2>6. place \in DOMAIN ps
    <3> HIDE DEF place
    <3> QED BY <2>5
  <2> HIDE DEF place, ps
  <2> QED BY <1>4, <2>1, <2>6 DEF Good
<1> QED BY <1>1, <1>2, <1>3, <1>4

LEMMA GoodWhole ==
    ASSUME NEW o, NEW n \in Nat, Good(o, n)
    PROVE  ~Dangling(o)
<1>1. ASSUME IsError(o) PROVE ~Dangling(o)
  <2>1. Parts(o) = {} /\ IsObject(o)
    BY <1>1 DEF Parts, IsError, IsObject
  <2>2. \A v \in {o} : IsObject(v) /\ Parts(v) \subseteq {o}
    BY <2>1
  <2> QED BY <2>2, ClosedWhole
<1> QED BY <1>1, ProperWhole DEF Good

(* Builtins on proper arguments never follow a pointer to no object.       *)
LEMMA LenGood ==
    ASSUME NEW n \in Nat, NEW args, AllProper(args, n)
    PROVE  Good(BuiltinLen(args), n)
<1>1. \A i \in DOMAIN args : IsObject(args[i])
  BY SequenceForm, ProperWhole DEF AllProper
<1>2. BuiltinLen(args) = Error \/ \E k : BuiltinLen(args) = Integer(k)
  BY <1>1, Zenon DEF BuiltinLen, Checked
<1> QED BY <1>2, PlainObjects, PlainGood

LEMMA PutsGood ==
    ASSUME NEW n \in Nat, NEW args, AllProper(args, n)
    PROVE  \/ Good(BuiltinPuts(args), n)
           \/ BuiltinPuts(args) = Undefined /\ \E i \in DOMAIN args : Textless(args[i])
<1>1. \A i \in DOMAIN args : ~Dangling(args[i])
  BY SequenceForm, ProperWhole DEF AllProper
<1>2. CASE \A i \in DOMAIN args : Printable(args[i])
  <2>1. BuiltinPuts(args) = Null
    BY <1>2, Zenon DEF BuiltinPuts
  <2> QED BY <2>1, PlainObjects, PlainGood
<1>3. CASE ~\A i \in DOMAIN args : Printable(args[i])
  BY <1>1, <1>3, Zenon DEF BuiltinPuts, Printable
<1> QED BY <1>2, <1>3

LEMMA CopiedGood ==
    ASSUME NEW n \in Nat, NEW es, AllProper(es, n)
    PROVE  Copied(es, ArrayOf(es)) = Exit \/ Good(Copied(es, ArrayOf(es)), n)
<1>1. \A i \in DOMAIN es : IsObject(es[i])
  BY SequenceForm, ProperWhole DEF AllProper
<1>2. Copied(es, ArrayOf(es)) \in {Exit, ArrayOf(es)}
  BY <1>1, Zenon DEF Copied
<1> QED BY <1>2, ProperArray DEF Good

LEMMA ItemsGood ==
    ASSUME NEW n \in Nat, NEW args, AllProper(args, n)
    PROVE  /\ Good(BuiltinFirst(args), n) /\ Good(BuiltinLast(args), n)
           /\ BuiltinRest(args) = Exit \/ Good(BuiltinRest(args), n)
<1> DEFINE a == args[1]
           es == a.elements
           rest == Tail(es)
<1>1. \/ \A o \in {BuiltinFirst(args), BuiltinLast(args), BuiltinRest(args)} : o \in {Error, Null}
      \/ Len(args) = 1 /\ ~IsObject(a)
      \/ Len(args) = 1 /\ IsObject(a) /\ a.t = "ARRAY" /\ es # << >>
  BY DEF BuiltinFirst, BuiltinLast, BuiltinRest, ArrayArg
<1>2. Len(args) = 1 => Proper(a, n) /\ IsObject(a)
  <2>1. Len(args) = 1 => Proper(a, n)
    BY DEF AllProper
  <2> HIDE DEF a
  <2> QED BY <2>1, ProperWhole
<1>3. CASE \A o \in {BuiltinFirst(args), BuiltinLast(args), BuiltinRest(args)} : o \in {Error, Null}
  BY <1>3, PlainObjects, PlainGood
<1>4. CASE Len(args) = 1 /\ IsObject(a) /\ a.t = "ARRAY" /\ es # << >>
  <2>1. IsSequence(es) /\ \A i \in 1..Len(es) : Proper(es[i], n)
    <3> HIDE DEF a
    <3> QED BY <1>2, <1>4, ProperParts
  <2>2. /\ BuiltinFirst(args) = Deref(es[1])
        /\ BuiltinLast(args) = Deref(es[Len(es)])
        /\ BuiltinRest(args) = Copied(rest, ArrayOf(rest))
    BY <1>4, Zenon DEF BuiltinFirst, BuiltinLast, BuiltinRest, ArrayArg
  <2> HIDE DEF a, es
  <2>3. IsSequence(rest) /\ Len(rest) = Len(es) - 1 /\ \A i \in 1..Len(es) - 1 : rest[i] = es[i+1]
    BY <1>4, <2>1, SequenceTail
  <2>4. Len(es) \in Nat /\ Len(es) > 0
    BY <1>4, <2>1, SequenceForm
  <2>5. ASSUME NEW i \in 1..Len(es) PROVE Deref(es[i]) = es[i] /\ Good(es[i], n)
    <3>1. IsObject(es[i])
      BY <2>1, ProperWhole
    <3>2. Deref(es[i]) = es[i]
      BY <3>1 DEF Deref, Checked
    <3> QED BY <2>1, <3>2 DEF Good
  <2>6. AllProper(rest, n)
    <3>1. ASSUME NEW i \in 1..Len(rest) PROVE Proper(rest[i], n)
      <4>1. i \in 1..Len(es) - 1 /\ i + 1 \in 1..Len(es)
        BY <2>3, <2>4
      <4> QED BY <2>1, <2>3, <4>1
    <3> QED BY <2>3, <3>1 DEF AllProper
  <2>7. Copied(rest, ArrayOf(rest)) = Exit \/ Good(Copied(rest, ArrayOf(rest)), n)
    BY <2>6, CopiedGood
  <2>8. 1 \in 1..Len(es) /\ Len(es) \in 1..Len(es)
    BY <2>4
  <2> QED BY <2>2, <2>5, <2>7, <2>8
<1> QED BY <1>1, <1>2, <1>3, <1>4

LEMMA PushGood ==
    ASSUME NEW n \in Nat, NEW args, AllProper(args, n)
    PROVE  BuiltinPush(args) = Exit \/ Good(BuiltinPush(args), n)
<1> DEFINE a == args[1]
           pushed == Append(a.elements, args[2])
<1>1. CASE Len(args) # 2
  BY <1>1, PlainGood DEF BuiltinPush
<1>2. CASE Len(args) = 2
  <2>1. Proper(a, n) /\ Proper(args[2], n)
    BY <1>2 DEF AllProper
  <2>2. IsObject(a)
    BY <2>1, ProperWhole
  <2>3. CASE a.t # "ARRAY"
    BY <1>2, <2>2, <2>3, PlainGood DEF BuiltinPush
  <2>4. CASE a.t = "ARRAY"
    <3>1. BuiltinPush(args) = Copied(pushed, ArrayOf(pushed))
      BY <1>2, <2>2, <2>4, Zenon DEF BuiltinPush
    <3>2. AllProper(a.elements, n)
      BY <2>1, <2>4, ProperParts DEF AllProper
    <3>3. AllProper(pushed, n)
      BY <2>1, <3>2, OneMore
    <3> HIDE DEF pushed
    <3> QED BY <3>1, <3>3, CopiedGood
  <2> QED BY <2>3, <2>4
<1> QED BY <1>1, <1>2

LEMMA BuiltinGood ==
    ASSUME NEW n \in Nat, NEW args, AllProper(args, n), NEW index
    PROVE  \/ CallBuiltin(index, args) = Exit \/ Good(CallBuiltin(index, args), n)
           \/ /\ CallBuiltin(index, args) = Undefined
              /\ index = 4 /\ \E i \in DOMAIN args : Textless(args[i])
<1>1. \/ CallBuiltin(index, args) \in {BuiltinLen(args), BuiltinFirst(args), BuiltinRest(args),
                                       BuiltinPush(args), BuiltinLast(args), Exit}
      \/ index = 4 /\ CallBuiltin(index, args) = BuiltinPuts(args)
  <2>1. CASE index = 4
    BY <2>1 DEF CallBuiltin
  <2>2. CASE index # 4
    BY <2>2, Zenon DEF CallBuiltin
  <2> QED BY <2>1, <2>2
<1> QED BY <1>1, LenGood, ItemsGood, PushGood, PutsGood

-----------------------------------------------------------------------------
(* What calls keep and receive *)

(* The environment of a call is there, and what it has kept are values     *)
(* that have been returned to it: the left side of an operator, the callee *)
(* of a call, the items of a list or the pairs of a hash so far.           *)
CallSound(c, n) ==
    c.call # "unwrap" =>
      /\ {"call", "node", "env", "kept"} \subseteq DOMAIN c
      /\ c.env \in 1..n
      /\ c.call \in {"eval", "left", "callee", "indexed"} => c.kept = << >>
      /\ c.call \in {"right", "index", "arguments"} => Proper(c.kept[1], n)
      /\ c.call \in GivesList => AllProper(c.kept, n)
      /\ c.call \in {"pairs", "key"} => PairsProper(c.kept, n)
      /\ c.call = "value" => \E ps, key : PairsProper(ps, n) /\ Proper(key, n) /\ c.kept = Append(ps, key)

(* A list of one error is there in place of a list of values.              *)
ListSound(o, n) == SoleError(o.items) \/ AllProper(o.items, n)
Receives(c, o, n) ==
    /\ c.call \in TakesList => ListSound(o, n)
    /\ c.call \notin Fresh \cup TakesList => Good(o, n)

CallsSound(cs, n) == IsSequence(cs) /\ \A k \in 1..Len(cs) : CallSound(cs[k], n)
ObjectSound(cs, o, n) ==
    /\ cs = << >> => Good(o, n)
    /\ cs # << >> => Receives(Head(cs), o, n)
AnswersSound(as) == IsSequence(as) /\ \A i \in 1..Len(as) : as[i].t \in ObjectTypes

ValuesInv ==
    /\ evaluation \in {"idle", "running", "undefined", "exited"}
    /\ EnvsSound(envs)
    /\ CallsSound(calls, Len(envs))
    /\ AnswersSound(answers)
    /\ evaluation = "running" => ObjectSound(calls, object, Len(envs))

LEMMA CallSoundMore ==
    ASSUME NEW c, NEW n \in Nat, NEW m \in Nat, n <= m, CallSound(c, n)
    PROVE  CallSound(c, m)
<1> SUFFICES ASSUME c.call # "unwrap" PROVE CallSound(c, m)
  BY DEF CallSound
<1>1. c.env \in 1..m
  BY DEF CallSound
<1>2. c.call \in {"right", "index", "arguments"} => Proper(c.kept[1], m)
  BY ProperMore DEF CallSound
<1>3. /\ c.call \in GivesList => AllProper(c.kept, m)
      /\ c.call \in {"pairs", "key"} => PairsProper(c.kept, m)
  BY AllProperMore DEF CallSound
<1>4. c.call = "value" => \E ps, key : PairsProper(ps, m) /\ Proper(key, m) /\ c.kept = Append(ps, key)
  BY AllProperMore, ProperMore DEF CallSound
<1> QED BY <1>1, <1>2, <1>3, <1>4 DEF CallSound

LEMMA TailSound ==
    ASSUME NEW cs, NEW n \in Nat, NEW m \in Nat, n <= m, CallsSound(cs, n), cs # << >>
    PROVE  CallsSound(Tail(cs), m) /\ CallSound(Head(cs), n)
<1>1. /\ IsSequence(Tail(cs)) /\ Len(Tail(cs)) = Len(cs) - 1 /\ Len(cs) \in Nat /\ Len(cs) > 0
      /\ \A i \in 1..Len(cs) - 1 : Tail(cs)[i] = cs[i+1]
      /\ Head(cs) = cs[1]
  BY SequenceTail, SequenceForm DEF CallsSound
<1>2. ASSUME NEW k \in 1..Len(Tail(cs)) PROVE CallSound(Tail(cs)[k], m)
  <2>1. k \in 1..Len(cs) - 1 /\ k + 1 \in 1..Len(cs)
    BY <1>1
  <2>2. CallSound(cs[k+1], n)
    BY <2>1 DEF CallsSound
  <2> QED BY <1>1, <2>1, <2>2, CallSoundMore
<1>3. CallSound(cs[1], n)
  BY <1>1 DEF CallsSound
<1> QED BY <1>1, <1>2, <1>3 DEF CallsSound

LEMMA OnSound ==
    ASSUME NEW cs, NEW n \in Nat, CallsSound(cs, n), NEW c, CallSound(c, n)
    PROVE  CallsSound(<< c >> \o cs, n) /\ << c >> \o cs # << >> /\ Head(<< c >> \o cs) = c
<1> DEFINE t == << c >> \o cs
<1>1. IsSequence(cs) /\ IsSequence(<< c >>) /\ Len(<< c >>) = 1 /\ << c >>[1] = c /\ Len(cs) \in Nat
  BY SequenceOfOne, SequenceForm DEF CallsSound
<1>2. /\ IsSequence(t) /\ Len(t) = 1 + Len(cs)
      /\ \A i \in 1..1 + Len(cs) : t[i] = IF i <= 1 THEN << c >>[i] ELSE cs[i - 1]
  BY <1>1, SequenceConcat
<1> HIDE DEF t
<1>3. t # << >> /\ Head(t) = t[1]
  BY <1>1, <1>2, SequenceForm, SequenceTail
<1>4. t[1] = c
  BY <1>1, <1>2
<1>5. ASSUME NEW k \in 1..Len(t) PROVE CallSound(t[k], n)
  <2>1. CASE k = 1
    BY <1>4, <2>1
  <2>2. CASE k # 1
    <3>1. k - 1 \in 1..Len(cs) /\ t[k] = cs[k - 1]
      BY <1>1, <1>2, <2>2
    <3> QED BY <3>1 DEF CallsSound
  <2> QED BY <2>1, <2>2
<1>6. CallsSound(t, n)
  BY <1>2, <1>5 DEF CallsSound
<1> QED BY <1>3, <1>4, <1>6 DEF t

LEMMA TwoJoined ==
    ASSUME NEW s, IsSequence(s), NEW x, NEW y
    PROVE  << x >> \o (<< y >> \o s) = << x, y >> \o s
<1>1. IsSequence(<< x >>) /\ IsSequence(<< y >>)
  BY SequenceOfOne
<1>2. (<< x >> \o << y >>) \o s = << x >> \o (<< y >> \o s)
  BY <1>1, SequenceRegroup
<1> QED BY <1>2, PairJoined, Zenon

-----------------------------------------------------------------------------
(* Steps again *)

Growing == EnvsSound(envs') /\ Len(envs) <= Len(envs') /\ UNCHANGED answers

LEMMA NothingGrows ==
    ASSUME ValuesInv, UNCHANGED <<envs, answers>>
    PROVE  Growing
BY SequenceForm DEF ValuesInv, Growing, EnvsSound

LEMMA Sizes ==
    ASSUME ValuesInv, Growing
    PROVE  Len(envs) \in Nat /\ Len(envs') \in Nat /\ Len(envs) <= Len(envs')
BY SequenceForm DEF ValuesInv, Growing, EnvsSound

LEMMA AfterStep ==
    ASSUME ValuesInv, Growing, evaluation' \in {"idle", "running", "undefined", "exited"},
           CallsSound(calls', Len(envs')),
           evaluation' = "running" => ObjectSound(calls', object', Len(envs'))
    PROVE  ValuesInv'
<1>1. EnvsSound(envs)' /\ CallsSound(calls, Len(envs))' /\ AnswersSound(answers)'
      /\ (evaluation = "running" => ObjectSound(calls, object, Len(envs)))'
  BY DEF ValuesInv, Growing
<1> QED BY <1>1 DEF ValuesInv

(* The first call returns to one that waits for what it returns.           *)
LEMMA ReturnSound ==
    ASSUME UnwindInv, ValuesInv, Growing, Running, NEW STATE o, Return(o),
           Waiting.call \in GivesList => ListSound(o, Len(envs')),
           Waiting.call \notin GivesList => Good(o, Len(envs'))
    PROVE  ValuesInv'
<1>1. IsStack(calls) /\ calls # << >>
  BY DEF UnwindInv, Running
<1>2. calls' = Tail(calls) /\ object' = o /\ evaluation' = "running"
  BY DEF Return, Running
<1>3. CallsSound(calls', Len(envs'))
  BY <1>1, <1>2, Sizes, TailSound DEF ValuesInv
<1>4. /\ calls' # << >> => WaitsFor(Head(calls'), Waiting)
      /\ calls' = << >> => Waiting.call \notin GivesList
  BY <1>1, <1>2, TailOfStack DEF Waiting
<1>5. ObjectSound(calls', object', Len(envs'))
  BY <1>2, <1>4 DEF ObjectSound, Receives, WaitsFor
<1> QED BY <1>2, <1>3, <1>5, AfterStep

(* A fresh call takes its place, ...                                       *)
LEMMA ReplaceSound ==
    ASSUME ValuesInv, Growing, Running, NEW STATE c, Replace(<< c >>), c.call \in Fresh,
           CallSound(c, Len(envs'))
    PROVE  ValuesInv'
<1>1. calls # << >> /\ calls' = << c >> \o Tail(calls) /\ evaluation' = "running"
  BY DEF Replace, Running
<1>2. CallsSound(calls', Len(envs')) /\ calls' # << >> /\ Head(calls') = c
  BY <1>1, Sizes, TailSound, OnSound DEF ValuesInv
<1>3. ObjectSound(calls', object', Len(envs'))
  BY <1>2 DEF ObjectSound, Receives, Fresh, TakesList
<1> QED BY <1>1, <1>2, <1>3, AfterStep

(* ... or one with another behind it that waits.                           *)
LEMMA WaitSound ==
    ASSUME ValuesInv, Growing, Running, NEW STATE c, NEW STATE w, Replace(<< c, w >>),
           c.call \in Fresh, CallSound(c, Len(envs')), CallSound(w, Len(envs'))
    PROVE  ValuesInv'
<1>1. calls # << >> /\ calls' = << c, w >> \o Tail(calls) /\ evaluation' = "running"
  BY DEF Replace, Running
<1>2. CallsSound(Tail(calls), Len(envs'))
  BY <1>1, Sizes, TailSound DEF ValuesInv
<1>3. CallsSound(<< w >> \o Tail(calls), Len(envs'))
  BY <1>2, Sizes, OnSound
<1>4. /\ CallsSound(<< c >> \o (<< w >> \o Tail(calls)), Len(envs'))
      /\ << c >> \o (<< w >> \o Tail(calls)) # << >>
      /\ Head(<< c >> \o (<< w >> \o Tail(calls))) = c
  BY <1>3, Sizes, OnSound
<1>5. calls' = << c >> \o (<< w >> \o Tail(calls))
  BY <1>1, <1>2, TwoJoined DEF CallsSound
<1>6. CallsSound(calls', Len(envs')) /\ calls' # << >> /\ Head(calls') = c
  BY <1>4, <1>5, Zenon
<1>7. ObjectSound(calls', object', Len(envs'))
  BY <1>6 DEF ObjectSound, Receives, Fresh, TakesList
<1> QED BY <1>1, <1>6, <1>7, AfterStep

LEMMA StopSound ==
    ASSUME ValuesInv, UNCHANGED <<envs, answers>>, Stop("undefined") \/ Stop("exited")
    PROVE  ValuesInv'
<1>1. evaluation' \in {"undefined", "exited"} /\ calls' = calls /\ envs' = envs
  BY DEF Stop
<1>2. CallsSound(calls', Len(envs'))
  BY <1>1 DEF ValuesInv
<1> QED BY <1>1, <1>2, AfterStep, NothingGrows

LEMMA WaitingSound ==
    ASSUME ValuesInv, Running
    PROVE  CallSound(Waiting, Len(envs)) /\ Len(envs) \in Nat
BY SequenceForm, TailSound DEF ValuesInv, EnvsSound, Running, Waiting

LEMMA ObjectReceived ==
    ASSUME ValuesInv, Running
    PROVE  /\ Waiting.call \in TakesList => ListSound(object, Len(envs))
           /\ Waiting.call \notin Fresh \cup TakesList => Good(object, Len(envs))
           /\ Waiting.call \in IsErrorChecked /\ ~IsError(object) => Proper(object, Len(envs))
<1>1. Receives(Waiting, object, Len(envs))
  BY DEF ValuesInv, Running, ObjectSound, Waiting
<1>2. IsErrorChecked \cap (Fresh \cup TakesList) = {}
  BY DEF IsErrorChecked, AllButLeft, Fresh, TakesList
<1> QED BY <1>1, <1>2 DEF Receives, Good

(* Fresh calls in an environment that is there have kept nothing or pairs. *)
LEMMA FreshSound ==
    ASSUME NEW n \in Nat, NEW STATE e, e \in 1..n, NEW STATE x
    PROVE  /\ Eval(x, e).call \in Fresh /\ CallSound(Eval(x, e), n)
           /\ Block(x, e).call \in Fresh /\ CallSound(Block(x, e), n)
           /\ Env = e => Expressions(x).call \in Fresh /\ CallSound(Expressions(x), n)
           /\ \A ps : Env = e /\ PairsProper(ps, n)
                        => Pairs(x, ps).call \in Fresh /\ CallSound(Pairs(x, ps), n)
<1> USE DEF Fresh
<1>1. Eval(x, e).call \in Fresh /\ CallSound(Eval(x, e), n)
  BY DEF Eval, CallSound, GivesList
<1>2. Block(x, e).call \in Fresh /\ CallSound(Block(x, e), n)
  BY DEF Block, CallSound, GivesList
<1>3. AllProper(<< >>, n)
  BY EmptySeq DEF AllProper, IsSequence
<1>4. Env = e => Expressions(x).call \in Fresh /\ CallSound(Expressions(x), n)
  BY <1>3 DEF Expressions, CallSound, GivesList
<1>5. ASSUME NEW ps, Env = e, PairsProper(ps, n)
      PROVE  Pairs(x, ps).call \in Fresh /\ CallSound(Pairs(x, ps), n)
  BY <1>5 DEF Pairs, CallSound, GivesList
<1> QED BY <1>1, <1>2, <1>4, <1>5

(* A call that waits has kept what it had, or one object more.             *)
Fields == {"call", "node", "env", "kept"}
KeepNothing == {"bound", "returned", "operand", "condition", "elements", "nextInBlock"}

LEMMA KeptAsIs ==
    ASSUME NEW n, NEW c, CallSound(c, n), c.call # "unwrap",
           NEW w, Fields \subseteq DOMAIN w, w.env = c.env, w.kept = c.kept,
           \/ w.call \in KeepNothing
           \/ c.call = "eval" /\ w.call \in {"left", "callee", "indexed"}
           \/ c.call = "pairs" /\ w.call = "key"
           \/ c.call \in GivesList /\ w.call \in GivesList
    PROVE  CallSound(w, n)
BY DEF CallSound, KeepNothing, GivesList, Fields

LEMMA KeptMore ==
    ASSUME NEW n \in Nat, NEW c, CallSound(c, n), c.call # "unwrap", NEW o, Proper(o, n),
           NEW w, Fields \subseteq DOMAIN w, w.env = c.env, w.kept = Append(c.kept, o),
           \/ c.call \in {"left", "callee", "indexed"} /\ w.call \in {"right", "index", "arguments"}
           \/ c.call = "key" /\ w.call = "value"
           \/ c.call \in GivesList /\ w.call = "expressions"
    PROVE  CallSound(w, n)
<1>1. w.env \in 1..n
  BY DEF CallSound
<1>2. CASE c.call \in {"left", "callee", "indexed"} /\ w.call \in {"right", "index", "arguments"}
  <2>1. c.kept = << >>
    BY <1>2 DEF CallSound
  <2>2. w.kept[1] = o
    BY <2>1
  <2> QED BY <1>1, <1>2, <2>2 DEF CallSound, GivesList, Fields
<1>3. CASE c.call = "key" /\ w.call = "value"
  <2>1. PairsProper(c.kept, n)
    BY <1>3 DEF CallSound
  <2> QED BY <1>1, <1>3, <2>1 DEF CallSound, GivesList, Fields
<1>4. CASE c.call \in GivesList /\ w.call = "expressions"
  <2>1. AllProper(c.kept, n)
    BY <1>4 DEF CallSound
  <2>2. AllProper(w.kept, n)
    BY <2>1, OneMore
  <2> QED BY <1>1, <1>4, <2>2 DEF CallSound, GivesList, Fields
<1> QED BY <1>2, <1>3, <1>4

(* The calls that wait, field by field.                                    *)
LEMMA WaitingFields ==
    ASSUME Fields \subseteq DOMAIN Waiting, NEW name, NEW o, NEW x
    PROVE  LET a == [Waiting EXCEPT !.call = name]
               b == [Waiting EXCEPT !.call = name, !.kept = Append(@, o)]
               d == [Waiting EXCEPT !.call = name, !.node = Tail(@)]
               f == [Waiting EXCEPT !.node = Tail(@)]
           IN  /\ Fields \subseteq DOMAIN a /\ a.call = name /\ a.env = Env /\ a.kept = Waiting.kept
               /\ Fields \subseteq DOMAIN b /\ b.call = name /\ b.env = Env
               /\ b.kept = Append(Waiting.kept, o)
               /\ Fields \subseteq DOMAIN d /\ d.call = name /\ d.env = Env /\ d.kept = Waiting.kept
               /\ Fields \subseteq DOMAIN f /\ f.call = Waiting.call /\ f.env = Env
               /\ f.kept = Waiting.kept
BY DEF Fields, Env

LEMMA WaitNamed ==
    ASSUME ValuesInv, UNCHANGED <<envs, answers>>, Running, Waiting.call # "unwrap",
           NEW STATE c, c.call \in Fresh, CallSound(c, Len(envs)), NEW name, Wait(c, name),
           \/ name \in KeepNothing
           \/ Waiting.call = "eval" /\ name \in {"left", "callee", "indexed"}
           \/ Waiting.call = "pairs" /\ name = "key"
    PROVE  ValuesInv'
<1> DEFINE w == [Waiting EXCEPT !.call = name]
<1>1. CallSound(Waiting, Len(envs)) /\ Len(envs') = Len(envs)
  BY WaitingSound
<1>2. Fields \subseteq DOMAIN Waiting
  BY <1>1 DEF CallSound, Fields
<1>3. Fields \subseteq DOMAIN w /\ w.call = name /\ w.env = Waiting.env /\ w.kept = Waiting.kept
  BY <1>2, WaitingFields DEF Env
<1>4. Replace(<< c, w >>)
  BY Zenon DEF Wait
<1> HIDE DEF w
<1>5. CallSound(w, Len(envs))
  BY <1>1, <1>3, KeptAsIs
<1> QED BY <1>1, <1>4, <1>5, NothingGrows, WaitSound

LEMMA WaitKeeping ==
    ASSUME ValuesInv, UNCHANGED <<envs, answers>>, Running, Waiting.call # "unwrap",
           NEW STATE c, c.call \in Fresh, CallSound(c, Len(envs)),
           NEW name, WaitWith(c, name, object), Proper(object, Len(envs)),
           \/ /\ Waiting.call \in {"left", "callee", "indexed"}
              /\ name \in {"right", "index", "arguments"}
           \/ Waiting.call = "key" /\ name = "value"
    PROVE  ValuesInv'
<1> DEFINE w == [Waiting EXCEPT !.call = name, !.kept = Append(@, object)]
<1>1. CallSound(Waiting, Len(envs)) /\ Len(envs') = Len(envs) /\ Len(envs) \in Nat
  BY WaitingSound
<1>2. Fields \subseteq DOMAIN Waiting
  BY <1>1 DEF CallSound, Fields
<1>3. /\ Fields \subseteq DOMAIN w /\ w.call = name /\ w.env = Waiting.env
      /\ w.kept = Append(Waiting.kept, object)
  BY <1>2, WaitingFields DEF Env
<1>4. Replace(<< c, w >>)
  BY Zenon DEF WaitWith
<1> HIDE DEF w
<1>5. CallSound(w, Len(envs))
  BY <1>1, <1>3, KeptMore
<1> QED BY <1>1, <1>4, <1>5, NothingGrows, WaitSound

LEMMA InCall ==
    ASSUME ValuesInv, Running, Waiting.call # "unwrap"
    PROVE  Env \in 1..Len(envs) /\ Len(envs) \in Nat /\ Fields \subseteq DOMAIN Waiting
BY WaitingSound DEF CallSound, Env, Fields

LEMMA ReturnGood ==
    ASSUME UnwindInv, ValuesInv, UNCHANGED <<envs, answers>>, Running, Waiting.call \notin GivesList,
           NEW STATE o, Good(o, Len(envs)), Return(o)
    PROVE  ValuesInv'
BY NothingGrows, ReturnSound

LEMMA ReturnProper ==
    ASSUME UnwindInv, ValuesInv, UNCHANGED <<envs, answers>>, Running, Waiting.call \notin GivesList,
           NEW STATE o, Proper(o, Len(envs)), Return(o)
    PROVE  ValuesInv'
BY ReturnGood DEF Good

LEMMA ReturnPlain ==
    ASSUME UnwindInv, ValuesInv, UNCHANGED <<envs, answers>>, Running, Waiting.call \notin GivesList,
           NEW STATE o, o = Error \/ o.t \in Scalars, Return(o)
    PROVE  ValuesInv'
BY ReturnGood, PlainGood, WaitingSound

(* A call waits for the object of a node, having kept nothing new ...      *)
LEMMA AsksSound ==
    ASSUME ValuesInv, UNCHANGED <<envs, answers>>, Running, NEW STATE x, NEW name,
           Wait(Eval(x, Env), name),
           \/ Waiting.call = "eval" /\ name \in KeepNothing \cup {"left", "callee", "indexed"}
           \/ Waiting.call = "pairs" /\ name = "key"
    PROVE  ValuesInv'
<1> DEFINE c == Eval(x, Env)
<1>1. Waiting.call # "unwrap" /\ Env \in 1..Len(envs) /\ Len(envs) \in Nat
  BY InCall
<1>2. c.call \in Fresh /\ CallSound(c, Len(envs))
  BY <1>1, FreshSound
<1>3. Wait(c, name)
  OBVIOUS
<1> HIDE DEF c
<1> QED BY <1>1, <1>2, <1>3, WaitNamed

(* ... or what it has received.                                            *)
LEMMA KeepsSound ==
    ASSUME ValuesInv, UNCHANGED <<envs, answers>>, Running, NEW STATE x, NEW name,
           WaitWith(Eval(x, Env), name, object), Proper(object, Len(envs)),
           \/ Waiting.call \in {"left", "indexed"} /\ name \in {"right", "index"}
           \/ Waiting.call = "key" /\ name = "value"
    PROVE  ValuesInv'
<1> DEFINE c == Eval(x, Env)
<1>1. Waiting.call # "unwrap" /\ Env \in 1..Len(envs) /\ Len(envs) \in Nat
  BY InCall
<1>2. c.call \in Fresh /\ CallSound(c, Len(envs))
  BY <1>1, FreshSound
<1>3. WaitWith(c, name, object)
  OBVIOUS
<1> HIDE DEF c
<1> QED BY <1>1, <1>2, <1>3, WaitKeeping

(* A call becomes that of a part of its node.                              *)
LEMMA BecomesSound ==
    ASSUME ValuesInv, UNCHANGED <<envs, answers>>, Running, Waiting.call # "unwrap", NEW STATE x,
           Replace(<< Eval(x, Env) >>) \/ Replace(<< Block(x, Env) >>)
    PROVE  ValuesInv'
<1>1. Env \in 1..Len(envs) /\ Len(envs) \in Nat /\ Len(envs') = Len(envs)
  BY InCall
<1>2. /\ Eval(x, Env).call \in Fresh /\ CallSound(Eval(x, Env), Len(envs))
      /\ Block(x, Env).call \in Fresh /\ CallSound(Block(x, Env), Len(envs))
  BY <1>1, FreshSound
<1> QED BY <1>1, <1>2, NothingGrows, ReplaceSound

LEMMA EnteredSound ==
    ASSUME UnwindInv, NEW types, Entering(types)
    PROVE  Running /\ Waiting.call = "eval" /\ Waiting.call \notin GivesList
BY DEF Entering, At, GivesList

LEMMA BlocksSound ==
    ASSUME UnwindInv, ValuesInv, BeginBlock \/ NextInBlock \/ UnwrapReturnValue
    PROVE  ValuesInv'
<1> DEFINE c == Eval(Head(Waiting.node), Env)
<1>1. CASE BeginBlock
  <2> DEFINE w == [Waiting EXCEPT !.call = "nextInBlock", !.node = Tail(@)]
  <2>1. Running /\ Waiting.call = "block" /\ UNCHANGED <<envs, answers>>
    BY <1>1 DEF BeginBlock, At
  <2>2. Stop("undefined") \/ Replace(<< c, w >>)
    BY <1>1, Zenon DEF BeginBlock
  <2>3. Env \in 1..Len(envs) /\ Len(envs) \in Nat /\ Fields \subseteq DOMAIN Waiting
    BY <2>1, InCall
  <2>4. c.call \in Fresh /\ CallSound(c, Len(envs))
    BY <2>3, FreshSound
  <2>5. CallSound(w, Len(envs))
    <3>1. Fields \subseteq DOMAIN w /\ w.call = "nextInBlock" /\ w.env = Waiting.env /\ w.kept = Waiting.kept
      BY <2>3, WaitingFields DEF Env
    <3> HIDE DEF w
    <3> QED BY <2>1, <3>1, WaitingSound, KeptAsIs DEF KeepNothing
  <2> HIDE DEF c, w
  <2> QED BY <2>1, <2>2, <2>4, <2>5, StopSound, NothingGrows, WaitSound
<1>2. CASE NextInBlock
  <2> DEFINE w == [Waiting EXCEPT !.node = Tail(@)]
  <2>1. Running /\ Waiting.call = "nextInBlock" /\ UNCHANGED <<envs, answers>>
    BY <1>2 DEF NextInBlock, At
  <2>2. Return(object) \/ Replace(<< c, w >>)
    BY <1>2, Zenon DEF NextInBlock
  <2>3. Env \in 1..Len(envs) /\ Len(envs) \in Nat /\ Fields \subseteq DOMAIN Waiting
    BY <2>1, InCall
  <2>4. c.call \in Fresh /\ CallSound(c, Len(envs))
    BY <2>3, FreshSound
  <2>5. CallSound(w, Len(envs))
    <3>1. Fields \subseteq DOMAIN w /\ w.call = "nextInBlock" /\ w.env = Waiting.env /\ w.kept = Waiting.kept
      BY <2>1, <2>3, WaitingFields DEF Env
    <3> HIDE DEF w
    <3> QED BY <2>1, <3>1, WaitingSound, KeptAsIs DEF KeepNothing
  <2>6. Good(object, Len(envs)) /\ Waiting.call \notin GivesList
    BY <2>1, ObjectReceived DEF Fresh, TakesList, GivesList
  <2> HIDE DEF c, w
  <2> QED BY <2>1, <2>2, <2>4, <2>5, <2>6, ReturnGood, NothingGrows, WaitSound
<1>3. CASE UnwrapReturnValue
  <2>1. Running /\ Waiting.call = "unwrap" /\ UNCHANGED <<envs, answers>>
    BY <1>3 DEF UnwrapReturnValue, At
  <2>2. Good(object, Len(envs)) /\ Waiting.call \notin GivesList /\ Len(envs) \in Nat
    BY <2>1, ObjectReceived, WaitingSound DEF Fresh, TakesList, GivesList
  <2>3. CASE object.t = "RETURN_VALUE"
    <3>1. Proper(object, Len(envs))
      BY <2>2, <2>3 DEF Good, IsError
    <3>2. Proper(object.object, Len(envs))
      BY <2>2, <2>3, <3>1, ProperParts
    <3>3. Return(object.object)
      BY <1>3, <2>3 DEF UnwrapReturnValue
    <3> QED BY <2>1, <2>2, <3>2, <3>3, ReturnProper
  <2>4. CASE object.t # "RETURN_VALUE"
    <3>1. Return(object)
      BY <1>3, <2>4 DEF UnwrapReturnValue
    <3> QED BY <2>1, <2>2, <3>1, ReturnGood
  <2> QED BY <2>3, <2>4
<1> QED BY <1>1, <1>2, <1>3

(* A binding is put before the others, with a value that is no error.      *)
LEMMA BoundSound ==
    ASSUME EnvsSound(envs), NEW STATE e, e \in 1..Len(envs), NEW name,
           NEW STATE o, Proper(o, Len(envs)), EnvSet(e, name, o)
    PROVE  EnvsSound(envs') /\ Len(envs') = Len(envs)
<1> DEFINE entry == << <<name, o>> >>
           old == envs[e]
           new == [old EXCEPT !.store = entry \o @]
<1>0. IsSequence(envs) /\ Len(envs) \in Nat
  BY SequenceForm DEF EnvsSound
<1>1. envs' = [envs EXCEPT ![e] = new]
  BY Zenon DEF EnvSet
<1>2. /\ IsSequence(envs') /\ Len(envs') = Len(envs)
      /\ \A i \in 1..Len(envs) : envs'[i] = IF i = e THEN new ELSE envs[i]
  <2> HIDE DEF new
  <2> DEFINE es == [envs EXCEPT ![e] = new]
  <2>1. /\ IsSequence(es) /\ Len(es) = Len(envs)
        /\ \A i \in 1..Len(envs) : es[i] = IF i = e THEN new ELSE envs[i]
    <3>1. e \in 1..Len(envs)
      OBVIOUS
    <3> HIDE DEF es
    <3>2. \A x : /\ IsSequence([envs EXCEPT ![e] = x]) /\ Len([envs EXCEPT ![e] = x]) = Len(envs)
                 /\ \A i \in 1..Len(envs) : [envs EXCEPT ![e] = x][i] = IF i = e THEN x ELSE envs[i]
      BY <1>0, <3>1, SequenceExcept
    <3> QED BY <3>2, Zenon DEF es
  <2> HIDE DEF es
  <2>2. envs' = es
    BY <1>1 DEF es
  <2> QED BY <2>1, <2>2
<1>3. IsSequence(old.store) /\ Len(old.store) \in Nat /\ \A k \in 1..Len(old.store) : Proper(old.store[k][2], Len(envs))
  BY SequenceForm DEF EnvsSound, Bindings
<1>4. /\ new.outer = old.outer /\ new.store = entry \o old.store
      /\ {"store", "outer"} \subseteq DOMAIN new
  <2>1. {"store", "outer"} \subseteq DOMAIN old
    BY DEF EnvsSound
  <2> HIDE DEF old, entry
  <2> QED BY <2>1
<1>5. Bindings(new.store, Len(envs))
  <2>1. IsSequence(entry) /\ Len(entry) = 1 /\ entry[1] = <<name, o>>
    BY SequenceOfOne
  <2> DEFINE all == entry \o old.store
  <2>2. /\ IsSequence(all) /\ Len(all) = 1 + Len(old.store)
        /\ \A i \in 1..1 + Len(old.store) : all[i] = IF i <= 1 THEN entry[i] ELSE old.store[i - 1]
    <3> DEFINE others == old.store
    <3>1. IsSequence(others) /\ all = entry \o others
      BY <1>3
    <3> HIDE DEF entry, others, all
    <3>2. /\ IsSequence(all) /\ Len(all) = Len(entry) + Len(others)
          /\ \A i \in 1..Len(entry) + Len(others) :
               all[i] = IF i <= Len(entry) THEN entry[i] ELSE others[i - Len(entry)]
      BY <2>1, <3>1, SequenceConcat
    <3>3. /\ IsSequence(all) /\ Len(all) = 1 + Len(others)
          /\ \A i \in 1..1 + Len(others) : all[i] = IF i <= 1 THEN entry[i] ELSE others[i - 1]
      BY <2>1, <3>2
    <3> QED BY <3>3 DEF others
  <2> HIDE DEF all, entry, old
  <2>3. ASSUME NEW k \in 1..Len(all) PROVE Proper(all[k][2], Len(envs))
    <3>1. CASE k = 1
      <4>1. all[k] = <<name, o>>
        BY <1>3, <2>1, <2>2, <3>1
      <4> QED BY <4>1
    <3>2. CASE k # 1
      <4>1. k - 1 \in 1..Len(old.store) /\ all[k] = old.store[k - 1]
        BY <1>3, <2>2, <3>2
      <4> QED BY <1>3, <4>1
    <3> QED BY <3>1, <3>2
  <2>4. Bindings(all, Len(envs))
    BY <2>2, <2>3 DEF Bindings
  <2> QED BY <1>4, <2>4 DEF all
<1>6. ASSUME NEW i \in 1..Len(envs')
      PROVE  /\ {"store", "outer"} \subseteq DOMAIN envs'[i]
             /\ envs'[i].outer \in 0..i - 1 /\ Bindings(envs'[i].store, Len(envs'))
  <2>1. /\ {"store", "outer"} \subseteq DOMAIN envs[i]
        /\ envs[i].outer \in 0..i - 1 /\ Bindings(envs[i].store, Len(envs)) /\ i \in 1..Len(envs)
    BY <1>2 DEF EnvsSound
  <2> HIDE DEF new
  <2>2. CASE i = e
    BY <1>2, <1>4, <1>5, <2>1, <2>2
  <2>3. CASE i # e
    BY <1>2, <2>1, <2>3
  <2> QED BY <2>2, <2>3
<1> HIDE DEF new
<1> QED BY <1>0, <1>2, <1>6 DEF EnvsSound

LEMMA StatementsSound ==
    ASSUME UnwindInv, ValuesInv, Statement \/ LetBound \/ Returned
    PROVE  ValuesInv'
<1>n. {"bound", "returned"} \subseteq IsErrorChecked
  BY DEF IsErrorChecked, AllButLeft
<1>1. CASE Statement
  <2>1. Running /\ Waiting.call = "eval" /\ UNCHANGED <<envs, answers>>
    BY <1>1, EnteredSound, Zenon DEF Statement
  <2>2. \/ Wait(Eval(Waiting.node.value, Env), "bound")
        \/ Wait(Eval(Waiting.node.value, Env), "returned")
        \/ Replace(<< Eval(Waiting.node.value, Env) >>)
    BY <1>1, Zenon DEF Statement
  <2>3. "bound" \in KeepNothing /\ "returned" \in KeepNothing
    BY DEF KeepNothing
  <2> QED BY <2>1, <2>2, <2>3, AsksSound, BecomesSound
<1>2. CASE LetBound
  <2>1. Running /\ Waiting.call = "bound" /\ ~IsError(object)
    BY <1>n, <1>2 DEF LetBound, At
  <2>2. Proper(object, Len(envs)) /\ Waiting.call \notin GivesList
    BY <1>n, <2>1, ObjectReceived DEF GivesList
  <2>3. Env \in 1..Len(envs) /\ EnvsSound(envs)
    BY <2>1, InCall DEF ValuesInv
  <2>4. EnvSet(Env, Waiting.node.name, object) /\ Return(object) /\ UNCHANGED answers
    BY <1>2, Zenon DEF LetBound
  <2>5. EnvsSound(envs') /\ Len(envs') = Len(envs)
    BY <2>2, <2>3, <2>4, BoundSound
  <2>6. Growing
    BY <2>3, <2>4, <2>5, SequenceForm DEF Growing, EnvsSound
  <2> QED BY <2>1, <2>2, <2>4, <2>5, <2>6, ReturnSound DEF Good
<1>3. CASE Returned
  <2>1. Running /\ Waiting.call = "returned" /\ ~IsError(object) /\ UNCHANGED <<envs, answers>>
    BY <1>n, <1>3 DEF Returned, At
  <2>2. Proper(object, Len(envs)) /\ Waiting.call \notin GivesList /\ Len(envs) \in Nat
    BY <1>n, <2>1, ObjectReceived, WaitingSound DEF GivesList
  <2>3. Return(Wrapped(object)) \/ Stop("exited")
    BY <1>3, Zenon DEF Returned
  <2>4. Proper(Wrapped(object), Len(envs))
    BY <2>2, ProperWrapped
  <2> QED BY <2>1, <2>2, <2>3, <2>4, ReturnProper, StopSound
<1> QED BY <1>1, <1>2, <1>3


LEMMA YieldSound ==
    ASSUME UnwindInv, ValuesInv, UNCHANGED <<envs, answers>>, Running, Waiting.call \notin GivesList,
           NEW STATE o, o \in {Undefined, Exit} \/ Good(o, Len(envs)), Yield(o)
    PROVE  ValuesInv'
<1>1. \/ Stop("undefined") \/ Stop("exited")
      \/ o \notin {Undefined, Exit} /\ Return(o)
  BY DEF Yield
<1> QED BY <1>1, StopSound, ReturnGood

LEMMA ValueReceived ==
    ASSUME ValuesInv, NEW name, name \in IsErrorChecked, At({name})
    PROVE  /\ Running /\ Waiting.call = name /\ name \notin GivesList /\ Len(envs) \in Nat
           /\ Proper(object, Len(envs))
<1>1. Running /\ Waiting.call = name /\ ~IsError(object)
  BY DEF At
<1>2. name \notin GivesList
  BY DEF IsErrorChecked, AllButLeft, GivesList
<1> QED BY <1>1, <1>2, ObjectReceived, WaitingSound

LEMMA NamesOfCalls ==
    /\ {"operand", "left", "right", "condition", "callee", "indexed", "index", "key", "value"}
         \subseteq IsErrorChecked
    /\ {"operand", "condition", "elements"} \subseteq KeepNothing
BY DEF IsErrorChecked, AllButLeft, KeepNothing

LEMMA NamesSound ==
    ASSUME UnwindInv, ValuesInv, Literal \/ Identifier
    PROVE  ValuesInv'
<1>1. CASE Literal
  <2>1. Running /\ Waiting.call \notin GivesList /\ Waiting.call = "eval" /\ UNCHANGED <<envs, answers>>
    BY <1>1, EnteredSound, Zenon DEF Literal
  <2>2. Waiting.node.type \in {"INT", "STRING", "BOOL", "FN"}
    BY <1>1 DEF Literal, Entering
  <2>3. Env \in 1..Len(envs) /\ Len(envs) \in Nat
    BY <2>1, InCall
  <2>4. CASE Waiting.node.type = "FN"
    <3>1. Return(Function(Waiting.node, Env))
      BY <1>1, <2>4 DEF Literal
    <3>2. Proper(Function(Waiting.node, Env), Len(envs))
      BY <2>3, ProperFunction
    <3> QED BY <2>1, <3>1, <3>2, ReturnProper
  <2>5. CASE Waiting.node.type # "FN"
    <3>1. \/ Return(Integer(Waiting.node.int)) \/ Return(String(Waiting.node.string))
          \/ Return(Boolean(Waiting.node.bool))
      BY <1>1, <2>2, <2>5 DEF Literal
    <3> QED BY <2>1, <3>1, PlainObjects, ReturnPlain
  <2> QED BY <2>4, <2>5
<1>2. CASE Identifier
  <2>1. Running /\ Waiting.call \notin GivesList /\ Waiting.call = "eval" /\ UNCHANGED <<envs, answers>>
    BY <1>2, EnteredSound, Zenon DEF Identifier
  <2>2. Env \in 1..Len(envs) /\ Len(envs) \in Nat /\ EnvsSound(envs)
    BY <2>1, InCall DEF ValuesInv
  <2> DEFINE found == EnvGet(Env, Waiting.node.name)
  <2>3. found = NotFound \/ Proper(found, Len(envs))
    BY <2>2, Found
  <2>4. \/ found # NotFound /\ Return(found)
        \/ Return(Builtin(BuiltinIndex[Waiting.node.name])) \/ Return(Error)
    BY <1>2, Zenon DEF Identifier
  <2> HIDE DEF found
  <2> QED BY <2>1, <2>3, <2>4, PlainObjects, ReturnPlain, ReturnProper
<1> QED BY <1>1, <1>2

LEMMA OperatorsSound ==
    ASSUME UnwindInv, ValuesInv, PrefixExpression \/ InfixExpression
    PROVE  ValuesInv'
<1>u. UNCHANGED <<envs, answers>>
  BY DEF PrefixExpression, InfixExpression
<1>1. CASE Entering({"PREFIX"}) /\ Wait(Eval(Waiting.node.right, Env), "operand")
  BY <1>u, <1>1, EnteredSound, AsksSound, NamesOfCalls
<1>2. CASE At({"operand"}) /\ Return(Prefix(Waiting.node.operator, object))
  <2>1. Running /\ Waiting.call \notin GivesList /\ Len(envs) \in Nat
    BY <1>2, ValueReceived, NamesOfCalls
  <2>2. Good(Prefix(Waiting.node.operator, object), Len(envs))
    BY <2>1, PrefixGood
  <2> QED BY <1>u, <1>2, <2>1, <2>2, ReturnGood
<1>3. CASE Entering({"INFIX"}) /\ Wait(Eval(Waiting.node.left, Env), "left")
  BY <1>u, <1>3, EnteredSound, AsksSound
<1>4. CASE At({"left"}) /\ WaitWith(Eval(Waiting.node.right, Env), "right", object)
  <2>1. Running /\ Waiting.call = "left" /\ Proper(object, Len(envs))
    BY <1>4, ValueReceived, NamesOfCalls
  <2> QED BY <1>u, <1>4, <2>1, KeepsSound
<1>5. CASE /\ At({"right"})
           /\ \E outcome \in Infixes(Waiting.node.operator, Waiting.kept[1], object) : Yield(outcome)
  <2>1. Running /\ Waiting.call \notin GivesList /\ Len(envs) \in Nat
    BY <1>5, ValueReceived, NamesOfCalls
  <2>2. PICK o \in Infixes(Waiting.node.operator, Waiting.kept[1], object) : Yield(o)
    BY <1>5
  <2>3. Good(o, Len(envs)) \/ o = Undefined
    BY <2>1, InfixOutcome
  <2> QED BY <1>u, <2>1, <2>2, <2>3, YieldSound
<1> QED BY <1>1, <1>2, <1>3, <1>4, <1>5, Zenon DEF PrefixExpression, InfixExpression

LEMMA ConditionalsSound ==
    ASSUME UnwindInv, ValuesInv, IfExpression
    PROVE  ValuesInv'
<1>u. UNCHANGED <<envs, answers>>
  BY DEF IfExpression
<1>1. CASE Entering({"IF"}) /\ Wait(Eval(Waiting.node.condition, Env), "condition")
  BY <1>u, <1>1, EnteredSound, AsksSound, NamesOfCalls
<1>2. CASE At({"condition"}) /\ (Return(Null) \/ \E n : Replace(<< Block(n, Env) >>))
  <2>1. Running /\ Waiting.call \notin GivesList /\ Waiting.call # "unwrap"
    BY <1>2, ValueReceived, NamesOfCalls
  <2>2. CASE Return(Null)
    BY <1>u, <2>1, <2>2, PlainObjects, ReturnPlain
  <2>3. CASE \E n : Replace(<< Block(n, Env) >>)
    BY <1>u, <2>1, <2>3, BecomesSound
  <2> QED BY <1>2, <2>2, <2>3
<1> QED BY <1>1, <1>2, Zenon DEF IfExpression

(* A list grows by one value, or there is one error in its place.          *)
LEMMA ListsSound ==
    ASSUME UnwindInv, ValuesInv, EvalExpressions \/ AppendObject
    PROVE  ValuesInv'
<1>u. UNCHANGED <<envs, answers>> /\ Growing /\ Len(envs') = Len(envs)
  BY NothingGrows DEF EvalExpressions, AppendObject
<1>1. CASE EvalExpressions
  <2> DEFINE c == Eval(Head(Waiting.node), Env)
             w == [Waiting EXCEPT !.call = "expression", !.node = Tail(@)]
  <2>1. Running /\ Waiting.call = "expressions" /\ Waiting.call \in GivesList
    BY <1>1 DEF EvalExpressions, At, GivesList
  <2>2. CallSound(Waiting, Len(envs)) /\ Env \in 1..Len(envs) /\ Len(envs) \in Nat /\ Fields \subseteq DOMAIN Waiting
    BY <2>1, InCall, WaitingSound
  <2>3. CASE Return(ListOf(Waiting.kept))
    <3>1. ListSound(ListOf(Waiting.kept), Len(envs))
      BY <2>1, <2>2 DEF CallSound, ListSound, ListOf
    <3> QED BY <1>u, <2>1, <2>3, <3>1, ReturnSound
  <2>4. CASE Replace(<< c, w >>)
    <3>1. c.call \in Fresh /\ CallSound(c, Len(envs))
      BY <2>2, FreshSound
    <3>2. Fields \subseteq DOMAIN w /\ w.call = "expression" /\ w.env = Waiting.env /\ w.kept = Waiting.kept
      BY <2>2, WaitingFields DEF Env
    <3> HIDE DEF w, c
    <3>3. CallSound(w, Len(envs))
      BY <2>1, <2>2, <3>2, KeptAsIs DEF GivesList
    <3> QED BY <1>u, <2>1, <2>4, <3>1, <3>3, WaitSound
  <2> QED BY <1>1, <2>3, <2>4, Zenon DEF EvalExpressions
<1>2. CASE AppendObject
  <2> DEFINE w == [Waiting EXCEPT !.call = "expressions", !.kept = Append(@, object)]
  <2>1. Running /\ Waiting.call = "expression" /\ Waiting.call \in GivesList
    BY <1>2 DEF AppendObject, At, GivesList
  <2>2. /\ CallSound(Waiting, Len(envs)) /\ Len(envs) \in Nat /\ Fields \subseteq DOMAIN Waiting
        /\ Good(object, Len(envs))
    BY <2>1, InCall, WaitingSound, ObjectReceived DEF Fresh, TakesList
  <2>3. \/ Stop("undefined") \/ Stop("exited")
        \/ IsError(object) /\ Return(ListOf(<<object>>))
        \/ ~IsError(object) /\ Replace(<< w >>)
    <3>1. CASE IsError(object) /\ Waiting.kept = << >>
      BY <1>2, <3>1, Zenon DEF AppendObject
    <3>2. CASE IsError(object) /\ Waiting.kept # << >>
      BY <1>2, <3>2, Zenon DEF AppendObject
    <3>3. CASE ~IsError(object) /\ ~Copyable(object)
      BY <1>2, <3>3, Zenon DEF AppendObject
    <3>4. CASE ~IsError(object) /\ Copyable(object)
      BY <1>2, <3>4, Zenon DEF AppendObject
    <3> QED BY <3>1, <3>2, <3>3, <3>4, Zenon
  <2>4. CASE IsError(object) /\ Return(ListOf(<<object>>))
    <3>1. SoleError(<<object>>)
      BY <2>4 DEF SoleError
    <3>2. ListSound(ListOf(<<object>>), Len(envs))
      BY <3>1 DEF ListSound, ListOf
    <3> QED BY <1>u, <2>1, <2>4, <3>2, ReturnSound
  <2>5. CASE ~IsError(object) /\ Replace(<< w >>)
    <3>1. /\ Fields \subseteq DOMAIN w /\ w.call = "expressions" /\ w.env = Waiting.env
          /\ w.kept = Append(Waiting.kept, object)
      BY <2>2, WaitingFields DEF Env
    <3>2. Proper(object, Len(envs))
      BY <2>2, <2>5 DEF Good
    <3> HIDE DEF w
    <3>3. CallSound(w, Len(envs))
      BY <2>1, <2>2, <3>1, <3>2, KeptMore
    <3> QED BY <1>u, <2>1, <2>5, <3>1, <3>3, ReplaceSound DEF Fresh
  <2> QED BY <1>u, <2>3, <2>4, <2>5, StopSound
<1> QED BY <1>1, <1>2

(* ... which comes out where the list was awaited.                         *)
LEMMA ListReceived ==
    ASSUME ValuesInv, NEW name, name \in TakesList, At({name})
    PROVE  /\ Running /\ Waiting.call = name /\ name \notin GivesList /\ Len(envs) \in Nat
           /\ SoleError(object.items) => Good(object.items[1], Len(envs))
           /\ ~SoleError(object.items) => AllProper(object.items, Len(envs))
<1>1. Running /\ Waiting.call = name
  BY DEF At
<1>2. ListSound(object, Len(envs)) /\ name \notin GivesList
  BY <1>1, ObjectReceived DEF TakesList, GivesList
<1> QED BY <1>1, <1>2, WaitingSound DEF ListSound, SoleError, Good

LEMMA AsksListSound ==
    ASSUME ValuesInv, UNCHANGED <<envs, answers>>, Running, NEW STATE x,
           \/ Waiting.call = "eval" /\ Wait(Expressions(x), "elements")
           \/ /\ Waiting.call = "callee" /\ Proper(object, Len(envs))
              /\ WaitWith(Expressions(x), "arguments", object)
    PROVE  ValuesInv'
<1> DEFINE c == Expressions(x)
<1>1. Waiting.call # "unwrap" /\ Env \in 1..Len(envs) /\ Len(envs) \in Nat
  BY InCall
<1>2. c.call \in Fresh /\ CallSound(c, Len(envs))
  BY <1>1, FreshSound
<1>3. \/ Waiting.call = "eval" /\ Wait(c, "elements")
      \/ /\ Waiting.call = "callee" /\ Proper(object, Len(envs)) /\ WaitWith(c, "arguments", object)
  OBVIOUS
<1> HIDE DEF c
<1> QED BY <1>1, <1>2, <1>3, WaitNamed, WaitKeeping, NamesOfCalls

LEMMA ArraysSound ==
    ASSUME UnwindInv, ValuesInv, ArrayLiteral \/ CallExpression
    PROVE  ValuesInv'
<1>u. UNCHANGED <<envs, answers>>
  BY DEF ArrayLiteral, CallExpression
<1>1. CASE Entering({"ARRAY"}) /\ Wait(Expressions(Waiting.node.elements), "elements")
  BY <1>u, <1>1, EnteredSound, AsksListSound
<1>2. CASE /\ At({"elements"})
           /\ Return(IF SoleError(object.items) THEN object.items[1] ELSE ArrayOf(object.items))
  <2>1. /\ Running /\ Waiting.call \notin GivesList /\ Len(envs) \in Nat
        /\ SoleError(object.items) => Good(object.items[1], Len(envs))
        /\ ~SoleError(object.items) => AllProper(object.items, Len(envs))
    BY <1>2, ListReceived DEF TakesList
  <2>2. CASE SoleError(object.items)
    BY <1>u, <1>2, <2>1, <2>2, ReturnGood
  <2>3. CASE ~SoleError(object.items)
    <3>1. Proper(ArrayOf(object.items), Len(envs))
      BY <2>1, <2>3, ProperArray
    <3> QED BY <1>u, <1>2, <2>1, <2>3, <3>1, ReturnProper
  <2> QED BY <2>2, <2>3
<1>3. CASE Entering({"CALL"}) /\ Wait(Eval(Waiting.node.fn, Env), "callee")
  BY <1>u, <1>3, EnteredSound, AsksSound
<1>4. CASE At({"callee"}) /\ WaitWith(Expressions(Waiting.node.args), "arguments", object)
  <2>1. Running /\ Waiting.call = "callee" /\ Proper(object, Len(envs))
    BY <1>4, ValueReceived, NamesOfCalls
  <2> QED BY <1>u, <1>4, <2>1, AsksListSound
<1> QED BY <1>1, <1>2, <1>3, <1>4, Zenon DEF ArrayLiteral, CallExpression

(* A call of a function adds an environment that is younger than the one   *)
(* the function was made in, with its arguments.                           *)
LEMMA EnteredFunction ==
    ASSUME EnvsSound(envs), NEW STATE fn, fn.env \in 1..Len(envs),
           NEW STATE args, AllProper(args, Len(envs)), envs' = Append(envs, ExtendedEnv(fn, args))
    PROVE  EnvsSound(envs') /\ Len(envs') = Len(envs) + 1
<1> DEFINE n == Len(envs)
           new == ExtendedEnv(fn, args)
<1>1. IsSequence(envs) /\ n \in Nat /\ IsSequence(args) /\ Len(args) \in Nat
  BY SequenceForm DEF EnvsSound, AllProper
<1>2. /\ IsSequence(envs') /\ Len(envs') = n + 1 /\ envs'[n + 1] = new
      /\ \A i \in 1..n : envs'[i] = envs[i]
  <2>1. envs' = Append(envs, new)
    OBVIOUS
  <2> HIDE DEF new
  <2>2. /\ IsSequence(Append(envs, new)) /\ Len(Append(envs, new)) = n + 1
        /\ Append(envs, new)[n + 1] = new /\ \A i \in 1..n : Append(envs, new)[i] = envs[i]
    BY <1>1, SequenceAppend
  <2> QED BY <2>1, <2>2
<1>3. /\ {"store", "outer"} \subseteq DOMAIN new /\ new.outer = fn.env
      /\ new.store = [i \in 1..Len(args) |-> <<fn.params[Len(args) + 1 - i], args[Len(args) + 1 - i]>>]
  BY DEF ExtendedEnv
<1>4. Bindings(new.store, n + 1)
  <2> DEFINE s == [i \in 1..Len(args) |-> <<fn.params[Len(args) + 1 - i], args[Len(args) + 1 - i]>>]
  <2>1. IsSequence(s) /\ Len(s) = Len(args)
    <3> DEFINE S == {s[i] : i \in 1..Len(args)}
    <3>1. s \in [1..Len(args) -> S]
      OBVIOUS
    <3> HIDE DEF s, S
    <3>2. s \in Seq(S) /\ Len(s) = Len(args)
      BY <1>1, <3>1, SequenceMade
    <3> QED BY <3>2 DEF IsSequence
  <2>2. ASSUME NEW k \in 1..Len(s) PROVE Proper(s[k][2], n + 1)
    <3>1. k \in 1..Len(args) /\ Len(args) + 1 - k \in 1..Len(args)
      BY <1>1, <2>1
    <3>2. s[k][2] = args[Len(args) + 1 - k]
      BY <3>1
    <3>3. Proper(args[Len(args) + 1 - k], n)
      BY <3>1 DEF AllProper
    <3> QED BY <1>1, <3>2, <3>3, ProperMore
  <2> QED BY <1>3, <2>1, <2>2 DEF Bindings
<1>5. ASSUME NEW i \in 1..Len(envs')
      PROVE  /\ {"store", "outer"} \subseteq DOMAIN envs'[i]
             /\ envs'[i].outer \in 0..i - 1 /\ Bindings(envs'[i].store, Len(envs'))
  <2> HIDE DEF new
  <2>1. CASE i = n + 1
    <3>1. envs'[i] = new /\ Len(envs') = n + 1
      BY <1>2, <2>1
    <3>2. new.outer \in 0..i - 1
      BY <1>1, <1>3, <2>1
    <3> QED BY <1>3, <1>4, <3>1, <3>2
  <2>2. CASE i # n + 1
    <3>1. i \in 1..n /\ envs'[i] = envs[i]
      BY <1>1, <1>2, <2>2
    <3>2. /\ {"store", "outer"} \subseteq DOMAIN envs[i]
          /\ envs[i].outer \in 0..i - 1 /\ Bindings(envs[i].store, n)
      BY <3>1 DEF EnvsSound
    <3>3. Bindings(envs[i].store, n + 1)
      BY <1>1, <3>2, ProperMore DEF Bindings
    <3> QED BY <1>2, <3>1, <3>2, <3>3
  <2> QED BY <2>1, <2>2
<1> QED BY <1>1, <1>2, <1>5 DEF EnvsSound

LEMMA FunctionsSound ==
    ASSUME UnwindInv, ValuesInv, ApplyFunction \/ ApplyOther
    PROVE  ValuesInv'
<1>1. At({"arguments"}) /\ UNCHANGED answers
  BY DEF ApplyFunction, ApplyOther
<1>2. /\ Running /\ Waiting.call = "arguments" /\ Waiting.call \notin GivesList /\ Len(envs) \in Nat
      /\ SoleError(object.items) => Good(object.items[1], Len(envs))
      /\ ~SoleError(object.items) => AllProper(object.items, Len(envs))
  BY <1>1, ListReceived DEF TakesList
<1>3. Proper(Callee, Len(envs))
  BY <1>2, WaitingSound DEF CallSound, Callee
<1>4. CASE ApplyFunction
  <2>1. AllProper(object.items, Len(envs)) /\ Callee.t = "FUNCTION" /\ Callee.env \in 1..Len(envs)
    BY <1>2, <1>3, <1>4, ProperParts DEF ApplyFunction
  <2>2. CASE /\ envs' = Append(envs, ExtendedEnv(Callee, object.items))
             /\ Replace(<< Block(Callee.body, Len(envs')), Unwrap >>)
    <3>1. EnvsSound(envs') /\ Len(envs') = Len(envs) + 1
      BY <2>1, <2>2, EnteredFunction DEF ValuesInv
    <3>2. PICK e : e = Len(envs')
      OBVIOUS
    <3> DEFINE c == Block(Callee.body, e)
    <3>3. Growing /\ e \in 1..Len(envs') /\ Len(envs') \in Nat
      BY <1>1, <1>2, <3>1, <3>2 DEF Growing
    <3>4. c.call \in Fresh /\ CallSound(c, Len(envs'))
      BY <3>3, FreshSound
    <3>5. CallSound(Unwrap, Len(envs'))
      BY DEF CallSound, Unwrap
    <3>6. Replace(<< c, Unwrap >>)
      BY <2>2, <3>2
    <3> HIDE DEF c
    <3> QED BY <1>2, <3>3, <3>4, <3>5, <3>6, WaitSound
  <2>3. CASE Stop("exited") /\ UNCHANGED envs
    BY <1>1, <2>3, StopSound
  <2> QED BY <1>4, <2>2, <2>3, Zenon DEF ApplyFunction
<1>5. CASE ApplyOther
  <2>1. PICK o : /\ Yield(o)
                 /\ o = IF SoleError(object.items) THEN object.items[1]
                        ELSE IF Callee.t = "BUILT_IN" THEN CallBuiltin(Callee.index, object.items) ELSE Error
    BY <1>5, Zenon DEF ApplyOther
  <2>2. UNCHANGED envs
    BY <1>5 DEF ApplyOther
  <2>3. o \in {Undefined, Exit} \/ Good(o, Len(envs))
    <3>1. CASE SoleError(object.items)
      BY <1>2, <2>1, <3>1
    <3>2. CASE ~SoleError(object.items) /\ Callee.t = "BUILT_IN"
      <4>1. o = CallBuiltin(Callee.index, object.items)
        BY <2>1, <3>2
      <4> QED BY <1>2, <3>2, <4>1, BuiltinGood
    <3>3. CASE ~SoleError(object.items) /\ Callee.t # "BUILT_IN"
      BY <1>2, <2>1, <3>3, PlainGood
    <3> QED BY <3>1, <3>2, <3>3
  <2> QED BY <1>1, <1>2, <2>1, <2>2, <2>3, YieldSound
<1> QED BY <1>4, <1>5

LEMMA IndexSound ==
    ASSUME UnwindInv, ValuesInv, IndexExpression
    PROVE  ValuesInv'
<1>u. UNCHANGED <<envs, answers>>
  BY DEF IndexExpression
<1>1. CASE Entering({"INDEX"}) /\ Wait(Eval(Waiting.node.left, Env), "indexed")
  BY <1>u, <1>1, EnteredSound, AsksSound
<1>2. CASE At({"indexed"}) /\ WaitWith(Eval(Waiting.node.index, Env), "index", object)
  <2>1. Running /\ Waiting.call = "indexed" /\ Proper(object, Len(envs))
    BY <1>2, ValueReceived, NamesOfCalls
  <2> QED BY <1>u, <1>2, <2>1, KeepsSound
<1>3. CASE At({"index"}) /\ Return(Item(Waiting.kept[1], object))
  <2>1. Running /\ Waiting.call = "index" /\ Waiting.call \notin GivesList /\ Len(envs) \in Nat
    BY <1>3, ValueReceived, NamesOfCalls
  <2>2. Proper(Waiting.kept[1], Len(envs))
    BY <2>1, WaitingSound DEF CallSound
  <2>3. Good(Item(Waiting.kept[1], object), Len(envs))
    BY <2>1, <2>2, ItemGood
  <2> QED BY <1>u, <1>3, <2>1, <2>3, ReturnGood
<1> QED BY <1>1, <1>2, <1>3, Zenon DEF IndexExpression

Put(s, k, x) == [s EXCEPT ![k] = x]

LEMMA OneReplaced ==
    ASSUME NEW s, IsSequence(s), NEW k, k \in 1..Len(s), NEW x
    PROVE  /\ IsSequence(Put(s, k, x)) /\ Len(Put(s, k, x)) = Len(s)
           /\ \A i \in 1..Len(s) : Put(s, k, x)[i] = IF i = k THEN x ELSE s[i]
<1>1. \A y : /\ IsSequence([s EXCEPT ![k] = y]) /\ Len([s EXCEPT ![k] = y]) = Len(s)
             /\ \A i \in 1..Len(s) : [s EXCEPT ![k] = y][i] = IF i = k THEN y ELSE s[i]
  BY SequenceExcept
<1> QED BY <1>1, Zenon DEF Put

(* A pair of proper values takes the place of the key that was last.       *)
Paired(kept, o) == [kept EXCEPT ![Len(kept)] = <<@, o>>]

LEMMA PairAdded ==
    ASSUME NEW n \in Nat, NEW ps, PairsProper(ps, n), NEW key, Proper(key, n), NEW o, Proper(o, n)
    PROVE  PairsProper(Paired(Append(ps, key), o), n)
<1> DEFINE m == Len(ps)
           pair == <<key, o>>
           kept == Append(ps, key)
           all == Paired(kept, o)
<1>1. IsSequence(ps) /\ m \in Nat
  BY SequenceForm DEF PairsProper
<1>2. /\ IsSequence(kept) /\ Len(kept) = m + 1 /\ kept[m + 1] = key
      /\ \A i \in 1..m : kept[i] = ps[i]
  BY <1>1, SequenceAppend
<1> HIDE DEF kept
<1>3. all = Put(kept, m + 1, pair) /\ m + 1 \in 1..Len(kept)
  BY <1>1, <1>2 DEF Paired, Put
<1> HIDE DEF all, pair
<1>4. /\ IsSequence(all) /\ Len(all) = Len(kept)
      /\ \A i \in 1..Len(kept) : all[i] = IF i = m + 1 THEN pair ELSE kept[i]
  BY <1>2, <1>3, OneReplaced
<1>5. /\ IsSequence(all) /\ Len(all) = m + 1
      /\ \A i \in 1..m + 1 : all[i] = IF i = m + 1 THEN pair ELSE kept[i]
  BY <1>2, <1>3, <1>4
<1>6. ASSUME NEW i \in 1..Len(all) PROVE Proper(all[i][1], n) /\ Proper(all[i][2], n)
  <2>1. CASE i = m + 1
    <3>1. all[i] = pair
      BY <1>5, <2>1
    <3> QED BY <3>1 DEF pair
  <2>2. CASE i # m + 1
    <3>1. i \in 1..m /\ all[i] = ps[i]
      BY <1>1, <1>2, <1>5, <2>2
    <3> QED BY <3>1 DEF PairsProper
  <2> QED BY <2>1, <2>2
<1>7. PairsProper(all, n)
  BY <1>5, <1>6 DEF PairsProper
<1> QED BY <1>7 DEF all, kept

LEMMA PairsSound ==
    ASSUME ValuesInv, UNCHANGED <<envs, answers>>, Running, Waiting.call # "unwrap", NEW STATE x,
           NEW STATE ps, PairsProper(ps, Len(envs)), Replace(<< Pairs(x, ps) >>)
    PROVE  ValuesInv'
<1> DEFINE c == Pairs(x, ps)
<1>1. Env \in 1..Len(envs) /\ Len(envs) \in Nat /\ Len(envs') = Len(envs)
  BY InCall
<1>2. c.call \in Fresh /\ CallSound(c, Len(envs))
  BY <1>1, FreshSound
<1>3. Replace(<< c >>)
  OBVIOUS
<1> HIDE DEF c
<1> QED BY <1>1, <1>2, <1>3, NothingGrows, ReplaceSound

LEMMA HashSound ==
    ASSUME UnwindInv, ValuesInv, HashLiteral
    PROVE  ValuesInv'
<1>u. UNCHANGED <<envs, answers>>
  BY DEF HashLiteral
<1>1. CASE Entering({"HASH"}) /\ Replace(<< Pairs(Waiting.node.pairs, << >>) >>)
  <2>1. PairsProper(<< >>, Len(envs))
    BY EmptySeq DEF PairsProper, IsSequence
  <2> QED BY <1>u, <1>1, <2>1, EnteredSound, PairsSound
<1>2. CASE /\ At({"pairs"})
           /\ \/ Return(HashOf(Waiting.kept)) \/ Wait(Eval(Head(Waiting.node)[1], Env), "key")
  <2>1. Running /\ Waiting.call = "pairs" /\ Waiting.call \notin GivesList
    BY <1>2 DEF At, GivesList
  <2>2. CASE Return(HashOf(Waiting.kept))
    <3>1. PairsProper(Waiting.kept, Len(envs)) /\ Len(envs) \in Nat
      BY <2>1, WaitingSound DEF CallSound
    <3>2. Proper(HashOf(Waiting.kept), Len(envs))
      BY <3>1, ProperHash
    <3> QED BY <1>u, <2>1, <2>2, <3>2, ReturnProper
  <2>3. CASE Wait(Eval(Head(Waiting.node)[1], Env), "key")
    BY <1>u, <2>1, <2>3, AsksSound
  <2> QED BY <1>2, <2>2, <2>3
<1>3. CASE /\ At({"key"})
           /\ \/ WaitWith(Eval(Head(Waiting.node)[2], Env), "value", object)
              \/ Return(Error)
  <2>1. Running /\ Waiting.call = "key" /\ Waiting.call \notin GivesList /\ Proper(object, Len(envs))
    BY <1>3, ValueReceived, NamesOfCalls
  <2>2. CASE WaitWith(Eval(Head(Waiting.node)[2], Env), "value", object)
    BY <1>u, <2>1, <2>2, KeepsSound
  <2>3. CASE Return(Error)
    BY <1>u, <2>1, <2>3, ReturnPlain
  <2> QED BY <1>3, <2>2, <2>3
<1>4. CASE /\ At({"value"})
           /\ LET n == Len(Waiting.kept)
              IN  IF Copyable(object)
                  THEN Replace(<< Pairs(Tail(Waiting.node), [Waiting.kept EXCEPT ![n] = <<@, object>>]) >>)
                  ELSE Stop("exited")
  <2> DEFINE ps == Paired(Waiting.kept, object)
  <2>1. Running /\ Waiting.call = "value" /\ Proper(object, Len(envs)) /\ Len(envs) \in Nat
    BY <1>4, ValueReceived, NamesOfCalls
  <2>2. CallSound(Waiting, Len(envs))
    BY <2>1, WaitingSound
  <2>3. PICK old, key : /\ PairsProper(old, Len(envs)) /\ Proper(key, Len(envs))
                        /\ Waiting.kept = Append(old, key)
    BY <2>1, <2>2 DEF CallSound
  <2>4. PairsProper(ps, Len(envs))
    BY <2>1, <2>3, PairAdded
  <2>5. Replace(<< Pairs(Tail(Waiting.node), ps) >>) \/ Stop("exited")
    BY <1>4, Zenon DEF Paired
  <2> HIDE DEF ps
  <2> QED BY <1>u, <2>1, <2>4, <2>5, PairsSound, StopSound
<1> QED BY <1>1, <1>2, <1>3, <1>4, Zenon DEF HashLiteral

-----------------------------------------------------------------------------
(* The values of a session *)

LEMMA EndSound ==
    ASSUME ValuesInv, EndProgram
    PROVE  ValuesInv'
<1>1. /\ calls = << >> /\ evaluation = "running" /\ UNCHANGED <<envs, calls, object>>
      /\ \/ evaluation' = "idle" /\ answers' = Append(answers, object)
         \/ evaluation' = "undefined" /\ answers' = answers
  BY DEF EndProgram
<1>2. Len(envs) \in Nat /\ Good(object, Len(envs))
  BY <1>1, SequenceForm DEF ValuesInv, EnvsSound, ObjectSound
<1>3. AnswersSound(answers')
  <2>0. CASE answers' = answers
    BY <2>0 DEF ValuesInv, AnswersSound
  <2> SUFFICES ASSUME answers' = Append(answers, object) PROVE AnswersSound(answers')
    BY <1>1, <2>0
  <2>1. IsSequence(answers) /\ answers' = Append(answers, object)
    BY DEF ValuesInv, AnswersSound
  <2>2. /\ IsSequence(answers') /\ Len(answers') = Len(answers) + 1 /\ Len(answers) \in Nat
        /\ answers'[Len(answers) + 1] = object
        /\ \A i \in 1..Len(answers) : answers'[i] = answers[i]
    BY <2>1, SequenceAppend, SequenceForm
  <2>3. object.t \in ObjectTypes
    BY <1>2, GoodDefined
  <2>4. ASSUME NEW i \in 1..Len(answers') PROVE answers'[i].t \in ObjectTypes
    <3>1. i = Len(answers) + 1 \/ i \in 1..Len(answers)
      BY <2>2
    <3>2. \A k \in 1..Len(answers) : answers[k].t \in ObjectTypes
      BY DEF ValuesInv, AnswersSound
    <3> QED BY <2>2, <2>3, <3>1, <3>2
  <2> QED BY <2>2, <2>4 DEF AnswersSound
<1>4. EnvsSound(envs)' /\ CallsSound(calls, Len(envs))' /\ AnswersSound(answers)'
  BY <1>1, <1>3 DEF ValuesInv
<1> QED BY <1>1, <1>4 DEF ValuesInv

LEMMA BeginSound ==
    ASSUME ValuesInv, NEW program, BeginProgram(program)
    PROVE  ValuesInv'
<1> DEFINE c == Block(program, 1)
<1>1. /\ calls' = << c, Unwrap >> /\ UNCHANGED <<envs, answers>> /\ evaluation' = "running"
  BY DEF BeginProgram
<1>2. Len(envs) \in Nat /\ 1 \in 1..Len(envs) /\ Growing /\ Len(envs') = Len(envs)
  BY <1>1, SequenceForm, NothingGrows DEF ValuesInv, EnvsSound
<1>3. c.call \in Fresh /\ CallSound(c, Len(envs))
  BY <1>2, FreshSound
<1> HIDE DEF c
<1>4. CallSound(Unwrap, Len(envs))
  BY DEF CallSound, Unwrap
<1>5. calls' \in Seq({c, Unwrap}) /\ Len(calls') = 2 /\ calls'[1] = c /\ calls'[2] = Unwrap
  BY <1>1
<1>6. CallsSound(calls', Len(envs'))
  <2>1. IsSequence(calls')
    BY <1>5 DEF IsSequence
  <2>2. ASSUME NEW k \in 1..Len(calls') PROVE CallSound(calls'[k], Len(envs))
    <3>1. k = 1 \/ k = 2
      BY <1>5
    <3> QED BY <1>3, <1>4, <1>5, <3>1
  <2> QED BY <1>2, <2>1, <2>2 DEF CallsSound
<1>7. ObjectSound(calls', object', Len(envs'))
  <2>1. calls' # << >> /\ Head(calls') = c
    BY <1>5
  <2> QED BY <1>3, <2>1 DEF ObjectSound, Receives, Fresh, TakesList
<1> QED BY <1>1, <1>2, <1>6, <1>7, AfterStep

LEMMA NextSound ==
    ASSUME UnwindInv, ValuesInv, NextEvaluator
    PROVE  ValuesInv'
<1>1. CASE PassError
  <2>1. Running /\ Waiting.call \notin GivesList /\ IsError(object) /\ Return(object)
        /\ UNCHANGED <<envs, answers>>
    BY <1>1 DEF PassError, GivesList, IsErrorChecked, AllButLeft
  <2> QED BY <2>1, ReturnGood DEF Good
<1> QED BY <1>1, EndSound, BlocksSound, StatementsSound, NamesSound, OperatorsSound, ConditionalsSound,
           ListsSound, ArraysSound, FunctionsSound, IndexSound, HashSound, Zenon DEF NextEvaluator

LEMMA InitSound ==
    ASSUME InitEvaluator
    PROVE  UnwindInv /\ ValuesInv
<1>1. UnwindInv /\ evaluation = "idle" /\ envs = << GlobalEnv >> /\ calls = << >> /\ answers = << >>
  BY DEF InitEvaluator, UnwindInv
<1>2. IsSequence(<< >>) /\ Len(<< >>) = 0
  BY EmptySeq DEF IsSequence
<1>3. IsSequence(envs) /\ Len(envs) = 1 /\ envs[1] = GlobalEnv
  BY <1>1, SequenceOfOne
<1>4. EnvsSound(envs)
  <2>1. {"store", "outer"} \subseteq DOMAIN GlobalEnv /\ GlobalEnv.outer = 0 /\ GlobalEnv.store = << >>
    BY DEF GlobalEnv
  <2>2. Bindings(<< >>, 1)
    BY <1>2 DEF Bindings
  <2>3. \A e \in 1..Len(envs) : e = 1
    BY <1>3
  <2> QED BY <1>3, <2>1, <2>2, <2>3 DEF EnvsSound
<1>5. CallsSound(calls, Len(envs)) /\ AnswersSound(answers)
  BY <1>1, <1>2 DEF CallsSound, AnswersSound
<1> QED BY <1>1, <1>4, <1>5 DEF ValuesInv

Inv == UnwindInv /\ ValuesInv

LEMMA Inductive ==
    ASSUME Inv, [NextEvaluator \/ \E program \in Lines : BeginProgram(program)]_evaluatorVars
    PROVE  Inv'
<1>1. UnwindInv'
  BY UnwindInductive DEF Inv
<1>2. CASE UNCHANGED evaluatorVars
  BY <1>1, <1>2 DEF evaluatorVars, Inv, ValuesInv
<1> QED BY <1>1, <1>2, NextSound, BeginSound DEF Inv

LEMMA TypesFollow ==
    ASSUME ValuesInv
    PROVE  InterpreterTypeOK
<1>1. Len(envs) \in Nat /\ DOMAIN envs = 1..Len(envs) /\ IsSequence(calls) /\ IsSequence(answers)
  BY SequenceForm DEF ValuesInv, EnvsSound, CallsSound, AnswersSound
<1>2. DOMAIN calls = 1..Len(calls) /\ DOMAIN answers = 1..Len(answers)
  BY <1>1, SequenceForm
<1>3. ASSUME NEW e \in DOMAIN envs
      PROVE  /\ envs[e].outer \in 0..e - 1
             /\ \A k \in DOMAIN envs[e].store : envs[e].store[k][2].t \in ObjectTypes \ {"ERROR"}
  <2>1. envs[e].outer \in 0..e - 1 /\ Bindings(envs[e].store, Len(envs))
    BY <1>1 DEF ValuesInv, EnvsSound
  <2>2. DOMAIN envs[e].store = 1..Len(envs[e].store)
    BY <2>1, SequenceForm DEF Bindings
  <2>3. ASSUME NEW k \in 1..Len(envs[e].store) PROVE envs[e].store[k][2].t \in ObjectTypes \ {"ERROR"}
    <3>1. Proper(envs[e].store[k][2], Len(envs))
      BY <2>1 DEF Bindings
    <3> QED BY <1>1, <3>1, ProperParts DEF Values
  <2> QED BY <2>1, <2>2, <2>3
<1>4. \A k \in DOMAIN calls : calls[k].call # "unwrap" => calls[k].env \in DOMAIN envs
  BY <1>1, <1>2 DEF ValuesInv, CallsSound, CallSound
<1>5. \A i \in DOMAIN answers : answers[i].t \in ObjectTypes
  BY <1>2 DEF ValuesInv, AnswersSound
<1>6. evaluation \in {"idle", "running", "undefined", "exited"}
  BY DEF ValuesInv
<1> QED BY <1>3, <1>4, <1>5, <1>6 DEF InterpreterTypeOK

(* No name is ever bound to an error or to what is no object, no line      *)
(* evaluates to what is no object, and no environment is outside itself.   *)
THEOREM InterpreterTypesCorrect == SpecEvaluator => []InterpreterTypeOK
<1>1. InitEvaluator => Inv
  BY InitSound DEF Inv
<1>2. Inv /\ [NextEvaluator \/ \E program \in Lines : BeginProgram(program)]_evaluatorVars => Inv'
  BY Inductive
<1>3. Inv => InterpreterTypeOK
  BY TypesFollow DEF Inv
<1> QED BY <1>1, <1>2, <1>3, PTL DEF SpecEvaluator

-----------------------------------------------------------------------------
(* Faults *)

Faults == evaluation = "running" /\ evaluation' = "undefined"
Cause ==
    IF calls = << >> THEN object.t # "FUNCTION" /\ Textless(object)
    ELSE EmptyBlock \/ FirstFails \/ ZeroDivisor \/ TextlessPut

LEMMA NoFault ==
    ASSUME Faults
    PROVE  /\ \A o : ~Return(o)
           /\ \A s : ~Replace(s)
           /\ \A c, name : ~Wait(c, name)
           /\ \A c, name, o : ~WaitWith(c, name, o)
           /\ ~Stop("exited")
<1>1. evaluation # evaluation'
  BY DEF Faults
<1>2. (\A o : ~Return(o)) /\ (\A s : ~Replace(s)) /\ ~Stop("exited")
  BY <1>1 DEF Faults, Return, Replace, Stop
<1> QED BY <1>2, Zenon DEF Wait, WaitWith

LEMMA YieldFault ==
    ASSUME Faults, NEW STATE o, Yield(o)
    PROVE  o = Undefined
<1>1. \/ o = Undefined \/ Stop("exited") \/ Return(o)
  BY DEF Yield
<1> QED BY <1>1, NoFault

LEMMA FaultStep ==
    ASSUME Inv, Faults, NextEvaluator
    PROVE  Cause
<1>1. CASE BeginBlock
  <2>1. Waiting.call = "block" /\ calls # << >>
    BY <1>1 DEF BeginBlock, At, Running
  <2>2. Waiting.node = << >>
    BY <1>1, NoFault, Zenon DEF BeginBlock
  <2> QED BY <2>1, <2>2 DEF Cause, EmptyBlock
<1>2. CASE AppendObject
  <2>1. Waiting.call = "expression" /\ calls # << >>
    BY <1>2 DEF AppendObject, At, Running
  <2>2. IsError(object) /\ Waiting.kept = << >>
    <3>1. CASE IsError(object) /\ Waiting.kept # << >>
      BY <1>2, <3>1, NoFault, Zenon DEF AppendObject
    <3>2. CASE ~IsError(object) /\ ~Copyable(object)
      BY <1>2, <3>2, NoFault, Zenon DEF AppendObject
    <3>3. CASE ~IsError(object) /\ Copyable(object)
      BY <1>2, <3>3, NoFault, Zenon DEF AppendObject
    <3> QED BY <3>1, <3>2, <3>3, Zenon
  <2> QED BY <2>1, <2>2 DEF Cause, FirstFails
<1>3. CASE InfixExpression
  <2>1. /\ At({"right"})
        /\ \E outcome \in Infixes(Waiting.node.operator, Waiting.kept[1], object) : Yield(outcome)
    BY <1>3, NoFault, Zenon DEF InfixExpression
  <2>2. PICK o \in Infixes(Waiting.node.operator, Waiting.kept[1], object) : Yield(o)
    BY <2>1
  <2>3. o = Undefined
    BY <2>2, YieldFault
  <2>4. ~Good(o, 0)
    BY <2>3, GoodDefined
  <2>5. Waiting.node.operator = "/" /\ object.t = "INTEGER" /\ object.int = 0
    BY <2>4, InfixOutcome
  <2>6. Waiting.call = "right" /\ calls # << >>
    BY <2>1 DEF At, Running
  <2> QED BY <2>5, <2>6 DEF Cause, ZeroDivisor
<1>4. CASE ApplyOther
  <2>1. PICK o : /\ Yield(o)
                 /\ o = IF SoleError(object.items) THEN object.items[1]
                        ELSE IF Callee.t = "BUILT_IN" THEN CallBuiltin(Callee.index, object.items) ELSE Error
    BY <1>4, Zenon DEF ApplyOther
  <2>2. o = Undefined
    BY <2>1, YieldFault
  <2>3. /\ Len(envs) \in Nat
        /\ SoleError(object.items) => Good(object.items[1], Len(envs))
        /\ ~SoleError(object.items) => AllProper(object.items, Len(envs))
    BY <1>4, ListReceived DEF ApplyOther, TakesList, Inv
  <2>4. Waiting.call = "arguments" /\ calls # << >>
    BY <1>4 DEF ApplyOther, At, Running
  <2>5. Undefined # Exit
    BY DEF Undefined, Exit
  <2>6. CASE SoleError(object.items)
    BY <2>1, <2>2, <2>3, <2>6, GoodDefined
  <2>7. CASE ~SoleError(object.items) /\ Callee.t = "BUILT_IN"
    <3>1. Undefined = CallBuiltin(Callee.index, object.items)
      BY <2>1, <2>2, <2>7
    <3>2. ~Good(Undefined, Len(envs))
      BY <2>3, GoodDefined
    <3>3. Callee.index = 4 /\ \E i \in DOMAIN object.items : Textless(object.items[i])
      BY <2>3, <2>5, <2>7, <3>1, <3>2, BuiltinGood
    <3>4. TextlessPut
      BY <2>4, <2>7, <3>3 DEF TextlessPut, IsPuts
    <3> QED BY <2>4, <3>4 DEF Cause
  <2>8. CASE ~SoleError(object.items) /\ Callee.t # "BUILT_IN"
    BY <2>1, <2>2, <2>3, <2>8, PlainGood, GoodDefined
  <2> QED BY <2>6, <2>7, <2>8
<1>5. CASE EndProgram
  <2>1. calls = << >> /\ evaluation = "running" /\ ~Shown
    BY <1>5 DEF EndProgram, Faults
  <2>2. Len(envs) \in Nat /\ Good(object, Len(envs))
    BY <2>1, SequenceForm DEF Inv, ValuesInv, EnvsSound, ObjectSound
  <2>3. object.t # "FUNCTION" /\ Textless(object)
    BY <2>1, <2>2, GoodWhole DEF Shown, Printable
  <2> QED BY <2>1, <2>3 DEF Cause
<1>6. ~PassError /\ ~NextInBlock /\ ~UnwrapReturnValue /\ ~Statement /\ ~LetBound /\ ~Returned
  BY NoFault, Zenon DEF PassError, NextInBlock, UnwrapReturnValue, Statement, LetBound, Returned
<1>7. ~Literal /\ ~Identifier /\ ~PrefixExpression /\ ~IfExpression /\ ~EvalExpressions
  BY NoFault, Zenon DEF Literal, Identifier, PrefixExpression, IfExpression, EvalExpressions
<1>8. ~ArrayLiteral /\ ~CallExpression /\ ~ApplyFunction /\ ~IndexExpression /\ ~HashLiteral
  BY NoFault, Zenon DEF ArrayLiteral, CallExpression, ApplyFunction, IndexExpression, HashLiteral
<1> QED BY <1>1, <1>2, <1>3, <1>4, <1>5, <1>6, <1>7, <1>8, Zenon DEF NextEvaluator

(* The interpreter comes to nothing undefined but for an empty block, a    *)
(* list whose first expression fails, a division by zero, and a value that *)
(* has no text and is put or is what the line comes to: no pointer it      *)
(* follows, in a builtin or elsewhere, leads to what is no object.         *)
THEOREM FaultsHaveCause == SpecEvaluator => FaultsExplained
<1>1. InitEvaluator => Inv
  BY InitSound DEF Inv
<1>2. Inv /\ [NextEvaluator \/ \E program \in Lines : BeginProgram(program)]_evaluatorVars => Inv'
  BY Inductive
<1>3. Inv /\ [NextEvaluator \/ \E program \in Lines : BeginProgram(program)]_evaluatorVars
        => [evaluation = "running" /\ evaluation' = "undefined" =>
              IF calls = << >> THEN object.t # "FUNCTION" /\ Textless(object)
              ELSE EmptyBlock \/ FirstFails \/ ZeroDivisor \/ TextlessPut]_evaluatorVars
  <2> SUFFICES ASSUME Inv, NextEvaluator \/ \E program \in Lines : BeginProgram(program), Faults
               PROVE  Cause
    BY DEF Faults, Cause
  <2>1. ~\E program \in Lines : BeginProgram(program)
    BY DEF BeginProgram, Faults
  <2> QED BY <2>1, FaultStep
<1> QED BY <1>1, <1>2, <1>3, PTL DEF SpecEvaluator, FaultsExplained
=============================================================================
