---------------------------- MODULE ParserProofs ----------------------------
(***************************************************************************)
(* Proofs about the parser, whatever the text: a null pointer is returned  *)
(* only after an error has been recorded, and a program for which none was *)
(* recorded is whole.                                                      *)
(***************************************************************************)
EXTENDS Parser, Foundations

(* The count of errors stays in its array, and while it is 0 what was      *)
(* returned last is a node or a list.                                      *)
IsNull(value) == value.type = "NULL"
ErrorsInv ==
    /\ errors \in 0..MAX_ERRORS
    /\ errors = 0 => ~IsNull(result)

LEMMA ListIsNoNull ==
    ASSUME NEW items
    PROVE  ~IsNull(ListOf(items))
BY DEF IsNull, ListOf

(* To record an error is enough ...                                        *)
LEMMA ErrorIsCounted ==
    ASSUME ErrorsInv, PushError
    PROVE  ErrorsInv'
BY MaxErrorsAssumption DEF ErrorsInv, PushError

LEMMA RefusalIsCounted ==
    ASSUME ErrorsInv, Refuse
    PROVE  ErrorsInv'
BY ErrorIsCounted DEF Refuse

(* ... and so is to return something else, or to leave the value alone.    *)
LEMMA ValueIsReturned ==
    ASSUME ErrorsInv, NEW value, ~IsNull(value), Return(value), UNCHANGED errors
    PROVE  ErrorsInv'
BY DEF ErrorsInv, Return

LEMMA NothingIsReturned ==
    ASSUME ErrorsInv, UNCHANGED <<result, errors>>
    PROVE  ErrorsInv'
BY DEF ErrorsInv

(* Of the literals only a number may be refused.                           *)
LEMMA LiteralNode ==
    ASSUME NEW token, token.type \in {"IDENT", "INT", "STRING", "true", "false"},
           Literal(token) # NULL
    PROVE  ~IsNull(Literal(token))
<1>1. CASE token.type = "INT"
  BY <1>1 DEF Literal, IsNull
<1>2. CASE token.type # "INT"
  BY <1>2 DEF Literal, IsNull
<1> QED BY <1>1, <1>2

-----------------------------------------------------------------------------
(* Every step *)

LEMMA InitHasErrorsInv ==
    ASSUME NEW text, InitParser(text)
    PROVE  ErrorsInv
BY MaxErrorsAssumption, ListIsNoNull DEF InitParser, ErrorsInv

LEMMA StatementsKeepErrorsInv ==
    ASSUME ErrorsInv,
           \/ Overrun \/ NextStatement \/ AppendStatement \/ EndOfStatements \/ EndParse
           \/ LetStatement \/ LetValue \/ LetNothing \/ ReturnStatement \/ ReturnValue
           \/ ExpressionStatement \/ ExpressionValue
    PROVE  ErrorsInv'
<1>1. CASE \/ Overrun \/ NextStatement \/ AppendStatement \/ EndParse
           \/ LetNothing \/ ReturnStatement \/ ExpressionStatement
  BY <1>1, NothingIsReturned, Zenon
  DEF Overrun, NextStatement, AppendStatement, EndParse, LetNothing, ReturnStatement, ExpressionStatement
<1>2. CASE EndOfStatements
  BY <1>2, ValueIsReturned, ListIsNoNull DEF EndOfStatements
<1>3. CASE LetStatement
  BY <1>3, NothingIsReturned, RefusalIsCounted DEF LetStatement
<1>4. CASE LetValue
  <2> DEFINE let == [type |-> "LET", name |-> Waiting.name, value |-> Named(result, Waiting.name)]
  <2>1. ~IsNull(let)
    BY DEF IsNull
  <2> QED BY <1>4, <2>1, ValueIsReturned DEF LetValue
<1>5. CASE ReturnValue
  <2> DEFINE return == [type |-> "RETURN", value |-> result]
  <2>1. ~IsNull(return)
    BY DEF IsNull
  <2> QED BY <1>5, <2>1, ValueIsReturned DEF ReturnValue
<1>6. CASE ExpressionValue
  <2> DEFINE statement == [type |-> "EXPR", value |-> result]
  <2>1. ~IsNull(statement)
    BY DEF IsNull
  <2>2. CASE result = NULL
    <3>1. IsNull(result)
      BY <2>2 DEF IsNull, NULL
    <3> QED BY <1>6, <2>2, <3>1, Zenon DEF ExpressionValue, ErrorsInv
  <2>3. CASE result # NULL
    BY <1>6, <2>1, <2>3, ValueIsReturned, Zenon DEF ExpressionValue
  <2> QED BY <2>2, <2>3
<1> QED BY <1>1, <1>2, <1>3, <1>4, <1>5, <1>6

LEMMA PrefixesKeepErrorsInv ==
    ASSUME ErrorsInv,
           \/ NoParselet \/ LiteralExpression \/ PrefixExpression \/ PrefixOperand
           \/ GroupedExpression \/ GroupEnd \/ ArrayLiteral \/ ArrayElements \/ BeginList \/ ListItem
           \/ HashLiteral \/ NextPair \/ PairKey \/ PairValue
    PROVE  ErrorsInv'
<1>1. CASE PrefixExpression \/ GroupedExpression \/ ArrayLiteral \/ HashLiteral
  BY <1>1, NothingIsReturned, Zenon DEF PrefixExpression, GroupedExpression, ArrayLiteral, HashLiteral
<1>2. CASE NoParselet
  BY <1>2, RefusalIsCounted, Zenon DEF NoParselet
<1>3. CASE LiteralExpression
  <2>1. tokens[1].type \in {"IDENT", "INT", "STRING", "true", "false"}
    BY <1>3 DEF LiteralExpression, Current, TypeAt, EOF, Token
  <2>2. CASE result' = NULL
    BY <1>3, <2>2, ErrorIsCounted DEF LiteralExpression
  <2>3. CASE result' # NULL
    BY <1>3, <2>1, <2>3, LiteralNode DEF LiteralExpression, ErrorsInv
  <2> QED BY <2>2, <2>3
<1>4. CASE PrefixOperand
  <2> DEFINE prefix == [type |-> "PREFIX", operator |-> Waiting.operator, right |-> result]
  <2>1. ~IsNull(prefix)
    BY DEF IsNull
  <2> QED BY <1>4, <2>1, ValueIsReturned DEF PrefixOperand
<1>5. CASE GroupEnd
  BY <1>5, RefusalIsCounted DEF GroupEnd, GroupNotClosed, Return, ErrorsInv
<1>6. CASE ArrayElements
  <2> DEFINE array == [type |-> "ARRAY", elements |-> result.items]
  <2>1. ~IsNull(array)
    BY DEF IsNull
  <2> QED BY <1>6, <2>1, ValueIsReturned DEF ArrayElements
<1>7. CASE BeginList
  BY <1>7, NothingIsReturned, ValueIsReturned, ListIsNoNull DEF BeginList
<1>8. CASE ListItem
  BY <1>8, NothingIsReturned, ErrorIsCounted, ValueIsReturned, ListIsNoNull, Zenon DEF ListItem
<1>9. CASE NextPair
  <2> DEFINE hash == [type |-> "HASH", pairs |-> Waiting.pairs]
  <2>1. ~IsNull(hash)
    BY DEF IsNull
  <2> QED BY <1>9, <2>1, NothingIsReturned, ValueIsReturned, Zenon DEF NextPair
<1>10. CASE PairKey \/ PairValue
  BY <1>10, NothingIsReturned, RefusalIsCounted, Zenon DEF PairKey, PairValue
<1> QED BY <1>1, <1>2, <1>3, <1>4, <1>5, <1>6, <1>7, <1>8, <1>9, <1>10

LEMMA OperatorsKeepErrorsInv ==
    ASSUME ErrorsInv,
           \/ InfixExpression \/ InfixOperand \/ CallExpression \/ CallArguments
           \/ IndexExpression \/ IndexEnd \/ NoMoreInfixes
    PROVE  ErrorsInv'
<1>1. CASE InfixExpression \/ CallExpression \/ IndexExpression
  BY <1>1, NothingIsReturned DEF InfixExpression, CallExpression, IndexExpression
<1>2. CASE InfixOperand
  <2> DEFINE infix == [type |-> "INFIX", operator |-> Waiting.operator, left |-> Waiting.left, right |-> result]
  <2>1. ~IsNull(infix)
    BY DEF IsNull
  <2> QED BY <1>2, <2>1, ValueIsReturned DEF InfixOperand
<1>3. CASE CallArguments
  <2> DEFINE call == [type |-> "CALL", fn |-> Waiting.fn, args |-> result.items]
  <2>1. ~IsNull(call)
    BY DEF IsNull
  <2> QED BY <1>3, <2>1, ValueIsReturned DEF CallArguments
<1>4. CASE IndexEnd
  <2> DEFINE index == [type |-> "INDEX", left |-> Waiting.left, index |-> result]
  <2>1. ~IsNull(index)
    BY DEF IsNull
  <2> QED BY <1>4, <2>1, ValueIsReturned, RefusalIsCounted DEF IndexEnd
<1>5. CASE NoMoreInfixes
  BY <1>5 DEF NoMoreInfixes, Return, ErrorsInv
<1> QED BY <1>1, <1>2, <1>3, <1>4, <1>5

LEMMA BracedKeepErrorsInv ==
    ASSUME ErrorsInv,
           \/ IfExpression \/ IfCondition \/ IfConsequence \/ IfAlternative
           \/ FunctionLiteral \/ Parameter \/ EndOfParameters \/ ParametersNotClosed
           \/ FunctionBody \/ FunctionEnd
    PROVE  ErrorsInv'
<1>1. CASE IfExpression \/ FunctionLiteral
  BY <1>1, NothingIsReturned, ErrorIsCounted DEF IfExpression, FunctionLiteral
<1>2. CASE IfCondition \/ FunctionBody
  BY <1>2, NothingIsReturned, RefusalIsCounted, Zenon DEF IfCondition, FunctionBody
<1>3. \A c, d, e : ~IsNull(If(c, d, e))
  BY DEF IsNull, If
<1>4. CASE IfConsequence
  BY <1>4, <1>3, NothingIsReturned, RefusalIsCounted, ValueIsReturned, Zenon DEF IfConsequence
<1>5. CASE IfAlternative
  BY <1>5, <1>3, ValueIsReturned DEF IfAlternative
<1>6. CASE Parameter
  BY <1>6, NothingIsReturned, Zenon DEF Parameter
<1>7. CASE EndOfParameters
  BY <1>7, ValueIsReturned, ListIsNoNull DEF EndOfParameters
<1>8. CASE ParametersNotClosed
  BY <1>8, ErrorIsCounted, Zenon DEF ParametersNotClosed
<1>9. CASE FunctionEnd
  <2> DEFINE function == [type |-> "FN", name |-> Unset, params |-> Waiting.params, body |-> result.items]
  <2>1. ~IsNull(function)
    BY DEF IsNull
  <2> QED BY <1>9, <2>1, ValueIsReturned DEF FunctionEnd
<1> QED BY <1>1, <1>2, <1>4, <1>5, <1>6, <1>7, <1>8, <1>9

-----------------------------------------------------------------------------
(* For every text, every limit on the errors and every size of a buffer, a *)
(* null pointer is returned only when an error is on record.               *)
THEOREM NullsAreReported == SpecParser => []NullReported
<1>1. (\E text \in Sources : InitParser(text)) => ErrorsInv
  BY InitHasErrorsInv
<1>2. ErrorsInv /\ [NextParser]_parserVars => ErrorsInv'
  <2> SUFFICES ASSUME ErrorsInv, [NextParser]_parserVars PROVE ErrorsInv'
    OBVIOUS
  <2>1. CASE UNCHANGED parserVars
    BY <2>1 DEF parserVars, ErrorsInv
  <2>2. CASE NextParser
    BY <2>2, StatementsKeepErrorsInv, PrefixesKeepErrorsInv, OperatorsKeepErrorsInv, BracedKeepErrorsInv
    DEF NextParser
  <2> QED BY <2>1, <2>2
<1>3. ErrorsInv => NullReported
  BY MaxErrorsAssumption DEF ErrorsInv, NullReported, NULL, IsNull
<1> QED BY <1>1, <1>2, <1>3, PTL DEF SpecParser

-----------------------------------------------------------------------------
(* Whole trees.  While no error is on record, there is a set of nodes that *)
(* holds everything the active calls and the latest result are made of,    *)
(* each with what the grammar has in its places, and the call that waits   *)
(* is given what it expects.                                               *)

IsFunction(n) == n \in [type : {n.type}, name : {n.name}, params : {n.params}, body : {n.body}]
Whole(T) == \A n \in T : Below(n) \subseteq T /\ Proper(n) /\ (n.type = "FN" => IsFunction(n))
ExpressionsOf(T) == {n \in T : n.type \in ExpressionTypes}
StatementsOf(T) == {n \in T : n.type \in StatementTypes}

(* What a call returns, and what the nested call must have returned before *)
(* it goes on.                                                             *)
Yields(c) ==
    CASE c.call \in {"statement", "let", "return", "expression statement"} -> "statement"
      [] c.call \in {"statements", "append"} -> "statements"
      [] c.call \in {"list", "items"} -> "expressions"
      [] c.call = "parameters" -> "names"
      [] OTHER -> "expression"
Expects(c) ==
    CASE c.call = "append" -> "statement"
      [] c.call \in {"consequence", "alternative", "body"} -> "statements"
      [] c.call \in {"array", "call"} -> "expressions"
      [] c.call = "function" -> "names"
      [] c.call \in {"statement", "expression", "statements", "list", "pairs", "parameters"} -> "nothing"
      [] OTHER -> "expression"

Given(T, kind, value) ==
    /\ kind = "expression" => value \in ExpressionsOf(T)
    /\ kind = "statement" => value \in StatementsOf(T)
    /\ kind = "expressions" => value.items \in Seq(ExpressionsOf(T))
    /\ kind = "statements" => value.items \in Seq(StatementsOf(T))

(* What a call that waits has put together so far.                         *)
Holds(T, c) ==
    /\ c.call \in {"statements", "append"} =>
         c \in [call : {c.call}, end : {c.end}, statements : Seq(StatementsOf(T))]
    /\ c.call = "prefix" => c.operator \in {"-", "!"}
    /\ c.call = "infix" => c.left \in ExpressionsOf(T) /\ c.operator \in InfixSigns
    /\ c.call = "index" => c.left \in ExpressionsOf(T)
    /\ c.call = "call" => c.fn \in ExpressionsOf(T)
    /\ c.call = "items" => c.items \in Seq(ExpressionsOf(T))
    /\ c.call \in {"pairs", "key", "value"} => c.pairs \in Seq(ExpressionsOf(T) \X ExpressionsOf(T))
    /\ c.call = "value" => c.key \in ExpressionsOf(T)
    /\ c.call \in {"consequence", "alternative"} => c.condition \in ExpressionsOf(T)
    /\ c.call = "alternative" => c.consequence \in Seq(StatementsOf(T))
    /\ c.call = "parameters" => c \in [call : {c.call}, names : {c.names}]

(* Every call is there for the one that waits for it.                      *)
Awaited(cs) == IF cs = << >> THEN "statements" ELSE Expects(cs[1])
Stacked(T, cs) ==
    /\ IsSequence(cs)
    /\ \A i \in 1..Len(cs) : Holds(T, cs[i])
    /\ \A i \in 1..Len(cs) : Yields(cs[i]) = IF i = Len(cs) THEN "statements" ELSE Expects(cs[i+1])

Growing(T, cs, value) == Whole(T) /\ Stacked(T, cs) /\ Given(T, Awaited(cs), value)

(* One call returns, and one is made.                                      *)
LEMMA CallReturns ==
    ASSUME NEW T, NEW cs, Stacked(T, cs), cs # << >>
    PROVE  Stacked(T, Tail(cs)) /\ Awaited(Tail(cs)) = Yields(cs[1]) /\ Holds(T, cs[1])
<1> DEFINE rest == Tail(cs)
<1>1. /\ Len(cs) \in Nat /\ Len(cs) > 0
      /\ IsSequence(rest) /\ Len(rest) = Len(cs) - 1
      /\ \A i \in 1..Len(cs) - 1 : rest[i] = cs[i+1]
      /\ rest # << >> <=> Len(rest) > 0
  BY SequenceForm, SequenceTail DEF Stacked
<1> HIDE DEF rest
<1>2. /\ \A i \in 1..Len(cs) : Holds(T, cs[i])
      /\ \A i \in 1..Len(cs) : Yields(cs[i]) = IF i = Len(cs) THEN "statements" ELSE Expects(cs[i+1])
  BY DEF Stacked
<1>3. \A i \in 1..Len(rest) : Holds(T, rest[i])
  BY <1>1, <1>2
<1>4. ASSUME NEW i \in 1..Len(rest)
      PROVE  Yields(rest[i]) = IF i = Len(rest) THEN "statements" ELSE Expects(rest[i+1])
  <2>1. rest[i] = cs[i+1] /\ (i # Len(rest) => rest[i+1] = cs[i+2])
    BY <1>1
  <2>2. Yields(cs[i+1]) = IF i + 1 = Len(cs) THEN "statements" ELSE Expects(cs[i+2])
    <3>1. i + 1 \in 1..Len(cs) /\ (i + 1) + 1 = i + 2
      BY <1>1
    <3> QED BY <1>2, <3>1
  <2> QED BY <1>1, <2>1, <2>2
<1>5. Awaited(rest) = Yields(cs[1])
  <2>1. Yields(cs[1]) = IF 1 = Len(cs) THEN "statements" ELSE Expects(cs[2])
    BY <1>1, <1>2
  <2>2. 1 # Len(cs) => rest[1] = cs[2]
    BY <1>1
  <2> QED BY <1>1, <2>1, <2>2 DEF Awaited
<1>6. Holds(T, cs[1])
  BY <1>1, <1>2
<1>7. Stacked(T, rest)
  BY <1>1, <1>3, <1>4 DEF Stacked
<1> QED BY <1>5, <1>6, <1>7 DEF rest

LEMMA CallIsMade ==
    ASSUME NEW T, NEW cs, Stacked(T, cs), NEW c, Holds(T, c), Yields(c) = Awaited(cs)
    PROVE  Stacked(T, << c >> \o cs) /\ Awaited(<< c >> \o cs) = Expects(c)
<1> DEFINE ds == << c >> \o cs
<1>1. /\ IsSequence(ds) /\ Len(ds) = Len(cs) + 1 /\ Len(cs) \in Nat
      /\ \A i \in 1..Len(cs) + 1 : ds[i] = IF i = 1 THEN c ELSE cs[i-1]
  <2>1. IsSequence(<< c >>) /\ Len(<< c >>) = 1 /\ << c >>[1] = c
    BY SequenceOfOne
  <2>2. IsSequence(cs) /\ Len(cs) \in Nat
    BY SequenceForm DEF Stacked
  <2>3. /\ IsSequence(ds) /\ Len(ds) = 1 + Len(cs)
        /\ \A i \in 1..1 + Len(cs) : ds[i] = IF i <= 1 THEN << c >>[i] ELSE cs[i - 1]
    BY <2>1, <2>2, SequenceConcat
  <2> QED BY <2>1, <2>2, <2>3
<1>2. ds # << >> /\ (cs = << >> <=> Len(cs) = 0)
  BY <1>1, SequenceForm DEF Stacked
<1> HIDE DEF ds
<1>3. \A i \in 1..Len(ds) : Holds(T, ds[i])
  BY <1>1 DEF Stacked
<1>4. ASSUME NEW i \in 1..Len(ds)
      PROVE  Yields(ds[i]) = IF i = Len(ds) THEN "statements" ELSE Expects(ds[i+1])
  <2>1. CASE i = 1
    BY <1>1, <1>2, <2>1 DEF Awaited
  <2>2. CASE i # 1
    <3>1. i - 1 \in 1..Len(cs) /\ ds[i] = cs[i-1] /\ (i # Len(ds) => ds[i+1] = cs[i])
      BY <1>1, <2>2
    <3> QED BY <1>1, <3>1 DEF Stacked
  <2> QED BY <2>1, <2>2
<1>5. Awaited(ds) = Expects(c)
  BY <1>1, <1>2 DEF Awaited
<1> QED BY <1>1, <1>3, <1>4, <1>5 DEF Stacked, ds

(* With more nodes in the set, everything is still there.                  *)
LEMMA NodesAdded ==
    ASSUME NEW T, NEW U, T \subseteq U
    PROVE  /\ ExpressionsOf(T) \subseteq ExpressionsOf(U) /\ StatementsOf(T) \subseteq StatementsOf(U)
           /\ Seq(ExpressionsOf(T)) \subseteq Seq(ExpressionsOf(U))
           /\ Seq(StatementsOf(T)) \subseteq Seq(StatementsOf(U))
           /\ Seq(ExpressionsOf(T) \X ExpressionsOf(T)) \subseteq Seq(ExpressionsOf(U) \X ExpressionsOf(U))
<1>1. ExpressionsOf(T) \subseteq ExpressionsOf(U) /\ StatementsOf(T) \subseteq StatementsOf(U)
  BY DEF ExpressionsOf, StatementsOf
<1>2. ExpressionsOf(T) \X ExpressionsOf(T) \subseteq ExpressionsOf(U) \X ExpressionsOf(U)
  BY <1>1
<1> QED BY <1>1, <1>2, SeqMonotonic

LEMMA GivenMeans ==
    ASSUME NEW T, NEW value
    PROVE  /\ Given(T, "expression", value) <=> value \in ExpressionsOf(T)
           /\ Given(T, "statement", value) <=> value \in StatementsOf(T)
           /\ Given(T, "expressions", value) <=> value.items \in Seq(ExpressionsOf(T))
           /\ Given(T, "statements", value) <=> value.items \in Seq(StatementsOf(T))
           /\ Given(T, "names", value) /\ Given(T, "nothing", value)
BY DEF Given

LEMMA NodeIsNoNull ==
    ASSUME NEW T, NEW value, value \in ExpressionsOf(T) \cup StatementsOf(T)
    PROVE  value # NULL
<1>1. value.type \in ExpressionTypes \cup StatementTypes
  BY DEF ExpressionsOf, StatementsOf
<1> QED BY <1>1 DEF ExpressionTypes, StatementTypes, NULL

LEMMA GivenStill ==
    ASSUME NEW T, NEW U, T \subseteq U, NEW kind, NEW value, Given(T, kind, value)
    PROVE  Given(U, kind, value)
BY NodesAdded, Zenon DEF Given

LEMMA HoldsStill ==
    ASSUME NEW T, NEW U, T \subseteq U, NEW c, Holds(T, c)
    PROVE  Holds(U, c)
<1>1. ASSUME c \in [call : {c.call}, end : {c.end}, statements : Seq(StatementsOf(T))]
      PROVE  c \in [call : {c.call}, end : {c.end}, statements : Seq(StatementsOf(U))]
  BY <1>1, NodesAdded
<1> QED BY <1>1, NodesAdded, Zenon DEF Holds

LEMMA StackedStill ==
    ASSUME NEW T, NEW U, T \subseteq U, NEW cs, Stacked(T, cs)
    PROVE  Stacked(U, cs)
BY HoldsStill, Zenon DEF Stacked

-----------------------------------------------------------------------------
(* What a step makes of the calls and the result *)

LEMMA ValueReturned ==
    ASSUME NEW T, NEW cs, NEW r, Growing(T, cs, r), cs # << >>, NEW v, Given(T, Yields(cs[1]), v)
    PROVE  Growing(T, Tail(cs), v)
BY CallReturns DEF Growing

LEMMA OneWaits ==
    ASSUME NEW T, NEW cs, NEW r, Growing(T, cs, r), cs # << >>,
           NEW c, Holds(T, c), Yields(c) = Yields(cs[1]), NEW v, Given(T, Expects(c), v)
    PROVE  Growing(T, << c >> \o Tail(cs), v)
<1>1. Stacked(T, << c >> \o Tail(cs)) /\ Awaited(<< c >> \o Tail(cs)) = Expects(c)
  BY CallReturns, CallIsMade DEF Growing
<1> QED BY <1>1 DEF Growing

LEMMA TwoWait ==
    ASSUME NEW T, NEW cs, NEW r, Growing(T, cs, r), cs # << >>,
           NEW c, Holds(T, c), Yields(c) = Yields(cs[1]),
           NEW d, Holds(T, d), Yields(d) = Expects(c), Expects(d) = "nothing"
    PROVE  \A v : Growing(T, << d, c >> \o Tail(cs), v)
<1> DEFINE rest == Tail(cs)
           one == << c >> \o rest
<1>1. Stacked(T, one) /\ Awaited(one) = Expects(c)
  BY CallReturns, CallIsMade DEF Growing
<1>2. Stacked(T, << d >> \o one) /\ Awaited(<< d >> \o one) = "nothing"
  BY <1>1, CallIsMade
<1>3. << d >> \o one = << d, c >> \o rest
  <2>1. IsSequence(rest)
    BY CallReturns DEF Growing, Stacked
  <2>2. IsSequence(<< d >>) /\ IsSequence(<< c >>)
    BY SequenceOfOne
  <2>3. (<< d >> \o << c >>) \o rest = << d >> \o one
    BY <2>1, <2>2, SequenceRegroup
  <2>4. << d >> \o << c >> = << d, c >>
    BY PairJoined
  <2> QED BY <2>3, <2>4
<1>4. \A v : Given(T, "nothing", v)
  BY DEF Given
<1> QED BY <1>2, <1>3, <1>4 DEF Growing

LEMMA ThreeWait ==
    ASSUME NEW T, NEW cs, NEW r, Growing(T, cs, r), cs # << >>,
           NEW c, Holds(T, c), Yields(c) = Yields(cs[1]),
           NEW d, Holds(T, d), Yields(d) = Expects(c),
           NEW e, Holds(T, e), Yields(e) = Expects(d), Expects(e) = "nothing"
    PROVE  \A v : Growing(T, << e, d, c >> \o Tail(cs), v)
<1> DEFINE rest == Tail(cs)
           one == << c >> \o rest
           two == << d >> \o one
<1>1. Stacked(T, one) /\ Awaited(one) = Expects(c)
  BY CallReturns, CallIsMade DEF Growing
<1>2. Stacked(T, two) /\ Awaited(two) = Expects(d)
  BY <1>1, CallIsMade
<1>3. Stacked(T, << e >> \o two) /\ Awaited(<< e >> \o two) = "nothing"
  BY <1>2, CallIsMade
<1>4. << e >> \o two = << e, d, c >> \o rest
  <2>1. IsSequence(rest)
    BY CallReturns DEF Growing, Stacked
  <2>2. IsSequence(<< e >>) /\ IsSequence(<< d >>) /\ IsSequence(<< c >>) /\ IsSequence(one)
    BY <1>1, SequenceOfOne DEF Stacked
  <2>3. (<< e >> \o << d >>) \o one = << e >> \o two
    BY <2>2, SequenceRegroup
  <2>4. << e >> \o << d >> = << e, d >> /\ << e, d >> \o << c >> = << e, d, c >>
    BY PairJoined, ThreeJoined
  <2>5. IsSequence(<< e, d >>)
    BY <2>2, <2>4, SequenceConcat
  <2>6. (<< e, d >> \o << c >>) \o rest = << e, d >> \o one
    BY <2>1, <2>2, <2>5, SequenceRegroup
  <2> QED BY <2>3, <2>4, <2>6
<1>5. \A v : Given(T, "nothing", v)
  BY DEF Given
<1> QED BY <1>3, <1>4, <1>5 DEF Growing

(* A node is put together of nodes that are there.                         *)
LEMMA NodeReturned ==
    ASSUME NEW T, NEW cs, NEW r, Growing(T, cs, r), cs # << >>,
           NEW n, Below(n) \subseteq T, Proper(n), n.type = "FN" => IsFunction(n),
           \/ Yields(cs[1]) = "expression" /\ n.type \in ExpressionTypes
           \/ Yields(cs[1]) = "statement" /\ n.type \in StatementTypes
    PROVE  \E U : Growing(U, Tail(cs), n)
<1> DEFINE U == T \cup {n}
<1>1. Whole(U)
  BY DEF Growing, Whole
<1>2. Stacked(U, Tail(cs)) /\ Awaited(Tail(cs)) = Yields(cs[1])
  BY CallReturns, StackedStill DEF Growing
<1>3. Given(U, Yields(cs[1]), n)
  BY Zenon DEF Given, ExpressionsOf, StatementsOf
<1> QED BY <1>1, <1>2, <1>3 DEF Growing

(* A leaf is returned to the operators that may follow it.                 *)
LEMMA LeafWaits ==
    ASSUME NEW T, NEW cs, NEW r, Growing(T, cs, r), cs # << >>, Yields(cs[1]) = "expression",
           NEW n, Below(n) = {}, Proper(n), n.type \in ExpressionTypes \ {"FN"},
           NEW c, \A V : Holds(V, c), Yields(c) = "expression", Expects(c) = "expression"
    PROVE  \E U : Growing(U, << c >> \o Tail(cs), n)
<1> DEFINE U == T \cup {n}
<1>1. Whole(U)
  BY DEF Growing, Whole
<1>2. Stacked(U, Tail(cs)) /\ Awaited(Tail(cs)) = Yields(cs[1])
  BY CallReturns, StackedStill DEF Growing
<1>3. Given(U, "expression", n)
  BY Zenon DEF Given, ExpressionsOf
<1>4. Stacked(U, << c >> \o Tail(cs)) /\ Awaited(<< c >> \o Tail(cs)) = "expression"
  BY <1>2, CallIsMade
<1> QED BY <1>1, <1>3, <1>4 DEF Growing

-----------------------------------------------------------------------------
(* The parts of the nodes *)

LEMMA ItemsOfSequence ==
    ASSUME NEW S, NEW seq \in Seq(S)
    PROVE  Items(seq) \subseteq S
BY DEF Items

LEMMA StatementNode ==
    ASSUME NEW T, NEW n, n.type \in StatementTypes, n.value \in ExpressionsOf(T)
    PROVE  Below(n) \subseteq T /\ Proper(n) /\ n.type # "FN"
<1>1. Terms(n) = {n.value} /\ Inner(n) = {} /\ n.type \notin {"FN", "PREFIX", "INFIX"}
  BY DEF Terms, Inner, StatementTypes
<1> QED BY <1>1 DEF Below, Proper, ExpressionsOf

LEMMA PrefixNode ==
    ASSUME NEW T, NEW n, n.type = "PREFIX", n.right \in ExpressionsOf(T), n.operator \in {"-", "!"}
    PROVE  Below(n) \subseteq T /\ Proper(n)
<1>1. Terms(n) = {n.right} /\ Inner(n) = {}
  BY DEF Terms, Inner, StatementTypes
<1> QED BY <1>1 DEF Below, Proper, ExpressionsOf

LEMMA InfixNode ==
    ASSUME NEW T, NEW n, n.type = "INFIX", n.operator \in InfixSigns,
           n.left \in ExpressionsOf(T), n.right \in ExpressionsOf(T)
    PROVE  Below(n) \subseteq T /\ Proper(n)
<1>1. Terms(n) = {n.left, n.right} /\ Inner(n) = {}
  BY DEF Terms, Inner, StatementTypes
<1> QED BY <1>1 DEF Below, Proper, ExpressionsOf

LEMMA IndexNode ==
    ASSUME NEW T, NEW n, n.type = "INDEX", n.left \in ExpressionsOf(T), n.index \in ExpressionsOf(T)
    PROVE  Below(n) \subseteq T /\ Proper(n)
<1>1. Terms(n) = {n.left, n.index} /\ Inner(n) = {}
  BY DEF Terms, Inner, StatementTypes
<1> QED BY <1>1 DEF Below, Proper, ExpressionsOf

LEMMA ArrayNode ==
    ASSUME NEW T, NEW n, n.type = "ARRAY", n.elements \in Seq(ExpressionsOf(T))
    PROVE  Below(n) \subseteq T /\ Proper(n)
<1>1. Terms(n) = Items(n.elements) /\ Inner(n) = {}
  BY DEF Terms, Inner, StatementTypes
<1>2. Items(n.elements) \subseteq ExpressionsOf(T)
  BY ItemsOfSequence
<1> QED BY <1>1, <1>2 DEF Below, Proper, ExpressionsOf

LEMMA HashNode ==
    ASSUME NEW T, NEW n, n.type = "HASH", n.pairs \in Seq(ExpressionsOf(T) \X ExpressionsOf(T))
    PROVE  Below(n) \subseteq T /\ Proper(n)
<1>1. Terms(n) = UNION {{pair[1], pair[2]} : pair \in Items(n.pairs)} /\ Inner(n) = {}
  BY DEF Terms, Inner, StatementTypes
<1>2. Items(n.pairs) \subseteq ExpressionsOf(T) \X ExpressionsOf(T)
  BY ItemsOfSequence
<1>3. Terms(n) \subseteq ExpressionsOf(T)
  BY <1>1, <1>2
<1> QED BY <1>1, <1>3 DEF Below, Proper, ExpressionsOf

LEMMA CallNode ==
    ASSUME NEW T, NEW n, n.type = "CALL", n.fn \in ExpressionsOf(T), n.args \in Seq(ExpressionsOf(T))
    PROVE  Below(n) \subseteq T /\ Proper(n)
<1>1. Terms(n) = {n.fn} \cup Items(n.args) /\ Inner(n) = {}
  BY DEF Terms, Inner, StatementTypes
<1>2. Items(n.args) \subseteq ExpressionsOf(T)
  BY ItemsOfSequence
<1> QED BY <1>1, <1>2 DEF Below, Proper, ExpressionsOf

LEMMA IfNode ==
    ASSUME NEW T, NEW n, n.type = "IF", n.condition \in ExpressionsOf(T),
           n.consequence \in Seq(StatementsOf(T)),
           n.alternative = Unset \/ n.alternative \in Seq(StatementsOf(T))
    PROVE  Below(n) \subseteq T /\ Proper(n)
<1> DEFINE other == IF n.alternative = Unset THEN {} ELSE Items(n.alternative)
<1>1. Terms(n) = {n.condition} /\ Inner(n) = Items(n.consequence) \cup other
  BY DEF Terms, Inner, StatementTypes
<1>2. Items(n.consequence) \subseteq StatementsOf(T)
  BY ItemsOfSequence
<1>3. other \subseteq StatementsOf(T)
  BY ItemsOfSequence
<1> HIDE DEF other
<1> QED BY <1>1, <1>2, <1>3 DEF Below, Proper, ExpressionsOf, StatementsOf

LEMMA FunctionNode ==
    ASSUME NEW T, NEW n, n.type = "FN", n.body \in Seq(StatementsOf(T))
    PROVE  Below(n) \subseteq T /\ Proper(n)
<1>1. Terms(n) = {} /\ Inner(n) = Items(n.body)
  BY DEF Terms, Inner, StatementTypes
<1>2. Items(n.body) \subseteq StatementsOf(T)
  BY ItemsOfSequence
<1> QED BY <1>1, <1>2 DEF Below, Proper, StatementsOf

LEMMA LeafNode ==
    ASSUME NEW n, n.type \in {"IDENT", "INT", "STRING", "BOOL"}
    PROVE  Below(n) = {} /\ Proper(n) /\ n.type \in ExpressionTypes \ {"FN"}
<1>1. Terms(n) = {} /\ Inner(n) = {}
  BY DEF Terms, Inner, StatementTypes
<1> QED BY <1>1 DEF Below, Proper, ExpressionTypes

-----------------------------------------------------------------------------
(* The kinds of the calls, one by one *)

LEMMA Kinds ==
    ASSUME NEW c
    PROVE  /\ c.call = "statement" => Yields(c) = "statement" /\ Expects(c) = "nothing"
           /\ c.call \in {"let", "return", "expression statement"} =>
                Yields(c) = "statement" /\ Expects(c) = "expression"
           /\ c.call = "statements" => Yields(c) = "statements" /\ Expects(c) = "nothing"
           /\ c.call = "append" => Yields(c) = "statements" /\ Expects(c) = "statement"
           /\ c.call = "list" => Yields(c) = "expressions" /\ Expects(c) = "nothing"
           /\ c.call = "items" => Yields(c) = "expressions" /\ Expects(c) = "expression"
           /\ c.call = "parameters" => Yields(c) = "names" /\ Expects(c) = "nothing"
           /\ c.call \in {"expression", "pairs"} => Yields(c) = "expression" /\ Expects(c) = "nothing"
           /\ c.call \in {"infixes", "prefix", "infix", "grouped", "index", "key", "value", "condition"} =>
                Yields(c) = "expression" /\ Expects(c) = "expression"
           /\ c.call \in {"array", "call"} => Yields(c) = "expression" /\ Expects(c) = "expressions"
           /\ c.call = "function" => Yields(c) = "expression" /\ Expects(c) = "names"
           /\ c.call \in {"consequence", "alternative", "body"} =>
                Yields(c) = "expression" /\ Expects(c) = "statements"
BY DEF Yields, Expects

(* Calls that have put nothing together hold whatever the nodes are.       *)
Plain == {"statement", "let", "return", "expression statement", "list", "expression", "infixes",
          "grouped", "condition", "array", "function", "body"}

LEMMA Empty ==
    ASSUME NEW T, NEW c, c.call \in Plain
    PROVE  Holds(T, c)
BY DEF Holds, Plain

LEMMA NewCalls ==
    ASSUME NEW T
    PROVE  /\ Statement.call = "statement" /\ Holds(T, Statement)
           /\ \A p : Expression(p).call = "expression" /\ Holds(T, Expression(p))
           /\ \A p : Infixes(p).call = "infixes" /\ Holds(T, Infixes(p))
           /\ \A e : ExpressionList(e).call = "list" /\ Holds(T, ExpressionList(e))
           /\ Block.call = "statements" /\ Holds(T, Block)
           /\ Program.call = "statements" /\ Holds(T, Program)
<1>1. /\ Statement.call = "statement" /\ \A p : Expression(p).call = "expression"
      /\ \A p : Infixes(p).call = "infixes" /\ \A e : ExpressionList(e).call = "list"
  BY DEF Statement, Expression, Infixes, ExpressionList
<1>2. << >> \in Seq(StatementsOf(T))
  OBVIOUS
<1>3. Block.call = "statements" /\ Holds(T, Block)
  BY <1>2 DEF Block, Holds
<1>4. Program.call = "statements" /\ Holds(T, Program)
  BY <1>2 DEF Program, Holds
<1>5. {"statement", "expression", "infixes", "list"} \subseteq Plain
  BY DEF Plain
<1>6. Holds(T, Statement)
  BY <1>1, <1>5, Empty
<1>7. ASSUME NEW p PROVE Holds(T, Expression(p)) /\ Holds(T, Infixes(p)) /\ Holds(T, ExpressionList(p))
  BY <1>1, <1>5, Empty
<1> QED BY <1>1, <1>3, <1>4, <1>6, <1>7

LEMMA FirstCall ==
    ASSUME NEW T, Growing(T, calls, result), NEW name, Entering(name)
    PROVE  /\ calls # << >> /\ Waiting = calls[1] /\ Waiting.call = name /\ Holds(T, Waiting)
           /\ Given(T, Expects(Waiting), result)
<1>1. calls # << >> /\ IsSequence(calls)
  BY DEF Growing, Stacked, Entering
<1>2. Waiting = calls[1]
  BY <1>1, SequenceTail, Zenon DEF Waiting
<1>3. Waiting.call = name
  BY DEF Entering, Waiting
<1>4. Holds(T, Waiting)
  BY <1>1, <1>2, CallReturns DEF Growing
<1>5. Given(T, Expects(Waiting), result)
  BY <1>1, <1>2, Zenon DEF Growing, Awaited
<1> QED BY <1>1, <1>2, <1>3, <1>4, <1>5

Grown == \E T : Growing(T, calls, result)

-----------------------------------------------------------------------------
(* A step without an error keeps the trees whole *)

LEMMA ErrorRecorded ==
    ASSUME ErrorsInv, PushError
    PROVE  errors' # 0
BY MaxErrorsAssumption DEF ErrorsInv, PushError

(* The forms a step has.                                                   *)
LEMMA PushesOne ==
    ASSUME NEW T, Growing(T, calls, result), NEW name, Entering(name),
           NEW c, NEW d, calls' = << d, c >> \o Tail(calls),
           Holds(T, c), Yields(c) = Yields(Waiting),
           Holds(T, d), Yields(d) = Expects(c), Expects(d) = "nothing"
    PROVE  Grown'
<1>1. calls # << >> /\ Waiting = calls[1]
  BY FirstCall
<1>2. Growing(T, << d, c >> \o Tail(calls), result')
  BY <1>1, TwoWait
<1> QED BY <1>2, Zenon DEF Grown

LEMMA PushesExpression ==
    ASSUME NEW T, Growing(T, calls, result), NEW name, Entering(name),
           NEW c, calls' = << Expression(LOWEST), c >> \o Tail(calls),
           Holds(T, c), Yields(c) = Yields(Waiting), Expects(c) = "expression"
    PROVE  Grown'
<1> DEFINE d == Expression(LOWEST)
<1>1. Holds(T, d) /\ d.call = "expression"
  BY NewCalls
<1>2. Yields(d) = "expression" /\ Expects(d) = "nothing"
  BY <1>1, Kinds
<1> HIDE DEF d
<1> QED BY <1>1, <1>2, PushesOne DEF d

LEMMA PushesTwo ==
    ASSUME NEW T, Growing(T, calls, result), NEW name, Entering(name), Yields(Waiting) = "expression",
           NEW c, NEW d, Parselet(<< d, c >>),
           Holds(T, c), Yields(c) = "expression", Holds(T, d), Yields(d) = Expects(c), Expects(d) = "nothing"
    PROVE  Grown'
<1>1. calls # << >> /\ Waiting = calls[1]
  BY FirstCall
<1> DEFINE i == Infixes(Waiting.precedence)
<1>2. Holds(T, i) /\ Yields(i) = "expression" /\ Expects(i) = "expression"
  BY NewCalls, Kinds
<1>3. << d, c >> \o << i >> = << d, c, i >>
  BY PairJoined, ThreeJoined
<1> HIDE DEF i
<1>4. Growing(T, << d, c, i >> \o Tail(calls), result')
  BY <1>1, <1>2, ThreeWait
<1>5. calls' = << d, c, i >> \o Tail(calls)
  BY <1>3 DEF Parselet, Replace, i
<1> QED BY <1>4, <1>5, Zenon DEF Grown

LEMMA GoesOn ==
    ASSUME NEW T, Growing(T, calls, result), NEW name, Entering(name),
           NEW c, calls' = << c >> \o Tail(calls), Holds(T, c), Yields(c) = Yields(Waiting),
           Given(T, Expects(c), result')
    PROVE  Grown'
<1>1. calls # << >> /\ Waiting = calls[1]
  BY FirstCall
<1>2. Growing(T, << c >> \o Tail(calls), result')
  BY <1>1, OneWaits
<1> QED BY <1>2, Zenon DEF Grown

LEMMA ReturnsValue ==
    ASSUME NEW T, Growing(T, calls, result), NEW name, Entering(name),
           NEW v, Return(v), Given(T, Yields(Waiting), v)
    PROVE  Grown'
<1>1. calls # << >> /\ Waiting = calls[1]
  BY FirstCall
<1>2. Growing(T, Tail(calls), v)
  BY <1>1, ValueReturned
<1> QED BY <1>2, Zenon DEF Grown, Return

LEMMA ReturnsNode ==
    ASSUME NEW T, Growing(T, calls, result), NEW name, Entering(name),
           NEW n, Return(n), Below(n) \subseteq T, Proper(n), n.type = "FN" => IsFunction(n),
           \/ Yields(Waiting) = "expression" /\ n.type \in ExpressionTypes
           \/ Yields(Waiting) = "statement" /\ n.type \in StatementTypes
    PROVE  Grown'
<1>1. calls # << >> /\ Waiting = calls[1]
  BY FirstCall
<1>2. \E U : Growing(U, Tail(calls), n)
  BY <1>1, NodeReturned
<1> QED BY <1>2, Zenon DEF Grown, Return

-----------------------------------------------------------------------------
(* Statements *)

LEMMA ListsGrow ==
    ASSUME NEW T, Growing(T, calls, result), NextStatement \/ AppendStatement \/ EndOfStatements
    PROVE  Grown'
<1>1. CASE NextStatement
  <2>1. Entering("statements") /\ calls' = << Statement, [Waiting EXCEPT !.call = "append"] >> \o Tail(calls)
    BY <1>1 DEF NextStatement, Replace
  <2>2. Waiting.call = "statements" /\ Holds(T, Waiting)
    BY <2>1, FirstCall
  <2> DEFINE c == [Waiting EXCEPT !.call = "append"]
  <2>3. c.call = "append" /\ c \in [call : {c.call}, end : {c.end}, statements : Seq(StatementsOf(T))]
    BY <2>2 DEF Holds
  <2>4. Holds(T, c)
    BY <2>3 DEF Holds
  <2>5. /\ Yields(c) = Yields(Waiting) /\ Expects(c) = "statement"
        /\ Yields(Statement) = "statement" /\ Expects(Statement) = "nothing" /\ Holds(T, Statement)
    BY <2>2, <2>3, Kinds, NewCalls
  <2> HIDE DEF c
  <2> QED BY <2>1, <2>4, <2>5, PushesOne DEF c
<1>2. CASE AppendStatement
  <2> DEFINE s == IF result = NULL THEN Waiting.statements ELSE Append(Waiting.statements, result)
             c == [Waiting EXCEPT !.call = "statements", !.statements = s]
  <2>1. Entering("append") /\ calls' = << c >> \o Tail(calls)
    BY <1>2 DEF AppendStatement, Replace
  <2>2. /\ Waiting.call = "append" /\ Holds(T, Waiting) /\ Given(T, "statement", result)
    BY <2>1, FirstCall, Kinds
  <2>3. Waiting \in [call : {Waiting.call}, end : {Waiting.end}, statements : Seq(StatementsOf(T))]
    BY <2>2 DEF Holds
  <2>4. s \in Seq(StatementsOf(T))
    BY <2>2, <2>3 DEF Given
  <2> HIDE DEF s
  <2>5. c.call = "statements" /\ c \in [call : {c.call}, end : {c.end}, statements : Seq(StatementsOf(T))]
    BY <2>3, <2>4
  <2>6. Holds(T, c)
    BY <2>5 DEF Holds
  <2>7. Yields(c) = Yields(Waiting) /\ Given(T, Expects(c), result')
    BY <2>2, <2>5, Kinds DEF Given
  <2> HIDE DEF c
  <2> QED BY <2>1, <2>6, <2>7, GoesOn
<1>3. CASE EndOfStatements
  <2>1. Entering("statements") /\ Return(ListOf(Waiting.statements))
    BY <1>3 DEF EndOfStatements
  <2>2. Waiting.call = "statements" /\ Holds(T, Waiting)
    BY <2>1, FirstCall
  <2>3. Waiting.statements \in Seq(StatementsOf(T)) /\ Yields(Waiting) = "statements"
    BY <2>2, Kinds DEF Holds
  <2>4. Given(T, "statements", ListOf(Waiting.statements))
    BY <2>3 DEF Given, ListOf
  <2> QED BY <2>1, <2>3, <2>4, ReturnsValue
<1> QED BY <1>1, <1>2, <1>3

(* A function that is told its name is a function all the same.            *)
LEMMA FunctionNamed ==
    ASSUME NEW T, Whole(T), NEW value \in ExpressionsOf(T), NEW name
    PROVE  /\ Below(Named(value, name)) \subseteq T /\ Proper(Named(value, name))
           /\ Named(value, name).type \in ExpressionTypes
           /\ Named(value, name).type = "FN" => IsFunction(Named(value, name))
<1>1. value \in T /\ value.type \in ExpressionTypes
  BY DEF ExpressionsOf
<1>2. CASE value.type # "FN"
  BY <1>1, <1>2 DEF Named, Whole
<1>3. CASE value.type = "FN"
  <2> DEFINE n == [value EXCEPT !.name = name]
  <2>1. IsFunction(value) /\ Inner(value) = Items(value.body) /\ Proper(value) /\ Below(value) \subseteq T
    BY <1>1, <1>3 DEF Whole, Inner
  <2>2. n.type = "FN" /\ n.body = value.body /\ IsFunction(n)
    BY <1>3, <2>1 DEF IsFunction
  <2> HIDE DEF n
  <2>3. Terms(n) = {} /\ Inner(n) = Inner(value)
    BY <2>1, <2>2 DEF Terms, Inner, StatementTypes
  <2>4. Below(n) \subseteq T /\ Proper(n)
    BY <2>1, <2>2, <2>3 DEF Below, Proper
  <2>5. Named(value, name) = n
    BY <1>3 DEF Named, n
  <2> QED BY <2>2, <2>4, <2>5 DEF ExpressionTypes
<1> QED BY <1>2, <1>3

LEMMA LetGrows ==
    ASSUME NEW T, Growing(T, calls, result), LetValue
    PROVE  Grown'
<1> DEFINE v == Named(result, Waiting.name)
           n == [type |-> "LET", name |-> Waiting.name, value |-> v]
           U == T \cup {v}
<1>1. Entering("let") /\ Return(n)
  BY DEF LetValue
<1>2. /\ calls # << >> /\ Waiting = calls[1] /\ Yields(Waiting) = "statement"
      /\ Given(T, "expression", result)
  BY <1>1, FirstCall, Kinds
<1>3. /\ result \in ExpressionsOf(T) /\ Whole(T) /\ Stacked(T, calls)
  BY <1>2 DEF Given, Growing
<1>4. /\ Below(v) \subseteq T /\ Proper(v) /\ v.type \in ExpressionTypes
      /\ v.type = "FN" => IsFunction(v)
  BY <1>3, FunctionNamed
<1>5. n.type = "LET" /\ n.value = v
  OBVIOUS
<1> HIDE DEF v, n
<1>6. Whole(U)
  BY <1>3, <1>4 DEF Whole
<1>7. Stacked(U, calls) /\ Given(U, Awaited(calls), result)
  BY <1>3, StackedStill, GivenStill DEF Growing
<1>8. v \in ExpressionsOf(U)
  BY <1>4 DEF ExpressionsOf
<1>9. Growing(U, calls, result)
  BY <1>6, <1>7 DEF Growing
<1>10. Below(n) \subseteq U /\ Proper(n) /\ n.type # "FN" /\ n.type \in StatementTypes
  BY <1>5, <1>8, StatementNode DEF StatementTypes
<1> QED BY <1>1, <1>2, <1>9, <1>10, ReturnsNode

LEMMA StatementsGrow ==
    ASSUME NEW T, Growing(T, calls, result), ErrorsInv, errors' = 0,
           LetStatement \/ ReturnStatement \/ ReturnValue \/ ExpressionStatement \/ ExpressionValue
    PROVE  Grown'
<1>1. ASSUME NEW c, calls' = << Expression(LOWEST), c >> \o Tail(calls), Entering("statement"),
             c.call \in {"let", "return", "expression statement"}
      PROVE  Grown'
  <2>1. Yields(Waiting) = "statement"
    BY <1>1, FirstCall, Kinds
  <2>2. c.call \in Plain
    BY <1>1 DEF Plain
  <2>3. Holds(T, c) /\ Yields(c) = "statement" /\ Expects(c) = "expression"
    BY <1>1, <2>2, Empty, Kinds
  <2> QED BY <1>1, <2>1, <2>3, PushesExpression
<1>a. CASE LetStatement
  <2> DEFINE c == [call |-> "let", name |-> tokens[2].literal]
  <2>1. calls' = << Expression(LOWEST), c >> \o Tail(calls) /\ Entering("statement")
    BY <1>a, ErrorRecorded, Zenon DEF LetStatement, Refuse, Replace
  <2>2. c.call = "let"
    OBVIOUS
  <2> HIDE DEF c
  <2> QED BY <1>1, <2>1, <2>2
<1>b. CASE ReturnStatement
  <2> DEFINE c == [call |-> "return"]
  <2>1. calls' = << Expression(LOWEST), c >> \o Tail(calls) /\ Entering("statement") /\ c.call = "return"
    BY <1>b DEF ReturnStatement, Replace
  <2> HIDE DEF c
  <2> QED BY <1>1, <2>1
<1>c. CASE ExpressionStatement
  <2> DEFINE c == [call |-> "expression statement"]
  <2>1. /\ calls' = << Expression(LOWEST), c >> \o Tail(calls) /\ Entering("statement")
        /\ c.call = "expression statement"
    BY <1>c DEF ExpressionStatement, Replace
  <2> HIDE DEF c
  <2> QED BY <1>1, <2>1
<1>2. CASE ReturnValue \/ ExpressionValue
  <2>1. PICK name \in {"return", "expression statement"} : Entering(name)
    BY <1>2 DEF ReturnValue, ExpressionValue
  <2>2. Yields(Waiting) = "statement" /\ Given(T, "expression", result)
    BY <2>1, FirstCall, Kinds
  <2>3. result \in ExpressionsOf(T) /\ result # NULL
    BY <2>2, GivenMeans, NodeIsNoNull
  <2>4. PICK type \in {"RETURN", "EXPR"} : Return([type |-> type, value |-> result])
    BY <1>2, <2>3 DEF ReturnValue, ExpressionValue
  <2> DEFINE n == [type |-> type, value |-> result]
  <2>5. n.type \in StatementTypes /\ n.value = result
    BY DEF StatementTypes
  <2> HIDE DEF n
  <2>6. Below(n) \subseteq T /\ Proper(n) /\ n.type # "FN"
    BY <2>3, <2>5, StatementNode
  <2> QED BY <2>1, <2>2, <2>4, <2>5, <2>6, ReturnsNode DEF n
<1> QED BY <1>2, <1>a, <1>b, <1>c

-----------------------------------------------------------------------------
(* Prefixes, groups and lists *)

LEMMA LeavesGrow ==
    ASSUME NEW T, Growing(T, calls, result), ErrorsInv, errors' = 0, NoParselet \/ LiteralExpression
    PROVE  Grown'
<1>1. CASE NoParselet
  BY <1>1, ErrorRecorded, Zenon DEF NoParselet, Refuse
<1>2. CASE LiteralExpression
  <2> DEFINE n == Literal(tokens[1])
             c == Infixes(Waiting.precedence)
  <2>1. /\ Entering("expression") /\ calls' = << >> \o << c >> \o Tail(calls) /\ result' = n
        /\ n # NULL
    BY <1>2, ErrorRecorded, Zenon DEF LiteralExpression, Parselet, Replace
  <2>2. tokens[1].type \in {"IDENT", "INT", "STRING", "true", "false"}
    BY <1>2 DEF LiteralExpression, Current, TypeAt, EOF, Token
  <2>3. n.type \in {"IDENT", "INT", "STRING", "BOOL"}
    <3>1. CASE tokens[1].type = "INT"
      BY <2>1, <3>1 DEF Literal
    <3>2. CASE tokens[1].type # "INT"
      BY <2>2, <3>2 DEF Literal
    <3> QED BY <3>1, <3>2
  <2>4. calls # << >> /\ Waiting = calls[1] /\ Yields(calls[1]) = "expression"
    BY <2>1, FirstCall, Kinds
  <2>5. (\A V : Holds(V, c)) /\ Yields(c) = "expression" /\ Expects(c) = "expression"
    BY NewCalls, Kinds
  <2>6. << >> \o << c >> = << c >>
    <3>1. << c >> \in Seq({c})
      OBVIOUS
    <3> QED BY <3>1, ConcatEmptySeq
  <2> HIDE DEF n, c
  <2>7. Below(n) = {} /\ Proper(n) /\ n.type \in ExpressionTypes \ {"FN"}
    BY <2>3, LeafNode
  <2>8. \E U : Growing(U, << c >> \o Tail(calls), n)
    BY <2>4, <2>5, <2>7, LeafWaits
  <2>9. calls' = << c >> \o Tail(calls)
    BY <2>1, <2>6, Zenon
  <2> QED BY <2>1, <2>8, <2>9, Zenon DEF Grown
<1> QED BY <1>1, <1>2

(* A parselet that waits for one expression.                               *)
LEMMA ParseletWaits ==
    ASSUME NEW T, Growing(T, calls, result), NEW name \in {"expression", "infixes"}, Entering(name),
           NEW c, NEW p, Parselet(<< Expression(p), c >>),
           Holds(T, c), Yields(c) = "expression", Expects(c) = "expression"
    PROVE  Grown'
<1>1. Yields(Waiting) = "expression"
  BY FirstCall, Kinds
<1> DEFINE d == Expression(p)
<1>2. Holds(T, d) /\ d.call = "expression"
  BY NewCalls
<1>3. Yields(d) = "expression" /\ Expects(d) = "nothing"
  BY <1>2, Kinds
<1> HIDE DEF d
<1> QED BY <1>1, <1>2, <1>3, PushesTwo DEF d

(* ... and one that waits for a list of them.                              *)
LEMMA ParseletLists ==
    ASSUME NEW T, Growing(T, calls, result), NEW name \in {"expression", "infixes"}, Entering(name),
           NEW c, NEW end, Parselet(<< ExpressionList(end), c >>),
           Holds(T, c), Yields(c) = "expression", Expects(c) = "expressions"
    PROVE  Grown'
<1>1. Yields(Waiting) = "expression"
  BY FirstCall, Kinds
<1> DEFINE d == ExpressionList(end)
<1>2. Holds(T, d) /\ d.call = "list"
  BY NewCalls
<1>3. Yields(d) = "expressions" /\ Expects(d) = "nothing"
  BY <1>2, Kinds
<1> HIDE DEF d
<1> QED BY <1>1, <1>2, <1>3, PushesTwo DEF d

LEMMA PrefixesGrow ==
    ASSUME NEW T, Growing(T, calls, result), ErrorsInv, errors' = 0,
           PrefixExpression \/ PrefixOperand \/ GroupedExpression \/ GroupEnd
    PROVE  Grown'
<1>1. CASE PrefixExpression
  <2> DEFINE c == [call |-> "prefix", operator |-> Current]
  <2>1. Entering("expression") /\ Parselet(<< Expression(PREFIX), c >>) /\ Current \in {"-", "!"}
    BY <1>1 DEF PrefixExpression
  <2>2. c.call = "prefix" /\ c.operator \in {"-", "!"}
    BY <2>1
  <2> HIDE DEF c
  <2>3. Holds(T, c) /\ Yields(c) = "expression" /\ Expects(c) = "expression"
    BY <2>2, Kinds DEF Holds
  <2> QED BY <2>1, <2>3, ParseletWaits
<1>2. CASE PrefixOperand
  <2> DEFINE n == [type |-> "PREFIX", operator |-> Waiting.operator, right |-> result]
  <2>1. Entering("prefix") /\ Return(n)
    BY <1>2 DEF PrefixOperand
  <2>2. Waiting.call = "prefix" /\ Holds(T, Waiting) /\ Given(T, Expects(Waiting), result)
    BY <2>1, FirstCall
  <2>3. Yields(Waiting) = "expression" /\ Waiting.operator \in {"-", "!"} /\ result \in ExpressionsOf(T)
    BY <2>2, Kinds, GivenMeans DEF Holds
  <2>4. n.type = "PREFIX" /\ n.operator = Waiting.operator /\ n.right = result
    OBVIOUS
  <2> HIDE DEF n
  <2>5. Below(n) \subseteq T /\ Proper(n) /\ n.type \in ExpressionTypes /\ n.type # "FN"
    BY <2>3, <2>4, PrefixNode DEF ExpressionTypes
  <2> QED BY <2>1, <2>3, <2>5, ReturnsNode
<1>3. CASE GroupedExpression
  <2> DEFINE c == [call |-> "grouped"]
  <2>1. Entering("expression") /\ Parselet(<< Expression(LOWEST), c >>) /\ c.call = "grouped"
    BY <1>3 DEF GroupedExpression
  <2> HIDE DEF c
  <2>2. c.call \in Plain
    BY <2>1 DEF Plain
  <2>3. Holds(T, c) /\ Yields(c) = "expression" /\ Expects(c) = "expression"
    BY <2>1, <2>2, Kinds, Empty
  <2> QED BY <2>1, <2>3, ParseletWaits
<1>4. CASE GroupEnd
  <2>1. Entering("grouped") /\ Return(result)
    BY <1>4, ErrorRecorded, Zenon DEF GroupEnd, GroupNotClosed, Refuse
  <2>2. Given(T, Yields(Waiting), result)
    BY <2>1, FirstCall, Kinds
  <2> QED BY <2>1, <2>2, ReturnsValue
<1> QED BY <1>1, <1>2, <1>3, <1>4

LEMMA ListGrows ==
    ASSUME NEW T, Growing(T, calls, result), ErrorsInv, errors' = 0,
           ArrayLiteral \/ ArrayElements \/ BeginList \/ ListItem
    PROVE  Grown'
<1>1. CASE ArrayLiteral
  <2> DEFINE c == [call |-> "array"]
  <2>1. Entering("expression") /\ Parselet(<< ExpressionList("]"), c >>) /\ c.call = "array"
    BY <1>1 DEF ArrayLiteral
  <2> HIDE DEF c
  <2>2. c.call \in Plain
    BY <2>1 DEF Plain
  <2>3. Holds(T, c) /\ Yields(c) = "expression" /\ Expects(c) = "expressions"
    BY <2>1, <2>2, Kinds, Empty
  <2> QED BY <2>1, <2>3, ParseletLists
<1>2. CASE ArrayElements
  <2> DEFINE n == [type |-> "ARRAY", elements |-> result.items]
  <2>1. Entering("array") /\ Return(n)
    BY <1>2 DEF ArrayElements
  <2>2. Yields(Waiting) = "expression" /\ result.items \in Seq(ExpressionsOf(T))
    BY <2>1, FirstCall, Kinds, GivenMeans
  <2>3. n.type = "ARRAY" /\ n.elements = result.items
    OBVIOUS
  <2> HIDE DEF n
  <2>4. Below(n) \subseteq T /\ Proper(n) /\ n.type \in ExpressionTypes /\ n.type # "FN"
    BY <2>2, <2>3, ArrayNode DEF ExpressionTypes
  <2> QED BY <2>1, <2>2, <2>4, ReturnsNode
<1>3. ASSUME NEW name, Entering(name), Yields(Waiting) = "expressions",
             NEW items, items \in Seq(ExpressionsOf(T)),
             calls' = << Expression(LOWEST), ListItems(items) >> \o Tail(calls)
      PROVE  Grown'
  <2> DEFINE c == ListItems(items)
  <2>1. c.call = "items" /\ c.items = items
    BY DEF ListItems
  <2> HIDE DEF c
  <2>2. Holds(T, c) /\ Yields(c) = "expressions" /\ Expects(c) = "expression"
    BY <1>3, <2>1, Kinds DEF Holds
  <2> QED BY <1>3, <2>2, PushesExpression DEF c
<1>4. ASSUME NEW name, Entering(name), Yields(Waiting) = "expressions",
             NEW items, items \in Seq(ExpressionsOf(T)), Return(ListOf(items))
      PROVE  Grown'
  <2>1. Given(T, "expressions", ListOf(items))
    BY <1>4 DEF Given, ListOf
  <2> QED BY <1>4, <2>1, ReturnsValue
<1>5. << >> \in Seq(ExpressionsOf(T))
  OBVIOUS
<1>6. CASE BeginList
  <2>1. Entering("list") /\ Yields(Waiting) = "expressions"
    BY <1>6, FirstCall, Kinds DEF BeginList
  <2>2. \/ Return(ListOf(<< >>))
        \/ calls' = << Expression(LOWEST), ListItems(<< >>) >> \o Tail(calls)
    BY <1>6, Zenon DEF BeginList, Replace
  <2> QED BY <1>3, <1>4, <1>5, <2>1, <2>2
<1>7. CASE ListItem
  <2> DEFINE items == Append(Waiting.items, result)
  <2>1. Entering("items")
    BY <1>7 DEF ListItem
  <2>2. /\ Yields(Waiting) = "expressions" /\ Waiting.items \in Seq(ExpressionsOf(T))
        /\ result \in ExpressionsOf(T)
    BY <2>1, FirstCall, Kinds, GivenMeans DEF Holds
  <2>3. items \in Seq(ExpressionsOf(T))
    BY <2>2
  <2>4. \/ Return(ListOf(items))
        \/ calls' = << Expression(LOWEST), ListItems(items) >> \o Tail(calls)
    BY <1>7, ErrorRecorded, Zenon DEF ListItem, Replace
  <2> HIDE DEF items
  <2> QED BY <1>3, <1>4, <2>1, <2>2, <2>3, <2>4
<1> QED BY <1>1, <1>2, <1>6, <1>7

-----------------------------------------------------------------------------
(* Hashes *)

LEMMA HashGrows ==
    ASSUME NEW T, Growing(T, calls, result), ErrorsInv, errors' = 0,
           HashLiteral \/ NextPair \/ PairKey \/ PairValue
    PROVE  Grown'
<1> DEFINE Pairs == Seq(ExpressionsOf(T) \X ExpressionsOf(T))
<1>1. CASE HashLiteral
  <2> DEFINE c == [call |-> "pairs", pairs |-> << >>]
             i == Infixes(Waiting.precedence)
  <2>1. Entering("expression") /\ calls' = << c >> \o << i >> \o Tail(calls)
    BY <1>1 DEF HashLiteral, Parselet, Replace
  <2>2. Yields(Waiting) = "expression"
    BY <2>1, FirstCall, Kinds
  <2>3. c.call = "pairs" /\ c.pairs \in Pairs
    OBVIOUS
  <2>4. Holds(T, i) /\ Yields(i) = "expression" /\ Expects(i) = "expression"
    BY NewCalls, Kinds
  <2>5. << c >> \o << i >> = << c, i >>
    BY PairJoined
  <2> HIDE DEF c, i
  <2>6. Holds(T, c) /\ Yields(c) = "expression" /\ Expects(c) = "nothing"
    BY <2>3, Kinds DEF Holds
  <2>7. calls' = << c, i >> \o Tail(calls)
    BY <2>1, <2>5, Zenon
  <2> QED BY <2>1, <2>2, <2>4, <2>6, <2>7, PushesOne
<1>2. CASE NextPair
  <2>1. Entering("pairs")
    BY <1>2 DEF NextPair
  <2>2. Yields(Waiting) = "expression" /\ Waiting.pairs \in Pairs
    BY <2>1, FirstCall, Kinds DEF Holds
  <2> DEFINE n == [type |-> "HASH", pairs |-> Waiting.pairs]
             c == [call |-> "key", pairs |-> Waiting.pairs]
  <2>3. Return(n) \/ calls' = << Expression(LOWEST), c >> \o Tail(calls)
    BY <1>2, Zenon DEF NextPair, Replace
  <2>4. /\ n.type = "HASH" /\ n.pairs = Waiting.pairs
        /\ c.call = "key" /\ c.pairs = Waiting.pairs
    OBVIOUS
  <2> HIDE DEF n, c
  <2>5. CASE Return(n)
    <3>1. Below(n) \subseteq T /\ Proper(n) /\ n.type \in ExpressionTypes /\ n.type # "FN"
      BY <2>2, <2>4, HashNode DEF ExpressionTypes
    <3> QED BY <2>1, <2>2, <2>5, <3>1, ReturnsNode
  <2>6. CASE calls' = << Expression(LOWEST), c >> \o Tail(calls)
    <3>1. Holds(T, c) /\ Yields(c) = "expression" /\ Expects(c) = "expression"
      BY <2>2, <2>4, Kinds DEF Holds
    <3> QED BY <2>1, <2>2, <2>6, <3>1, PushesExpression
  <2> QED BY <2>3, <2>5, <2>6
<1>3. CASE PairKey
  <2> DEFINE c == [call |-> "value", pairs |-> Waiting.pairs, key |-> result]
  <2>1. Entering("key") /\ calls' = << Expression(LOWEST), c >> \o Tail(calls)
    BY <1>3, ErrorRecorded, Zenon DEF PairKey, Refuse, Replace
  <2>2. /\ Yields(Waiting) = "expression" /\ Waiting.pairs \in Pairs
        /\ result \in ExpressionsOf(T)
    BY <2>1, FirstCall, Kinds, GivenMeans DEF Holds
  <2>3. c.call = "value" /\ c.pairs = Waiting.pairs /\ c.key = result
    OBVIOUS
  <2> HIDE DEF c
  <2>4. Holds(T, c) /\ Yields(c) = "expression" /\ Expects(c) = "expression"
    BY <2>2, <2>3, Kinds DEF Holds
  <2> QED BY <2>1, <2>2, <2>4, PushesExpression
<1>4. CASE PairValue
  <2> DEFINE pairs == Append(Waiting.pairs, <<Waiting.key, result>>)
             c == [call |-> "pairs", pairs |-> pairs]
  <2>1. Entering("value") /\ calls' = << c >> \o Tail(calls)
    BY <1>4, ErrorRecorded, Zenon DEF PairValue, Refuse, Replace
  <2>2. /\ Yields(Waiting) = "expression" /\ Waiting.pairs \in Pairs
        /\ Waiting.key \in ExpressionsOf(T) /\ result \in ExpressionsOf(T)
    BY <2>1, FirstCall, Kinds, GivenMeans DEF Holds
  <2>3. pairs \in Pairs
    BY <2>2
  <2>4. c.call = "pairs" /\ c.pairs = pairs
    OBVIOUS
  <2> HIDE DEF c, pairs
  <2>5. Holds(T, c) /\ Yields(c) = "expression" /\ Expects(c) = "nothing"
    BY <2>3, <2>4, Kinds DEF Holds
  <2>6. Given(T, Expects(c), result')
    BY <2>5, GivenMeans
  <2> QED BY <2>1, <2>2, <2>5, <2>6, GoesOn
<1> QED BY <1>1, <1>2, <1>3, <1>4

-----------------------------------------------------------------------------
(* Operators *)

LEMMA OperatorsGrow ==
    ASSUME NEW T, Growing(T, calls, result), ErrorsInv, errors' = 0,
           \/ InfixExpression \/ InfixOperand \/ CallExpression \/ CallArguments
           \/ IndexExpression \/ IndexEnd \/ NoMoreInfixes
    PROVE  Grown'
<1>1. ASSUME Entering("infixes")
      PROVE  Yields(Waiting) = "expression" /\ result \in ExpressionsOf(T)
  BY <1>1, FirstCall, Kinds, GivenMeans
<1>2. CASE InfixExpression
  <2> DEFINE c == [call |-> "infix", operator |-> Peek, left |-> result]
  <2>1. /\ Entering("infixes") /\ Parselet(<< Expression(Precedence(Peek)), c >>)
        /\ Peek \in InfixSigns
    BY <1>2 DEF InfixExpression, RightOperand
  <2>2. c.call = "infix" /\ c.operator = Peek /\ c.left = result
    OBVIOUS
  <2> HIDE DEF c
  <2>3. Holds(T, c) /\ Yields(c) = "expression" /\ Expects(c) = "expression"
    BY <1>1, <2>1, <2>2, Kinds DEF Holds
  <2> QED BY <2>1, <2>3, ParseletWaits
<1>3. CASE InfixOperand
  <2> DEFINE n == [type |-> "INFIX", operator |-> Waiting.operator, left |-> Waiting.left, right |-> result]
  <2>1. Entering("infix") /\ Return(n)
    BY <1>3 DEF InfixOperand
  <2>2. /\ Yields(Waiting) = "expression" /\ Waiting.operator \in InfixSigns
        /\ Waiting.left \in ExpressionsOf(T) /\ result \in ExpressionsOf(T)
    BY <2>1, FirstCall, Kinds, GivenMeans DEF Holds
  <2>3. n.type = "INFIX" /\ n.operator = Waiting.operator /\ n.left = Waiting.left /\ n.right = result
    OBVIOUS
  <2> HIDE DEF n
  <2>4. Below(n) \subseteq T /\ Proper(n) /\ n.type \in ExpressionTypes /\ n.type # "FN"
    BY <2>2, <2>3, InfixNode DEF ExpressionTypes
  <2> QED BY <2>1, <2>2, <2>4, ReturnsNode
<1>4. CASE CallExpression
  <2> DEFINE c == [call |-> "call", fn |-> result]
  <2>1. Entering("infixes") /\ Parselet(<< ExpressionList(")"), c >>)
    BY <1>4 DEF CallExpression
  <2>2. c.call = "call" /\ c.fn = result
    OBVIOUS
  <2> HIDE DEF c
  <2>3. Holds(T, c) /\ Yields(c) = "expression" /\ Expects(c) = "expressions"
    BY <1>1, <2>1, <2>2, Kinds DEF Holds
  <2> QED BY <2>1, <2>3, ParseletLists
<1>5. CASE CallArguments
  <2> DEFINE n == [type |-> "CALL", fn |-> Waiting.fn, args |-> result.items]
  <2>1. Entering("call") /\ Return(n)
    BY <1>5 DEF CallArguments
  <2>2. /\ Yields(Waiting) = "expression" /\ Waiting.fn \in ExpressionsOf(T)
        /\ result.items \in Seq(ExpressionsOf(T))
    BY <2>1, FirstCall, Kinds, GivenMeans DEF Holds
  <2>3. n.type = "CALL" /\ n.fn = Waiting.fn /\ n.args = result.items
    OBVIOUS
  <2> HIDE DEF n
  <2>4. Below(n) \subseteq T /\ Proper(n) /\ n.type \in ExpressionTypes /\ n.type # "FN"
    BY <2>2, <2>3, CallNode DEF ExpressionTypes
  <2> QED BY <2>1, <2>2, <2>4, ReturnsNode
<1>6. CASE IndexExpression
  <2> DEFINE c == [call |-> "index", left |-> result]
  <2>1. Entering("infixes") /\ Parselet(<< Expression(LOWEST), c >>)
    BY <1>6 DEF IndexExpression
  <2>2. c.call = "index" /\ c.left = result
    OBVIOUS
  <2> HIDE DEF c
  <2>3. Holds(T, c) /\ Yields(c) = "expression" /\ Expects(c) = "expression"
    BY <1>1, <2>1, <2>2, Kinds DEF Holds
  <2> QED BY <2>1, <2>3, ParseletWaits
<1>7. CASE IndexEnd
  <2> DEFINE n == [type |-> "INDEX", left |-> Waiting.left, index |-> result]
  <2>1. Entering("index") /\ Return(n)
    BY <1>7, ErrorRecorded, Zenon DEF IndexEnd, Refuse
  <2>2. /\ Yields(Waiting) = "expression" /\ Waiting.left \in ExpressionsOf(T)
        /\ result \in ExpressionsOf(T)
    BY <2>1, FirstCall, Kinds, GivenMeans DEF Holds
  <2>3. n.type = "INDEX" /\ n.left = Waiting.left /\ n.index = result
    OBVIOUS
  <2> HIDE DEF n
  <2>4. Below(n) \subseteq T /\ Proper(n) /\ n.type \in ExpressionTypes /\ n.type # "FN"
    BY <2>2, <2>3, IndexNode DEF ExpressionTypes
  <2> QED BY <2>1, <2>2, <2>4, ReturnsNode
<1>8. CASE NoMoreInfixes
  <2>1. Entering("infixes") /\ Return(result)
    BY <1>8 DEF NoMoreInfixes
  <2>2. Given(T, Yields(Waiting), result)
    BY <1>1, <2>1, GivenMeans
  <2> QED BY <2>1, <2>2, ReturnsValue
<1> QED BY <1>2, <1>3, <1>4, <1>5, <1>6, <1>7, <1>8

-----------------------------------------------------------------------------
(* Conditionals and functions *)

(* A call that waits for a block.                                          *)
LEMMA BlockWaits ==
    ASSUME NEW T, Growing(T, calls, result), NEW name, Entering(name),
           NEW c, calls' = << Block, c >> \o Tail(calls),
           Holds(T, c), Yields(c) = Yields(Waiting), Expects(c) = "statements"
    PROVE  Grown'
<1>1. Holds(T, Block) /\ Yields(Block) = "statements" /\ Expects(Block) = "nothing"
  BY NewCalls, Kinds
<1> QED BY <1>1, PushesOne

LEMMA IfGrows ==
    ASSUME NEW T, Growing(T, calls, result), ErrorsInv, errors' = 0,
           IfExpression \/ IfCondition \/ IfConsequence \/ IfAlternative
    PROVE  Grown'
<1>1. CASE IfExpression
  <2> DEFINE c == [call |-> "condition"]
  <2>1. Entering("expression") /\ Parselet(<< Expression(LOWEST), c >>)
    BY <1>1, ErrorRecorded, Zenon DEF IfExpression
  <2>2. c.call = "condition" /\ "condition" \in Plain
    BY DEF Plain
  <2> HIDE DEF c
  <2>3. Holds(T, c) /\ Yields(c) = "expression" /\ Expects(c) = "expression"
    BY <2>2, Kinds, Empty
  <2> QED BY <2>1, <2>3, ParseletWaits
<1>2. CASE IfCondition
  <2> DEFINE c == [call |-> "consequence", condition |-> result]
  <2>1. Entering("condition") /\ calls' = << Block, c >> \o Tail(calls)
    BY <1>2, ErrorRecorded, Zenon DEF IfCondition, Refuse, Replace
  <2>2. Yields(Waiting) = "expression" /\ result \in ExpressionsOf(T)
    BY <2>1, FirstCall, Kinds, GivenMeans
  <2>3. c.call = "consequence" /\ c.condition = result
    OBVIOUS
  <2> HIDE DEF c
  <2>4. Holds(T, c) /\ Yields(c) = "expression" /\ Expects(c) = "statements"
    BY <2>2, <2>3, Kinds DEF Holds
  <2> QED BY <2>1, <2>2, <2>4, BlockWaits
<1>3. ASSUME NEW name, Entering(name), Yields(Waiting) = "expression",
             NEW d, d \in ExpressionsOf(T), NEW s, s \in Seq(StatementsOf(T)),
             NEW a, a = Unset \/ a \in Seq(StatementsOf(T)), Return(If(d, s, a))
      PROVE  Grown'
  <2> DEFINE n == If(d, s, a)
  <2>1. n.type = "IF" /\ n.condition = d /\ n.consequence = s /\ n.alternative = a
    BY DEF If
  <2> HIDE DEF n
  <2>2. Below(n) \subseteq T /\ Proper(n) /\ n.type \in ExpressionTypes /\ n.type # "FN"
    BY <1>3, <2>1, IfNode DEF ExpressionTypes
  <2> QED BY <1>3, <2>2, ReturnsNode DEF n
<1>4. CASE IfConsequence
  <2> DEFINE c == [call |-> "alternative", condition |-> Waiting.condition, consequence |-> result.items]
  <2>1. Entering("consequence")
    BY <1>4 DEF IfConsequence
  <2>2. \/ Return(If(Waiting.condition, result.items, Unset))
        \/ calls' = << Block, c >> \o Tail(calls)
    BY <1>4, ErrorRecorded, Zenon DEF IfConsequence, Refuse, Replace
  <2>3. /\ Yields(Waiting) = "expression" /\ Waiting.condition \in ExpressionsOf(T)
        /\ result.items \in Seq(StatementsOf(T))
    BY <2>1, FirstCall, Kinds, GivenMeans DEF Holds
  <2>4. c.call = "alternative" /\ c.condition = Waiting.condition /\ c.consequence = result.items
    OBVIOUS
  <2> HIDE DEF c
  <2>5. Holds(T, c) /\ Yields(c) = "expression" /\ Expects(c) = "statements"
    BY <2>3, <2>4, Kinds DEF Holds
  <2>6. CASE Return(If(Waiting.condition, result.items, Unset))
    BY <1>3, <2>1, <2>3, <2>6
  <2>7. CASE calls' = << Block, c >> \o Tail(calls)
    BY <2>1, <2>3, <2>5, <2>7, BlockWaits
  <2> QED BY <2>2, <2>6, <2>7
<1>5. CASE IfAlternative
  <2>1. Entering("alternative") /\ Return(If(Waiting.condition, Waiting.consequence, result.items))
    BY <1>5 DEF IfAlternative
  <2>2. /\ Yields(Waiting) = "expression" /\ Waiting.condition \in ExpressionsOf(T)
        /\ Waiting.consequence \in Seq(StatementsOf(T)) /\ result.items \in Seq(StatementsOf(T))
    BY <2>1, FirstCall, Kinds, GivenMeans DEF Holds
  <2> QED BY <1>3, <2>1, <2>2
<1> QED BY <1>1, <1>2, <1>4, <1>5

LEMMA FunctionGrows ==
    ASSUME NEW T, Growing(T, calls, result), ErrorsInv, errors' = 0,
           \/ FunctionLiteral \/ Parameter \/ EndOfParameters \/ ParametersNotClosed
           \/ FunctionBody \/ FunctionEnd
    PROVE  Grown'
<1>1. CASE FunctionLiteral
  <2> DEFINE c == [call |-> "function"]
             d == [call |-> "parameters", names |-> << >>]
  <2>1. Entering("expression") /\ Parselet(<< d, c >>)
    BY <1>1, ErrorRecorded, Zenon DEF FunctionLiteral
  <2>2. Yields(Waiting) = "expression"
    BY <2>1, FirstCall, Kinds
  <2>3. /\ c.call = "function" /\ "function" \in Plain
        /\ d.call = "parameters" /\ d \in [call : {d.call}, names : {d.names}]
    BY DEF Plain
  <2> HIDE DEF c, d
  <2>4. Holds(T, c) /\ Yields(c) = "expression" /\ Expects(c) = "names"
    BY <2>3, Kinds, Empty
  <2>5. Holds(T, d) /\ Yields(d) = "names" /\ Expects(d) = "nothing"
    BY <2>3, Kinds DEF Holds
  <2> QED BY <2>1, <2>2, <2>4, <2>5, PushesTwo
<1>2. CASE Parameter
  <2> DEFINE c == [Waiting EXCEPT !.names = Append(Waiting.names, LiteralOf(tokens'))]
  <2>1. Entering("parameters") /\ calls' = << c >> \o Tail(calls)
    BY <1>2 DEF Parameter, Replace
  <2>2. Waiting.call = "parameters" /\ Waiting \in [call : {Waiting.call}, names : {Waiting.names}]
    BY <2>1, FirstCall DEF Holds
  <2>3. c.call = "parameters" /\ c \in [call : {c.call}, names : {c.names}]
    BY <2>2
  <2> HIDE DEF c
  <2>4. Holds(T, c) /\ Yields(c) = Yields(Waiting) /\ Expects(c) = "nothing"
    BY <2>2, <2>3, Kinds DEF Holds
  <2>5. Given(T, Expects(c), result')
    BY <2>4, GivenMeans
  <2> QED BY <2>1, <2>4, <2>5, GoesOn
<1>3. CASE EndOfParameters
  <2>1. Entering("parameters") /\ Return(ListOf(Waiting.names))
    BY <1>3 DEF EndOfParameters
  <2>2. Given(T, Yields(Waiting), ListOf(Waiting.names))
    BY <2>1, FirstCall, Kinds, GivenMeans
  <2> QED BY <2>1, <2>2, ReturnsValue
<1>4. CASE ParametersNotClosed
  BY <1>4, ErrorRecorded, Zenon DEF ParametersNotClosed
<1>5. CASE FunctionBody
  <2> DEFINE c == [call |-> "body", params |-> result.items]
  <2>1. Entering("function") /\ calls' = << Block, c >> \o Tail(calls)
    BY <1>5, ErrorRecorded, Zenon DEF FunctionBody, Refuse, Replace
  <2>2. Yields(Waiting) = "expression"
    BY <2>1, FirstCall, Kinds
  <2>3. c.call = "body" /\ "body" \in Plain
    BY DEF Plain
  <2> HIDE DEF c
  <2>4. Holds(T, c) /\ Yields(c) = "expression" /\ Expects(c) = "statements"
    BY <2>3, Kinds, Empty
  <2> QED BY <2>1, <2>2, <2>4, BlockWaits
<1>6. CASE FunctionEnd
  <2> DEFINE n == [type |-> "FN", name |-> Unset, params |-> Waiting.params, body |-> result.items]
  <2>1. Entering("body") /\ Return(n)
    BY <1>6 DEF FunctionEnd
  <2>2. Yields(Waiting) = "expression" /\ result.items \in Seq(StatementsOf(T))
    BY <2>1, FirstCall, Kinds, GivenMeans
  <2>3. n.type = "FN" /\ n.body = result.items /\ IsFunction(n)
    BY DEF IsFunction
  <2> HIDE DEF n
  <2>4. Below(n) \subseteq T /\ Proper(n) /\ n.type \in ExpressionTypes
    BY <2>2, <2>3, FunctionNode DEF ExpressionTypes
  <2> QED BY <2>1, <2>2, <2>3, <2>4, ReturnsNode
<1> QED BY <1>1, <1>2, <1>3, <1>4, <1>5, <1>6

-----------------------------------------------------------------------------
(* Every step *)

(* What has been recorded stays on record.                                 *)
LEMMA ErrorsStay ==
    ASSUME ErrorsInv, NextParser, errors' = 0
    PROVE  errors = 0
<1>1. CASE \/ Overrun \/ NextStatement \/ AppendStatement \/ EndOfStatements \/ EndParse
           \/ LetValue \/ LetNothing \/ ReturnStatement \/ ReturnValue
           \/ ExpressionStatement \/ ExpressionValue
  BY <1>1, Zenon DEF Overrun, NextStatement, AppendStatement, EndOfStatements, EndParse, LetValue,
                     LetNothing, ReturnStatement, ReturnValue, ExpressionStatement, ExpressionValue
<1>2. CASE LetStatement \/ NoParselet \/ LiteralExpression \/ GroupEnd \/ ListItem \/ PairKey \/ PairValue
  BY <1>2, ErrorRecorded, Zenon DEF LetStatement, NoParselet, LiteralExpression, GroupEnd, GroupNotClosed,
                                    ListItem, PairKey, PairValue, Refuse
<1>3. CASE \/ PrefixExpression \/ PrefixOperand \/ GroupedExpression \/ ArrayLiteral \/ ArrayElements
           \/ BeginList \/ HashLiteral \/ NextPair
  BY <1>3, Zenon DEF PrefixExpression, PrefixOperand, GroupedExpression, ArrayLiteral, ArrayElements,
                     BeginList, HashLiteral, NextPair
<1>4. CASE \/ InfixExpression \/ InfixOperand \/ CallExpression \/ CallArguments
           \/ IndexExpression \/ NoMoreInfixes \/ IfAlternative
           \/ Parameter \/ EndOfParameters \/ FunctionEnd
  BY <1>4, Zenon DEF InfixExpression, InfixOperand, CallExpression, CallArguments, IndexExpression,
                     NoMoreInfixes, IfAlternative, Parameter, EndOfParameters, FunctionEnd
<1>5. CASE IndexEnd \/ IfExpression \/ IfCondition \/ IfConsequence
  BY <1>5, ErrorRecorded, Zenon DEF IndexEnd, IfExpression, IfCondition, IfConsequence, Refuse
<1>6. CASE FunctionLiteral \/ ParametersNotClosed \/ FunctionBody
  BY <1>6, ErrorRecorded, Zenon DEF FunctionLiteral, ParametersNotClosed, FunctionBody, Refuse
<1> QED BY <1>1, <1>2, <1>3, <1>4, <1>5, <1>6 DEF NextParser

LEMMA TreesGrow ==
    ASSUME Grown, ErrorsInv, NextParser, errors' = 0
    PROVE  Grown'
<1>1. PICK T : Growing(T, calls, result)
  BY DEF Grown
<1>2. CASE Overrun \/ EndParse \/ LetNothing
  <2>1. UNCHANGED <<calls, result>>
    BY <1>2, Zenon DEF Overrun, EndParse, LetNothing
  <2> QED BY <1>1, <2>1, Zenon DEF Grown
<1> QED BY <1>1, <1>2, ListsGrow, LetGrows, StatementsGrow, LeavesGrow, PrefixesGrow, ListGrows, HashGrows,
           OperatorsGrow, IfGrows, FunctionGrows, Zenon
    DEF NextParser

LEMMA OnlyEndParse ==
    ASSUME NextParser, ~EndParse
    PROVE  status' # "parsed"
<1>1. CASE Overrun \/ LetNothing
  BY <1>1 DEF Overrun, LetNothing
<1>2. ASSUME status = "parsing", status' = status
      PROVE  status' # "parsed"
  BY <1>2
<1>3. CASE \/ NextStatement \/ AppendStatement \/ EndOfStatements \/ LetStatement \/ LetValue
           \/ ReturnStatement \/ ReturnValue \/ ExpressionStatement \/ ExpressionValue
  BY <1>2, <1>3, Zenon DEF NextStatement, AppendStatement, EndOfStatements, LetStatement, LetValue,
     ReturnStatement, ReturnValue, ExpressionStatement, ExpressionValue, Entering, Parsing
<1>4. CASE \/ NoParselet \/ LiteralExpression \/ PrefixExpression \/ PrefixOperand
           \/ GroupedExpression \/ GroupEnd \/ ArrayLiteral \/ ArrayElements \/ BeginList \/ ListItem
           \/ HashLiteral \/ NextPair \/ PairKey \/ PairValue
  BY <1>2, <1>4, Zenon DEF NoParselet, LiteralExpression, PrefixExpression, PrefixOperand,
     GroupedExpression, GroupEnd, ArrayLiteral, ArrayElements, BeginList, ListItem,
     HashLiteral, NextPair, PairKey, PairValue, Entering, Parsing
<1>5. CASE \/ InfixExpression \/ InfixOperand \/ CallExpression \/ CallArguments
           \/ IndexExpression \/ IndexEnd \/ NoMoreInfixes
           \/ IfExpression \/ IfCondition \/ IfConsequence \/ IfAlternative
  BY <1>2, <1>5, Zenon DEF InfixExpression, InfixOperand, CallExpression, CallArguments,
     IndexExpression, IndexEnd, NoMoreInfixes, IfExpression, IfCondition, IfConsequence, IfAlternative,
     Entering, Parsing
<1>6. CASE \/ FunctionLiteral \/ Parameter \/ EndOfParameters \/ ParametersNotClosed
           \/ FunctionBody \/ FunctionEnd
  BY <1>2, <1>6, Zenon DEF FunctionLiteral, Parameter, EndOfParameters, ParametersNotClosed,
     FunctionBody, FunctionEnd, Entering, Parsing
<1> QED BY <1>1, <1>3, <1>4, <1>5, <1>6 DEF NextParser

(* The invariant: a finished program is what the outermost call returned.  *)
TreesInv ==
    /\ ErrorsInv
    /\ errors = 0 => Grown
    /\ status = "parsed" => calls = << >>

LEMMA InitHasTreesInv ==
    ASSUME NEW text, InitParser(text)
    PROVE  TreesInv
<1>1. Whole({})
  BY DEF Whole
<1>2. Stacked({}, << >>) /\ Awaited(<< >>) = "statements"
  <2>1. << >> \in Seq({})
    OBVIOUS
  <2> QED BY <2>1 DEF Stacked, Awaited, IsSequence
<1>3. Holds({}, Program) /\ Yields(Program) = "statements" /\ Expects(Program) = "nothing"
  BY NewCalls, Kinds
<1>4. << Program >> \o << >> = << Program >>
  <2> DEFINE p == Program
  <2>1. << p >> \in Seq({p})
    OBVIOUS
  <2> HIDE DEF p
  <2>2. << p >> \o << >> = << p >>
    BY <2>1, ConcatEmptySeq
  <2> QED BY <2>2 DEF p
<1>5. Stacked({}, << Program >>) /\ Awaited(<< Program >>) = "nothing"
  BY <1>2, <1>3, <1>4, CallIsMade, Zenon
<1>6. Growing({}, calls, result)
  BY <1>1, <1>5, GivenMeans, Zenon DEF Growing, InitParser
<1>7. status # "parsed"
  BY DEF InitParser
<1> QED BY <1>6, <1>7, InitHasErrorsInv DEF TreesInv, Grown

LEMMA StepKeepsTreesInv ==
    ASSUME TreesInv, [NextParser]_parserVars
    PROVE  TreesInv'
<1>1. CASE UNCHANGED parserVars
  <2>1. UNCHANGED <<calls, result, errors, status>>
    BY <1>1 DEF parserVars
  <2> QED BY <2>1, Zenon DEF TreesInv, ErrorsInv, Grown
<1>2. CASE NextParser
  <2>1. ErrorsInv'
    BY <1>2, StatementsKeepErrorsInv, PrefixesKeepErrorsInv, OperatorsKeepErrorsInv, BracedKeepErrorsInv
    DEF NextParser, TreesInv
  <2>2. errors' = 0 => Grown'
    BY <1>2, ErrorsStay, TreesGrow DEF TreesInv
  <2>3. status' = "parsed" => calls' = << >>
    <3>1. CASE EndParse
      BY <3>1 DEF EndParse
    <3>2. CASE ~EndParse
      BY <1>2, <3>2, OnlyEndParse
    <3> QED BY <3>1, <3>2
  <2> QED BY <2>1, <2>2, <2>3 DEF TreesInv
<1> QED BY <1>1, <1>2

-----------------------------------------------------------------------------
(* From the set of nodes to the tree *)

Descent(program, f, n) ==
    [d \in 0..n |->
        IF d = 0 THEN Items(program)
        ELSE LET above == f[d - 1] IN above \cup UNION {Below(node) : node \in above}]
IsDescent(program, f, n) == f = Descent(program, f, n)

LEMMA DescentExists ==
    ASSUME NEW program, NEW m \in Nat
    PROVE  \E f : IsDescent(program, f, m)
<1> DEFINE Missing == {n \in Nat : ~\E f : IsDescent(program, f, n)}
           value(f, d) == IF d = 0 THEN Items(program)
                          ELSE f[d - 1] \cup UNION {Below(node) : node \in f[d - 1]}
<1>1. ASSUME Missing # {} PROVE FALSE
  <2>1. PICK n \in Missing : \A k \in Missing : n <= k
    <3>1. Missing \subseteq Nat
      OBVIOUS
    <3> QED BY <1>1, <3>1, LeastNumber, Zenon
  <2>2. CASE n = 0
    <3> DEFINE f == [d \in 0..0 |-> Items(program)]
    <3>1. f = Descent(program, f, 0)
      BY DEF Descent
    <3> QED BY <2>1, <2>2, <3>1 DEF IsDescent
  <2>3. CASE n # 0
    <3>1. n \in Nat /\ n - 1 \in Nat /\ n - 1 \notin Missing
      BY <2>1, <2>3
    <3>2. PICK g : IsDescent(program, g, n - 1)
      BY <3>1
    <3> DEFINE f == [d \in 0..n |-> IF d = n THEN value(g, n) ELSE g[d]]
    <3>3. ASSUME NEW d \in 0..n PROVE f[d] = value(f, d)
      <4>1. CASE d = n
        <5>1. f[n - 1] = g[n - 1]
          BY <3>1
        <5> QED BY <2>3, <3>1, <4>1, <5>1
      <4>2. CASE d # n
        <5>1. d \in 0..n-1 /\ f[d] = g[d] /\ (d # 0 => f[d - 1] = g[d - 1])
          BY <3>1, <4>2
        <5>2. g[d] = value(g, d)
          BY <3>2, <5>1 DEF IsDescent, Descent
        <5> QED BY <5>1, <5>2
      <4> QED BY <4>1, <4>2
    <3>4. IsDescent(program, f, n)
      BY <3>3 DEF IsDescent, Descent
    <3> QED BY <2>1, <3>4
  <2> QED BY <2>2, <2>3
<1> QED BY <1>1

LEMMA NodesWithin ==
    ASSUME NEW T, Whole(T), NEW program, Items(program) \subseteq T
    PROVE  Nodes(program) \subseteq T
<1> DEFINE f == CHOOSE g : IsDescent(program, g, MaxDepth)
<1>1. IsDescent(program, f, MaxDepth)
  BY DescentExists, MaxDepthAssumption, Zenon
<1>2. Nodes(program) = f[MaxDepth]
  BY Zenon DEF Nodes, IsDescent, Descent
<1> HIDE DEF f
<1>3. \A d \in 0..MaxDepth : f[d] = IF d = 0 THEN Items(program)
                                     ELSE f[d - 1] \cup UNION {Below(node) : node \in f[d - 1]}
  BY <1>1 DEF IsDescent, Descent
<1> DEFINE Wrong == {d \in 0..MaxDepth : ~(f[d] \subseteq T)}
<1>4. ASSUME Wrong # {} PROVE FALSE
  <2>1. PICK d \in Wrong : \A k \in Wrong : d <= k
    <3>1. Wrong \subseteq Nat
      BY MaxDepthAssumption
    <3> QED BY <1>4, <3>1, LeastNumber, Zenon
  <2>2. CASE d = 0
    BY <1>3, <2>1, <2>2
  <2>3. CASE d # 0
    <3>1. d - 1 \in 0..MaxDepth /\ d - 1 \notin Wrong
      BY <2>1, <2>3, MaxDepthAssumption
    <3>2. f[d - 1] \subseteq T
      BY <3>1
    <3>3. UNION {Below(node) : node \in f[d - 1]} \subseteq T
      BY <3>2 DEF Whole
    <3>4. f[d] = f[d - 1] \cup UNION {Below(node) : node \in f[d - 1]}
      BY <1>3, <2>1, <2>3
    <3> QED BY <2>1, <3>2, <3>3, <3>4
  <2> QED BY <2>2, <2>3
<1>5. f[MaxDepth] \subseteq T
  BY <1>4, MaxDepthAssumption
<1> QED BY <1>2, <1>5

-----------------------------------------------------------------------------
(* For every text, every limit on the errors, every size of a buffer and   *)
(* however far one looks down: in a program for which no error was         *)
(* recorded, every node has expressions and statements in the places for   *)
(* them, and never the null pointer of a function that gave up.            *)
THEOREM AcceptedProgramsAreWhole == SpecParser => []AcceptedIsWhole
<1>1. (\E text \in Sources : InitParser(text)) => TreesInv
  BY InitHasTreesInv
<1>2. TreesInv /\ [NextParser]_parserVars => TreesInv'
  BY StepKeepsTreesInv
<1>3. TreesInv => AcceptedIsWhole
  <2> SUFFICES ASSUME TreesInv, status = "parsed", errors = 0
               PROVE  /\ \A node \in Items(result.items) : node.type \in StatementTypes
                      /\ \A node \in Nodes(result.items) : Proper(node)
    BY DEF AcceptedIsWhole
  <2>1. PICK T : Growing(T, calls, result)
    BY DEF TreesInv, Grown
  <2>2. Whole(T) /\ result.items \in Seq(StatementsOf(T))
    BY <2>1, GivenMeans DEF TreesInv, Growing, Awaited
  <2>3. Items(result.items) \subseteq StatementsOf(T)
    BY <2>2, ItemsOfSequence
  <2>4. Nodes(result.items) \subseteq T
    BY <2>2, <2>3, NodesWithin DEF StatementsOf
  <2> QED BY <2>2, <2>3, <2>4 DEF StatementsOf, Whole
<1> QED BY <1>1, <1>2, <1>3, PTL DEF SpecParser
=============================================================================
