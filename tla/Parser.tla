------------------------------- MODULE Parser -------------------------------
(***************************************************************************)
(* The parser, src/parser/parser.c and parselets.c, reading the tokens of  *)
(* Lexer through its window of two.                                        *)
(*                                                                         *)
(* Parsing is recursive descent with precedences: parse_expression parses  *)
(* a prefix and then, as long as the operator ahead binds more strongly    *)
(* than the one that waits, makes what it has the left operand of that     *)
(* operator.  The recursion is the stack "calls": its first element is     *)
(* either a function to be entered or the rest of one that waits for what  *)
(* the nested call returns, which is then in "result".  One step is one    *)
(* stretch of the C code between two nested calls.                         *)
(*                                                                         *)
(* A function that meets a token it does not expect records an error and   *)
(* returns a null pointer, which its caller stores in the tree and goes    *)
(* on; only the count of errors tells that the tree is not to be used.     *)
(***************************************************************************)
EXTENDS Lexer

CONSTANTS Unset,        \* what a field of a node holds that was never assigned
          MAX_ERRORS,
          ERR_MSG_LEN,  \* the length of err_msg in parse_integer_literal
          Sources,      \* the texts to be parsed
          MaxDepth      \* how far the properties look down into a tree

ASSUME MaxErrorsAssumption == MAX_ERRORS \in Nat \ {0}
ASSUME MaxDepthAssumption == MaxDepth \in Nat

(* What a call returns is a node, a list of them, or a null pointer.       *)
NULL == [type |-> "NULL"]
ListOf(items) == [type |-> "LIST", items |-> items]

VARIABLES tokens,   \* current_token, peek_token and those not yet scanned
          calls,    \* the active calls, the innermost first
          result,   \* what the last call that has ended returned
          errors,   \* error_index
          status    \* "parsing", "parsed", or "undefined" behaviour
parserVars == <<tokens, calls, result, errors, status>>

(* The types of current_token and peek_token, which are the two tokens     *)
(* that have been scanned; and parser_next_token, n times.                 *)
TypeAt(i) == IF i \in DOMAIN tokens THEN tokens[i].type ELSE EOF.type
Current == TypeAt(1)
Peek == TypeAt(2)
NextTokens(n) == tokens' = SubSeq(tokens, n + 1, Len(tokens))

(* parser_push_error                                                       *)
PushBeyond == errors' = IF errors <= MAX_ERRORS THEN errors + 1 ELSE errors     \* faulty
PushError == errors' = IF errors < MAX_ERRORS THEN errors + 1 ELSE errors

(* token_precedence                                                        *)
LOWEST == 0
PREFIX == 5
Precedence(type) ==
    CASE type \in {"==", "!="} -> 1
      [] type \in {"<", ">"} -> 2
      [] type \in {"+", "-"} -> 3
      [] type \in {"/", "*"} -> 4
      [] type = "(" -> 6
      [] type = "[" -> 7
      [] OTHER -> LOWEST
InfixSigns == {"==", "!=", "<", ">", "+", "-", "/", "*"}

-----------------------------------------------------------------------------
(* Calls *)

ScannedFit == \A i \in DOMAIN tokens : i <= 2 => Fits(tokens[i])
Parsing == status = "parsing" /\ ScannedFit
Entering(call) == Parsing /\ calls # << >> /\ Head(calls).call = call
Waiting == Head(calls)

(* The first call goes on as "rest", which may begin with calls to make.   *)
Replace(rest) == calls' = rest \o Tail(calls)

(* The first call returns a value.                                         *)
Return(value) == result' = value /\ calls' = Tail(calls)

Statement == [call |-> "statement"]
Expression(precedence) == [call |-> "expression", precedence |-> precedence]
Infixes(precedence) == [call |-> "infixes", precedence |-> precedence]
ExpressionList(end) == [call |-> "list", end |-> end]
BracedBlock == [call |-> "statements", end |-> {"}"}, statements |-> << >>]     \* faulty
Block == [call |-> "statements", end |-> {"}", "EOF"}, statements |-> << >>]
Program == [call |-> "statements", end |-> {"EOF"}, statements |-> << >>]

(* A parselet that waits for the nested calls and then for operators.      *)
Parselet(nested) == Replace(nested \o << Infixes(Waiting.precedence) >>)

(* expect_peek: an expected token is moved to, any other is an error.      *)
Refuse == PushError /\ Return(NULL)

-----------------------------------------------------------------------------
(* The parser is given a text, and reads twice to have its two tokens.     *)
BeginParse(text) ==
    /\ tokens' = Tokens(text)
    /\ calls' = << Program >> /\ result' = ListOf(<< >>) /\ errors' = 0
    /\ status' = IF TextFits(text) THEN "parsing" ELSE "undefined"

InitParser(text) ==
    /\ tokens = Tokens(text)
    /\ calls = << Program >> /\ result = ListOf(<< >>) /\ errors = 0
    /\ status = IF TextFits(text) THEN "parsing" ELSE "undefined"

(* The buffer of a token is too small.                                     *)
Overrun ==
    /\ status = "parsing" /\ ~ScannedFit
    /\ status' = "undefined"
    /\ UNCHANGED <<tokens, calls, result, errors>>

(* parse_program and parse_block_statement: statements until the end.  A   *)
(* block also ends, without an error, where the text does.                 *)
NextStatement ==
    /\ Entering("statements") /\ Current \notin Waiting.end
    /\ Replace(<< Statement, [Waiting EXCEPT !.call = "append"] >>)
    /\ UNCHANGED <<tokens, result, errors, status>>

AppendStatement ==
    /\ Entering("append")
    /\ Replace(<< [Waiting EXCEPT !.call = "statements",
                                  !.statements = IF result = NULL THEN @ ELSE Append(@, result)] >>)
    /\ NextTokens(1)
    /\ UNCHANGED <<result, errors, status>>

EndOfStatements ==
    /\ Entering("statements") /\ Current \in Waiting.end
    /\ Return(ListOf(Waiting.statements))
    /\ UNCHANGED <<tokens, errors, status>>

EndParse ==
    /\ Parsing /\ calls = << >>
    /\ status' = "parsed"
    /\ UNCHANGED <<tokens, calls, result, errors>>

-----------------------------------------------------------------------------
(* Statements *)

SkipSemicolon == NextTokens(IF Peek = ";" THEN 1 ELSE 0)

(* The two tokens after the current one.                                   *)
Ahead(first, second) == Peek = first /\ TypeAt(3) = second

LetStatement ==
    /\ Entering("statement") /\ Current = "let"
    /\ IF Ahead("IDENT", "=")
       THEN /\ NextTokens(3)
            /\ Replace(<< Expression(LOWEST), [call |-> "let", name |-> tokens[2].literal] >>)
            /\ UNCHANGED <<result, errors>>
       ELSE NextTokens(IF Peek = "IDENT" THEN 1 ELSE 0) /\ Refuse
    /\ UNCHANGED status

(* A function is told its name.  There is always a value to look at.       *)
Named(value, name) == IF value.type = "FN" THEN [value EXCEPT !.name = name] ELSE value

LetValue ==
    /\ Entering("let") /\ result # NULL
    /\ Return([type |-> "LET", name |-> Waiting.name, value |-> Named(result, Waiting.name)])
    /\ SkipSemicolon
    /\ UNCHANGED <<errors, status>>

(* ... except that a value which does not parse is a null pointer.         *)
LetNothing ==
    /\ Entering("let") /\ result = NULL
    /\ status' = "undefined"
    /\ UNCHANGED <<tokens, calls, result, errors>>

ReturnStatement ==
    /\ Entering("statement") /\ Current = "return"
    /\ NextTokens(1)
    /\ Replace(<< Expression(LOWEST), [call |-> "return"] >>)
    /\ UNCHANGED <<result, errors, status>>

ReturnValue ==
    /\ Entering("return")
    /\ Return([type |-> "RETURN", value |-> result])
    /\ SkipSemicolon
    /\ UNCHANGED <<errors, status>>

ExpressionStatement ==
    /\ Entering("statement") /\ Current \notin {"let", "return"}
    /\ Replace(<< Expression(LOWEST), [call |-> "expression statement"] >>)
    /\ UNCHANGED <<tokens, result, errors, status>>

ExpressionValue ==
    /\ Entering("expression statement")
    /\ IF result = NULL THEN Return(NULL) /\ UNCHANGED tokens
       ELSE Return([type |-> "EXPR", value |-> result]) /\ SkipSemicolon
    /\ UNCHANGED <<errors, status>>
-----------------------------------------------------------------------------
(* parse_expression: prefixes *)

NoParselet ==
    /\ Entering("expression")
    /\ Current \notin {"fn", "if", "(", "IDENT", "INT", "STRING", "-", "!", "true", "false", "[", "{"}
    /\ Refuse
    /\ UNCHANGED <<tokens, status>>

(* atoi; only the literal 0 may be worth 0.                                *)
Digit(c) == CHOOSE d \in 0..9 : SubSeq("0123456789", d + 1, d + 1) = c
Atoi(literal) ==
    LET value[n \in 0..Len(literal)] ==
          IF n = 0 THEN 0 ELSE 10 * value[n - 1] + Digit(SubSeq(literal, n, n))
    IN  value[Len(literal)]

Literal(token) ==
    CASE token.type = "IDENT" -> [type |-> "IDENT", name |-> token.literal]
      [] token.type = "STRING" -> [type |-> "STRING", string |-> token.literal]
      [] token.type \in {"true", "false"} -> [type |-> "BOOL", bool |-> token.type = "true"]
      [] token.type = "INT" ->
           IF Atoi(token.literal) = 0 /\ token.literal # "0" THEN NULL
           ELSE [type |-> "INT", int |-> Atoi(token.literal), literal |-> token.literal]

(* The message about a number quotes it, in a buffer of its own.           *)
Reported(literal) == Len("could not parse " \o literal \o " as an integer") < ERR_MSG_LEN

LiteralExpression ==
    /\ Entering("expression") /\ Current \in {"IDENT", "INT", "STRING", "true", "false"}
    /\ Parselet(<< >>)
    /\ result' = Literal(tokens[1])
    /\ IF result' = NULL THEN PushError ELSE UNCHANGED errors
    /\ status' = IF result' = NULL /\ ~Reported(tokens[1].literal) THEN "undefined" ELSE status
    /\ UNCHANGED tokens

PrefixExpression ==
    /\ Entering("expression") /\ Current \in {"-", "!"}
    /\ NextTokens(1)
    /\ Parselet(<< Expression(PREFIX), [call |-> "prefix", operator |-> Current] >>)
    /\ UNCHANGED <<result, errors, status>>

PrefixOperand ==
    /\ Entering("prefix")
    /\ Return([type |-> "PREFIX", operator |-> Waiting.operator, right |-> result])
    /\ UNCHANGED <<tokens, errors, status>>

GroupedExpression ==
    /\ Entering("expression") /\ Current = "("
    /\ NextTokens(1)
    /\ Parselet(<< Expression(LOWEST), [call |-> "grouped"] >>)
    /\ UNCHANGED <<result, errors, status>>

RefuseGroup == Return(NULL) /\ UNCHANGED errors     \* faulty: the error is not recorded
GroupNotClosed == Refuse

GroupEnd ==
    /\ Entering("grouped")
    /\ IF Peek = ")" THEN Return(result) /\ NextTokens(1) /\ UNCHANGED errors
       ELSE GroupNotClosed /\ UNCHANGED tokens
    /\ UNCHANGED status

ArrayLiteral ==
    /\ Entering("expression") /\ Current = "["
    /\ Parselet(<< ExpressionList("]"), [call |-> "array"] >>)
    /\ UNCHANGED <<tokens, result, errors, status>>

ArrayElements ==
    /\ Entering("array")
    /\ Return([type |-> "ARRAY", elements |-> result.items])
    /\ UNCHANGED <<tokens, errors, status>>

(* parse_expression_list: of a list that is not closed nothing is kept.    *)
ListItems(items) == [call |-> "items", end |-> Waiting.end, items |-> items]

BeginList ==
    /\ Entering("list")
    /\ NextTokens(1)
    /\ IF Peek = Waiting.end THEN Return(ListOf(<< >>))
       ELSE Replace(<< Expression(LOWEST), ListItems(<< >>) >>) /\ UNCHANGED result
    /\ UNCHANGED <<errors, status>>

ListItem ==
    /\ Entering("items")
    /\ LET items == Append(Waiting.items, result)
       IN  \/ /\ Peek = ","
              /\ NextTokens(2)
              /\ Replace(<< Expression(LOWEST), ListItems(items) >>)
              /\ UNCHANGED <<result, errors>>
           \/ /\ Peek = Waiting.end
              /\ NextTokens(1)
              /\ Return(ListOf(items))
              /\ UNCHANGED errors
           \/ /\ Peek \notin {",", Waiting.end}
              /\ PushError /\ Return(ListOf(<< >>))
              /\ UNCHANGED tokens
    /\ UNCHANGED status

HashLiteral ==
    /\ Entering("expression") /\ Current = "{"
    /\ Parselet(<< [call |-> "pairs", pairs |-> << >>] >>)
    /\ UNCHANGED <<tokens, result, errors, status>>

NextPair ==
    /\ Entering("pairs")
    /\ NextTokens(1)
    /\ IF Peek = "}" THEN Return([type |-> "HASH", pairs |-> Waiting.pairs])
       ELSE /\ Replace(<< Expression(LOWEST), [call |-> "key", pairs |-> Waiting.pairs] >>)
            /\ UNCHANGED result
    /\ UNCHANGED <<errors, status>>

PairKey ==
    /\ Entering("key")
    /\ IF Peek = ":"
       THEN /\ NextTokens(2)
            /\ Replace(<< Expression(LOWEST), [call |-> "value", pairs |-> Waiting.pairs, key |-> result] >>)
            /\ UNCHANGED <<result, errors>>
       ELSE Refuse /\ UNCHANGED tokens
    /\ UNCHANGED status

PairValue ==
    /\ Entering("value")
    /\ IF Peek \in {",", "}"}
       THEN /\ NextTokens(IF Peek = "," THEN 1 ELSE 0)
            /\ Replace(<< [call |-> "pairs", pairs |-> Append(Waiting.pairs, <<Waiting.key, result>>)] >>)
            /\ UNCHANGED <<result, errors>>
       ELSE Refuse /\ UNCHANGED tokens
    /\ UNCHANGED status

-----------------------------------------------------------------------------
(* parse_expression: operators *)

(* The operator ahead takes what has been parsed as its left operand, or   *)
(* what waits for it does.                                                 *)
Binds == Peek # ";" /\ Waiting.precedence < Precedence(Peek)

Operand(precedence) == Expression(precedence - 1)     \* faulty: to the right first
RightOperand(precedence) == Expression(precedence)

InfixExpression ==
    /\ Entering("infixes") /\ Binds /\ Peek \in InfixSigns
    /\ NextTokens(2)
    /\ Parselet(<< RightOperand(Precedence(Peek)), [call |-> "infix", operator |-> Peek, left |-> result] >>)
    /\ UNCHANGED <<result, errors, status>>

InfixOperand ==
    /\ Entering("infix")
    /\ Return([type |-> "INFIX", operator |-> Waiting.operator, left |-> Waiting.left, right |-> result])
    /\ UNCHANGED <<tokens, errors, status>>

CallExpression ==
    /\ Entering("infixes") /\ Binds /\ Peek = "("
    /\ NextTokens(1)
    /\ Parselet(<< ExpressionList(")"), [call |-> "call", fn |-> result] >>)
    /\ UNCHANGED <<result, errors, status>>

CallArguments ==
    /\ Entering("call")
    /\ Return([type |-> "CALL", fn |-> Waiting.fn, args |-> result.items])
    /\ UNCHANGED <<tokens, errors, status>>

IndexExpression ==
    /\ Entering("infixes") /\ Binds /\ Peek = "["
    /\ NextTokens(2)
    /\ Parselet(<< Expression(LOWEST), [call |-> "index", left |-> result] >>)
    /\ UNCHANGED <<result, errors, status>>

IndexEnd ==
    /\ Entering("index")
    /\ IF Peek = "]"
       THEN /\ Return([type |-> "INDEX", left |-> Waiting.left, index |-> result])
            /\ NextTokens(1) /\ UNCHANGED errors
       ELSE Refuse /\ UNCHANGED tokens
    /\ UNCHANGED status

NoMoreInfixes ==
    /\ Entering("infixes") /\ ~Binds
    /\ Return(result)
    /\ UNCHANGED <<tokens, errors, status>>

-----------------------------------------------------------------------------
(* Conditionals *)

IfExpression ==
    /\ Entering("expression") /\ Current = "if"
    /\ IF Peek = "("
       THEN /\ NextTokens(2)
            /\ Parselet(<< Expression(LOWEST), [call |-> "condition"] >>)
            /\ UNCHANGED <<result, errors>>
       ELSE PushError /\ result' = NULL /\ Parselet(<< >>) /\ UNCHANGED tokens
    /\ UNCHANGED status

IfCondition ==
    /\ Entering("condition")
    /\ IF Ahead(")", "{")
       THEN /\ NextTokens(3)
            /\ Replace(<< Block, [call |-> "consequence", condition |-> result] >>)
            /\ UNCHANGED <<result, errors>>
       ELSE NextTokens(IF Peek = ")" THEN 1 ELSE 0) /\ Refuse
    /\ UNCHANGED status

If(condition, consequence, alternative) ==
    [type |-> "IF", condition |-> condition, consequence |-> consequence, alternative |-> alternative]

IfConsequence ==
    /\ Entering("consequence")
    /\ \/ /\ Peek # "else"
          /\ Return(If(Waiting.condition, result.items, Unset))
          /\ UNCHANGED <<tokens, errors>>
       \/ /\ Ahead("else", "{")
          /\ NextTokens(3)
          /\ Replace(<< Block, [call |-> "alternative", condition |-> Waiting.condition,
                                consequence |-> result.items] >>)
          /\ UNCHANGED <<result, errors>>
       \/ /\ Peek = "else" /\ ~Ahead("else", "{")
          /\ NextTokens(1)
          /\ Refuse
    /\ UNCHANGED status

IfAlternative ==
    /\ Entering("alternative")
    /\ Return(If(Waiting.condition, Waiting.consequence, result.items))
    /\ UNCHANGED <<tokens, errors, status>>

-----------------------------------------------------------------------------
(* Function literals *)

FunctionLiteral ==
    /\ Entering("expression") /\ Current = "fn"
    /\ IF Peek = "("
       THEN /\ NextTokens(1)
            /\ Parselet(<< [call |-> "parameters", names |-> << >>], [call |-> "function"] >>)
            /\ UNCHANGED <<result, errors>>
       ELSE PushError /\ result' = NULL /\ Parselet(<< >>) /\ UNCHANGED tokens
    /\ UNCHANGED status

LiteralOf(window) == IF window = << >> THEN EOF.literal ELSE window[1].literal

(* parse_function_parameters takes whatever token stands where a name      *)
(* should.                                                                 *)
Parameter ==
    /\ Entering("parameters")
    /\ \/ Waiting.names = << >> /\ Peek # ")" /\ NextTokens(1)
       \/ Waiting.names # << >> /\ Peek = "," /\ NextTokens(2)
    /\ Replace(<< [Waiting EXCEPT !.names = Append(@, LiteralOf(tokens'))] >>)
    /\ UNCHANGED <<result, errors, status>>

EndOfParameters ==
    /\ Entering("parameters") /\ Peek = ")"
    /\ NextTokens(1)
    /\ Return(ListOf(Waiting.names))
    /\ UNCHANGED <<errors, status>>

ParametersNotClosed ==
    /\ Entering("parameters") /\ Waiting.names # << >> /\ Peek \notin {",", ")"}
    /\ PushError /\ Return(ListOf(<< >>))
    /\ UNCHANGED <<tokens, status>>

FunctionBody ==
    /\ Entering("function")
    /\ IF Peek = "{"
       THEN /\ NextTokens(2)
            /\ Replace(<< Block, [call |-> "body", params |-> result.items] >>)
            /\ UNCHANGED <<result, errors>>
       ELSE Refuse /\ UNCHANGED tokens
    /\ UNCHANGED status

FunctionEnd ==
    /\ Entering("body")
    /\ Return([type |-> "FN", name |-> Unset, params |-> Waiting.params, body |-> result.items])
    /\ UNCHANGED <<tokens, errors, status>>

-----------------------------------------------------------------------------
NextParser ==
    \/ Overrun \/ NextStatement \/ AppendStatement \/ EndOfStatements \/ EndParse
    \/ LetStatement \/ LetValue \/ LetNothing \/ ReturnStatement \/ ReturnValue
    \/ ExpressionStatement \/ ExpressionValue
    \/ NoParselet \/ LiteralExpression \/ PrefixExpression \/ PrefixOperand
    \/ GroupedExpression \/ GroupEnd \/ ArrayLiteral \/ ArrayElements \/ BeginList \/ ListItem
    \/ HashLiteral \/ NextPair \/ PairKey \/ PairValue
    \/ InfixExpression \/ InfixOperand \/ CallExpression \/ CallArguments
    \/ IndexExpression \/ IndexEnd \/ NoMoreInfixes
    \/ IfExpression \/ IfCondition \/ IfConsequence \/ IfAlternative
    \/ FunctionLiteral \/ Parameter \/ EndOfParameters \/ ParametersNotClosed
    \/ FunctionBody \/ FunctionEnd

SpecParser == (\E text \in Sources : InitParser(text)) /\ [][NextParser]_parserVars /\ WF_parserVars(NextParser)

-----------------------------------------------------------------------------
(* Trees *)

StatementTypes == {"LET", "RETURN", "EXPR"}
ExpressionTypes == {"IDENT", "INT", "STRING", "BOOL", "PREFIX", "INFIX", "ARRAY", "HASH", "INDEX",
                    "CALL", "IF", "FN"}

(* What a node refers to, one level down: expressions, and the statements  *)
(* of its blocks.                                                          *)
Items(seq) == {seq[i] : i \in DOMAIN seq}
Terms(node) ==
    CASE node.type \in StatementTypes -> {node.value}
      [] node.type = "PREFIX" -> {node.right}
      [] node.type = "INFIX" -> {node.left, node.right}
      [] node.type = "INDEX" -> {node.left, node.index}
      [] node.type = "ARRAY" -> Items(node.elements)
      [] node.type = "HASH" -> UNION {{pair[1], pair[2]} : pair \in Items(node.pairs)}
      [] node.type = "CALL" -> {node.fn} \cup Items(node.args)
      [] node.type = "IF" -> {node.condition}
      [] OTHER -> {}
Inner(node) ==
    CASE node.type = "FN" -> Items(node.body)
      [] node.type = "IF" -> Items(node.consequence)
                             \cup (IF node.alternative = Unset THEN {} ELSE Items(node.alternative))
      [] OTHER -> {}
Below(node) == Terms(node) \cup Inner(node)

(* The nodes of a program, down to MaxDepth levels below its statements.   *)
Nodes(program) ==
    LET down[d \in 0..MaxDepth] ==
          IF d = 0 THEN Items(program)
          ELSE LET above == down[d - 1] IN above \cup UNION {Below(node) : node \in above}
    IN  down[MaxDepth]

(* A node with expressions and statements, and nothing else, in the places *)
(* for them.                                                               *)
Proper(node) ==
    /\ \A n \in Terms(node) : n.type \in ExpressionTypes
    /\ \A n \in Inner(node) : n.type \in StatementTypes
    /\ node.type = "PREFIX" => node.operator \in {"-", "!"}
    /\ node.type = "INFIX" => node.operator \in InfixSigns

-----------------------------------------------------------------------------
(* Properties *)

(* A null pointer is returned only after an error has been recorded, and   *)
(* the count of errors, which stops at the size of their array, is not 0   *)
(* from then on.  All callers store what they are given without a look.    *)
NullReported == result = NULL => errors \in 1..MAX_ERRORS

(* A program for which no error was recorded is whole: everywhere in it    *)
(* stands what the grammar has there, an expression, a statement or an     *)
(* operator, and nowhere the null pointer of a function that gave up.  The *)
(* callers of the parser look at the count of errors and at nothing else   *)
(* before they compile, evaluate or print the tree.                        *)
AcceptedIsWhole ==
    status = "parsed" /\ errors = 0 =>
        /\ \A node \in Items(result.items) : node.type \in StatementTypes
        /\ \A node \in Nodes(result.items) : Proper(node)
=============================================================================
