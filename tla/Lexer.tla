------------------------------- MODULE Lexer --------------------------------
(***************************************************************************)
(* The scanner, src/lexer/lexer.c: its state and lexer_next_token.         *)
(*                                                                         *)
(* A text is a string, the sequence of its characters, and a token is its  *)
(* type and its literal; the type of a keyword or of a sign is its own     *)
(* text.  The scanner stands at a character of the text: ch, position and  *)
(* read_position of the C code are one number here, as read_char moves     *)
(* them together.                                                          *)
(*                                                                         *)
(* The literal of a name, a number or a string is copied into a buffer of  *)
(* fixed size and the text itself into another, none of them with a check. *)
(***************************************************************************)
EXTENDS Naturals, Sequences

CONSTANTS MAX_SRC_LEN, MAX_IDENTIFIER_LEN, MAX_STR_LEN

Token(type, literal) == [type |-> type, literal |-> literal]
EOF == Token("EOF", "")

Letters == {"a", "b", "c", "d", "e", "f", "g", "h", "i", "j", "k", "l", "m", "n", "o", "p", "q",
            "r", "s", "t", "u", "v", "w", "x", "y", "z", "_",
            "A", "B", "C", "D", "E", "F", "G", "H", "I", "J", "K", "L", "M", "N", "O", "P", "Q",
            "R", "S", "T", "U", "V", "W", "X", "Y", "Z"}
Digits == {"0", "1", "2", "3", "4", "5", "6", "7", "8", "9"}
Blanks == {" ", "\t", "\n", "\r"}
Keywords == {"let", "fn", "true", "false", "if", "else", "return"}
Signs == {":", "[", "]", "-", "/", "*", "<", ">", "+", "(", ")", "{", "}", ",", ";", "=", "!"}

-----------------------------------------------------------------------------
(* The end of the text reads as a character of its own.                    *)
TextFits(text) == Len(text) + 1 < MAX_SRC_LEN
End == ""
CharAt(text, i) == IF i > Len(text) THEN End ELSE SubSeq(text, i, i)

(* The first position from i on where none of the characters stands.       *)
After(text, i, chars) ==
    CHOOSE j \in i..Len(text) + 1 :
        /\ CharAt(text, j) \notin chars
        /\ \A k \in i..j - 1 : CharAt(text, k) \in chars

(* The text from i up to j, without j.                                     *)
Between(text, i, j) == SubSeq(text, i, j - 1)

LookupIdent(name) == IF name \in Keywords THEN name ELSE "IDENT"

(* A string ends with a quote or with the text; a quote cannot be in it.   *)
Quote == "\""
StringEnd(text, i) ==
    CHOOSE j \in i..Len(text) + 1 :
        /\ CharAt(text, j) \in {Quote, End}
        /\ \A k \in i..j - 1 : CharAt(text, k) # Quote

(* lexer_next_token: the token and where the scanner stands after it.      *)
TwoSigns(text, i) == CharAt(text, i) \in {"=", "!"} /\ CharAt(text, i + 1) = "="

TokenAt(text, i) ==
    LET c == CharAt(text, i)
    IN  CASE c = End -> [token |-> EOF, pos |-> i]
          [] c = Quote ->
               LET j == StringEnd(text, i + 1)
               IN  [token |-> Token("STRING", Between(text, i + 1, j)), pos |-> j + 1]
          [] c \in Letters ->
               LET j == After(text, i, Letters)
                   name == Between(text, i, j)
               IN  [token |-> Token(LookupIdent(name), name), pos |-> j]
          [] c \in Digits ->
               LET j == After(text, i, Digits)
               IN  [token |-> Token("INT", Between(text, i, j)), pos |-> j]
          [] c \in Signs ->
               LET n == IF TwoSigns(text, i) THEN 2 ELSE 1
                   sign == Between(text, i, i + n)
               IN  [token |-> Token(sign, sign), pos |-> i + n]
          [] OTHER -> [token |-> Token("ILLEGAL", c), pos |-> i + 1]

NextToken(text, i) == TokenAt(text, After(text, i, Blanks))

(* All that is scanned of a text before the end of it.  A string that is   *)
(* not closed ends one character beyond.                                   *)
Tokens(text) ==
    LET from[i \in 1..Len(text) + 2] ==
          IF i > Len(text) THEN << >>
          ELSE LET next == NextToken(text, i)
               IN  IF next.token = EOF THEN << >> ELSE << next.token >> \o from[next.pos]
    IN  from[1]

(* read_identifier, read_number and read_string                            *)
Fits(token) ==
    /\ token.type \in {"IDENT", "INT"} \cup Keywords => Len(token.literal) < MAX_IDENTIFIER_LEN
    /\ token.type = "STRING" => Len(token.literal) < MAX_STR_LEN
=============================================================================
