----------------------------- MODULE ReadPrint ------------------------------
(***************************************************************************)
(* The loop that prints what it has parsed, repl_start_parsed_string of    *)
(* src/repl/repl.c, over the scanner, the parser and the printer.          *)
(*                                                                         *)
(* Two lines are entered: a text, and then whatever the loop has printed   *)
(* for it.                                                                 *)
(***************************************************************************)
EXTENDS Parser, Printer

VARIABLES text,     \* the text that has been entered last
          first     \* the program of the first line, once it has been printed
readPrintVars == <<parserVars, text, first>>

Init == \E source \in Sources : InitParser(source) /\ text = source /\ first = Unset

ParseStep == NextParser /\ UNCHANGED <<text, first>>

(* Errors are printed, and the loop goes on.                               *)
ReportErrors ==
    /\ status = "parsed" /\ errors > 0
    /\ status' = "idle"
    /\ UNCHANGED <<tokens, calls, result, errors, text, first>>

PrintProgram ==
    /\ status = "parsed" /\ errors = 0
    /\ status' = IF StatementsPrintable(result.items) THEN "printed" ELSE "undefined"
    /\ UNCHANGED <<tokens, calls, result, errors, text, first>>

EnterPrinted ==
    /\ status = "printed" /\ first = Unset
    /\ first' = result.items
    /\ text' = ProgramString(result.items)
    /\ BeginParse(text')

Next == ParseStep \/ ReportErrors \/ PrintProgram \/ EnterPrinted

(* The program goes on by itself until it has printed something.           *)
Spec == Init /\ [][Next]_readPrintVars
             /\ WF_readPrintVars(ParseStep \/ ReportErrors \/ PrintProgram)

-----------------------------------------------------------------------------
(* Properties *)

(* What is read are tokens, the count of errors stays within its array and *)
(* every finished program is a list of nodes.                              *)
TypeOK ==
    /\ status \in {"parsing", "parsed", "idle", "printed", "undefined"}
    /\ errors \in 0..MAX_ERRORS
    /\ tokens \in Seq([type : STRING, literal : STRING])
    /\ status = "parsed" => \A node \in Nodes(result.items) \ {NULL} :
                                node.type \in StatementTypes \cup ExpressionTypes

(* What the loop prints for a single statement, entered again, is the same *)
(* program: operators that bind more strongly, or lie to the left, are     *)
(* found again by the parentheses of the printer alone.  The text of a     *)
(* function has no braces, and between two statements there may be nothing.*)
HasFunction(program) == \E node \in Nodes(program) : node.type = "FN"
ReadsBack ==
    (first # Unset /\ status # "parsing" /\ Len(first) = 1 /\ ~HasFunction(first)) =>
        status # "undefined" /\ errors = 0 /\ result.items = first

(* Whatever the text, the parser comes to an end with it, and the printer. *)
Ends == status \in {"parsing", "parsed"} ~> status \in {"idle", "printed", "undefined"}
=============================================================================
