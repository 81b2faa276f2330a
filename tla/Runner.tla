------------------------------- MODULE Runner -------------------------------
(***************************************************************************)
(* The command line: main of src/monkey.c, the flags of src/utils/argv.c,  *)
(* and src/run/run.c, which finds a program and an engine to run it.       *)
(*                                                                         *)
(* What the loops and engines do then is left to the modules about them;   *)
(* here it matters which of them is started, and with what.                *)
(***************************************************************************)
EXTENDS Naturals, Sequences

CONSTANTS CommandLines,     \* sequences of arguments, without the program's name
          Files,            \* names to the lengths of the lines fgets reads, for those that open
          MAX_INPUT,        \* MAX_LINE * MAX_NUM_LINES of run.c
          MAX_SRC_LEN       \* the buffer of the scanner

VARIABLES args,     \* argv[1], argv[2], ...
          stage,    \* what main is about to do, or has started or come to
          flags,    \* of run: what it has read from the arguments
          unread,   \* of the file, the lines still to be read
          length    \* how long the program is so far
runnerVars == <<args, stage, flags, unread, length>>

-----------------------------------------------------------------------------
(* argv_has_flag looks for a character in every argument with a dash.      *)
HasFlag(flag) ==
    \E i \in DOMAIN args :
      /\ SubSeq(args[i], 1, 1) = "-"
      /\ \E j \in 2..Len(args[i]) : SubSeq(args[i], j, j) = flag

(* argv_idx                                                                *)
Has(argument) == \E i \in DOMAIN args : args[i] = argument
Index(argument) ==
    CHOOSE i \in DOMAIN args : args[i] = argument /\ \A j \in 1..i - 1 : args[j] # argument

(* get_filename: the first argument after "run" with the suffix.           *)
IsFilename(argument) ==
    Len(argument) > 4 /\ SubSeq(argument, Len(argument) - 3, Len(argument)) = ".mky"
Filenames == {i \in DOMAIN args : i >= 2 /\ IsFilename(args[i])}
Filename == args[CHOOSE i \in Filenames : \A j \in Filenames : i <= j]

-----------------------------------------------------------------------------
Init ==
    /\ args \in CommandLines
    /\ stage = "main" /\ flags = {} /\ unread = << >> /\ length = 0

Loop ==
    CASE HasFlag("t") \/ Has("--tokens") -> "tokens"
      [] ~(HasFlag("t") \/ Has("--tokens")) /\ (HasFlag("e") \/ Has("--eval")) -> "interpreter loop"
      [] ~(HasFlag("t") \/ Has("--tokens") \/ HasFlag("e") \/ Has("--eval"))
         /\ (HasFlag("p") \/ Has("--parsed")) -> "parsed"
      [] OTHER -> "machine loop"

StartLoop ==
    /\ stage = "main" /\ ~(Has("run") /\ Index("run") = 1)
    /\ stage' = Loop
    /\ UNCHANGED <<args, flags, unread, length>>

(* run() tells the engine by the flag that it calls "compile".             *)
CompileFlag == HasFlag("i")
Run ==
    /\ stage = "main" /\ Has("run") /\ Index("run") = 1
    /\ flags' = (IF CompileFlag THEN {"compile"} ELSE {}) \cup (IF HasFlag("m") THEN {"measure"} ELSE {})
    /\ stage' = "run"
    /\ UNCHANGED <<args, unread, length>>

(* The argument after -e is the program.  After the last argument there is *)
(* a null pointer.                                                         *)
EvalArgument ==
    /\ stage = "run" /\ Has("-e")
    /\ LET i == Index("-e") + 1
       IN  IF i \in DOMAIN args THEN length' = Len(args[i]) /\ stage' = "scan"
           ELSE stage' = "undefined" /\ UNCHANGED length
    /\ UNCHANGED <<args, flags, unread>>

(* Without a name the process ends; of a file that does not open the text  *)
(* is a null pointer too.                                                  *)
OpenFile ==
    /\ stage = "run" /\ ~Has("-e")
    /\ IF Filenames = {} THEN stage' = "exited" /\ UNCHANGED unread
       ELSE IF Filename \notin DOMAIN Files THEN stage' = "undefined" /\ UNCHANGED unread
       ELSE stage' = "read" /\ unread' = Files[Filename]
    /\ UNCHANGED <<args, flags, length>>

ReadLine ==
    /\ stage = "read" /\ unread # << >>
    /\ length' = length + Head(unread) /\ unread' = Tail(unread)
    /\ stage' = IF length' > MAX_INPUT THEN "exited" ELSE stage
    /\ UNCHANGED <<args, flags>>

EndOfFile ==
    /\ stage = "read" /\ unread = << >>
    /\ stage' = "scan"
    /\ UNCHANGED <<args, flags, unread, length>>

(* exec: the text is copied into the scanner and parsed, and one engine    *)
(* runs the program.  A program with errors ends the process.              *)
Exec ==
    /\ stage = "scan"
    /\ IF length + 1 < MAX_SRC_LEN
       THEN stage' \in {"exited", IF "compile" \in flags THEN "machine" ELSE "interpreter"}
       ELSE stage' = "undefined"
    /\ UNCHANGED <<args, flags, unread, length>>

Next == StartLoop \/ Run \/ EvalArgument \/ OpenFile \/ ReadLine \/ EndOfFile \/ Exec

Spec == Init /\ [][Next]_runnerVars /\ WF_runnerVars(Next)

-----------------------------------------------------------------------------
(* Properties *)

(* The engine is the one that the usage in README.md names: with -i it is  *)
(* the interpreter, and with -c or neither of them the compiler.           *)
EngineAsDocumented ==
    stage \in {"machine", "interpreter"} =>
        stage = IF Has("-i") THEN "interpreter" ELSE "machine"
=============================================================================
