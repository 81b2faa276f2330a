------------------------------ MODULE MCRunner ------------------------------
(* Instances of Runner for TLC: the command lines of README.md and others. *)
EXTENDS Runner

Flags == {"-i", "-c", "-m", "-e", "-im"}
MCommandLines ==
    {<<"run", f, x>> : f \in Flags, x \in {"fib.mky", "long.mky", "longer.mky", "none.mky", "1 + 2;"}}
    \cup {<<"run">>, <<"run", "fib.mky">>, <<"run", "fib.mky", "-e">>, << >>, <<"-t">>, <<"--tokens">>,
          <<"-e">>, <<"--eval">>, <<"-p">>, <<"--parsed">>, <<"fib.mky", "run">>}
MFileNames == {"fib.mky", "long.mky", "longer.mky"}
MFiles == [name \in MFileNames |->
             CASE name = "fib.mky" -> <<3, 4>> [] name = "long.mky" -> <<8, 8, 4>>
               [] name = "longer.mky" -> <<8, 8, 8, 8, 8>>]
=============================================================================
