---------------------------- MODULE LexicalScope ----------------------------
(***************************************************************************)
(* What a symbol table promises, whatever it is made of: names are bound   *)
(* in nested scopes, the innermost binding of a name wins, a binding made  *)
(* in an open scope stays until it is redefined or its scope is closed,    *)
(* and two names of one scope never share a slot.                          *)
(*                                                                         *)
(* SymbolTable (src/compiler/symbol_table.c) is shown to implement this    *)
(* specification: there the bindings live in a trie and an outer local is  *)
(* reached through a chain of "free" symbols, neither of which is visible  *)
(* here.                                                                   *)
(***************************************************************************)
EXTENDS Naturals, Sequences

CONSTANTS Names,       \* the identifiers of a program
          Slots,       \* the slots a scope can give its names
          Predefined,  \* Predefined[n]: the slot of n in the outermost scope, or NULL
          NULL         \* no binding

Bindings == [kind : {"GLOBAL", "LOCAL", "BUILTIN", "FUNCTION"}, slot : Slots]

VARIABLES scopes,  \* the open scopes, the outermost one first
          answer   \* the latest answer: the scope and the binding found there
vars == <<scopes, answer>>

Current == Len(scopes)
Nothing == [n \in Names |-> NULL]

(* The slot is not the slot of another name of the innermost scope.        *)
Unused(name, kind, slot) ==
    \A m \in Names \ {name} : scopes[Current][m] # [kind |-> kind, slot |-> slot]

-----------------------------------------------------------------------------
Init ==
    /\ scopes = << [n \in Names |-> IF Predefined[n] = NULL THEN NULL
                                    ELSE [kind |-> "BUILTIN", slot |-> Predefined[n]]] >>
    /\ answer = NULL

(* A function body opens a scope, in which its own name may be bound.      *)
Open ==
    /\ \E self \in Names \cup {NULL} :
         scopes' = Append(scopes, [n \in Names |-> IF n = self
                                                   THEN [kind |-> "FUNCTION", slot |-> 0]
                                                   ELSE NULL])
    /\ answer' = NULL

Close ==
    /\ Current > 1
    /\ scopes' = SubSeq(scopes, 1, Current - 1)
    /\ answer' = NULL

Bind(name) ==
    LET kind == IF Current = 1 THEN "GLOBAL" ELSE "LOCAL"
    IN  /\ \E slot \in Slots :
             /\ Unused(name, kind, slot)
             /\ scopes' = [scopes EXCEPT ![Current][name] = [kind |-> kind, slot |-> slot]]
        /\ answer' = NULL

(* The innermost binding of the name, and the scope it was made in.        *)
Lookup(name) ==
    /\ \/ \E d \in DOMAIN scopes :
            /\ scopes[d][name] # NULL
            /\ \A e \in d+1..Current : scopes[e][name] = NULL
            /\ answer' = [name |-> name, depth |-> d, binding |-> scopes[d][name]]
       \/ /\ \A d \in DOMAIN scopes : scopes[d][name] = NULL
          /\ answer' = [name |-> name, depth |-> 0, binding |-> NULL]
    /\ UNCHANGED scopes

Next == Open \/ Close \/ \E name \in Names : Bind(name) \/ Lookup(name)

Spec == Init /\ [][Next]_vars
=============================================================================
