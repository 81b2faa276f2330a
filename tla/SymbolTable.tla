---------------------------- MODULE SymbolTable -----------------------------
(***************************************************************************)
(* The compiler's symbol tables, src/compiler/symbol_table.c.              *)
(*                                                                         *)
(* compile() opens a table for every function literal it enters, defines   *)
(* the function's name and its parameters in it, defines a symbol for      *)
(* every let, resolves every identifier, and drops the table when it       *)
(* leaves the literal.  Resolving a local of an enclosing function is a    *)
(* write: every table between the definition and the use gets a FREE       *)
(* symbol, and the symbol it stands for is appended to that table's        *)
(* free_symbols, from which the enclosing function later loads the value   *)
(* that the closure captures.                                              *)
(*                                                                         *)
(* A store is a trie indexed by the characters of a name.  symbol_put      *)
(* hangs a NEW node at the last character of the name, so whatever hung    *)
(* below the old node is lost: all the names of that table which strictly  *)
(* extend the one put.  Names are opaque here and Extensions says which    *)
(* names extend which; a store maps a name to its symbol or to NULL.       *)
(*                                                                         *)
(* The first part of the module holds the operations as operators on the   *)
(* stack of open tables (the module Compiler uses them); the second part   *)
(* is the state machine of the operations in the order compile() can call  *)
(* them.                                                                   *)
(***************************************************************************)
EXTENDS Naturals, Sequences

CONSTANTS Names,          \* the identifiers of a program
          Extensions,     \* Extensions[n]: the names that n is a proper prefix of
          BuiltinIndex,   \* BuiltinIndex[n]: the index of the builtin n, or NULL
          NULL,           \* the null pointer
          MaxDepth,       \* bound: open tables (MAX_SCOPES in compiler.c)
          MaxDefinitions  \* bound: num_definitions of one table

ASSUME ExtensionsAssumption ==
    /\ Extensions \in [Names -> SUBSET Names]
    /\ \A n \in Names : n \notin Extensions[n]

(* symbol_table_define_builtins: the builtins and their positions.         *)
ASSUME BuiltinAssumption == BuiltinIndex \in [Names -> Nat \cup {NULL}]

SymbolScope == {"GLOBAL", "LOCAL", "BUILTIN", "FREE", "FUNCTION"}
Symbol == [name : Names, scope : SymbolScope, index : Nat]
Store == [Names -> Symbol \cup {NULL}]
ASSUME NullAssumption == NULL \notin Names \cup Symbol
Table == [store : Store, num : Nat, free : Seq(Symbol)]

NewSymbol(name, index, scope) == [name |-> name, scope |-> scope, index |-> index]

-----------------------------------------------------------------------------
(* Operations on one table *)

(* Faulty: the nodes on the way to the last character are always new, and  *)
(* the other names begin with the same characters.                         *)
PutAlone(store, symbol) == [n \in Names |-> IF n = symbol.name THEN symbol ELSE NULL]

(* symbol_put: the node of the name is replaced together with its subtree. *)
Put(store, symbol) ==
    [n \in Names |-> IF n = symbol.name THEN symbol
                     ELSE IF n \in Extensions[symbol.name] THEN NULL
                     ELSE store[n]]

EmptyTable == [store |-> [n \in Names |-> NULL], num |-> 0, free |-> << >>]

(* The outermost table after symbol_table_define_builtins.  The names of   *)
(* the builtins do not extend each other, so their order does not matter;  *)
(* defining a builtin does not count as a definition.                      *)
BuiltinTable ==
    [store |-> [n \in Names |-> IF BuiltinIndex[n] = NULL THEN NULL
                                ELSE NewSymbol(n, BuiltinIndex[n], "BUILTIN")],
     num   |-> 0,
     free  |-> << >>]

(* symbol_table_define_fn_name: the function's own name, in its own table. *)
DefineFnName(t, name) ==
    [store |-> Put(t.store, NewSymbol(name, 0, "FUNCTION")),
     num   |-> t.num,
     free  |-> t.free]

(* Faulty: num_definitions is not counted up.                              *)
DefineSymbolUncounted(t, name, scope) ==
    [store |-> Put(t.store, NewSymbol(name, t.num, scope)), num |-> t.num, free |-> t.free]

DefineSymbol(t, name, scope) ==
    [store |-> Put(t.store, NewSymbol(name, t.num, scope)),
     num   |-> t.num + 1,
     free  |-> t.free]

(* Faulty: the free variables are numbered from one.                       *)
FreeSymbolFromOne(t, name) == NewSymbol(name, Len(t.free) + 1, "FREE")

(* define_free takes the first NULL of free_symbols, which is its length.  *)
FreeSymbol(t, name) == NewSymbol(name, Len(t.free), "FREE")

DefineFree(t, original) ==
    [store |-> Put(t.store, FreeSymbol(t, original.name)),
     num   |-> t.num + 1,
     free  |-> Append(t.free, original)]

-----------------------------------------------------------------------------
(* Operations on the stack of open tables, the innermost one last *)

EnterTable(ts, fnName) ==
    Append(ts, IF fnName = NULL THEN EmptyTable ELSE DefineFnName(EmptyTable, fnName))

(* Faulty: two tables are left at once.                                    *)
LeaveTwoTables(ts) == SubSeq(ts, 1, Len(ts) - 2)

LeaveTable(ts) == SubSeq(ts, 1, Len(ts) - 1)

DefinitionScope(ts) == IF Len(ts) = 1 THEN "GLOBAL" ELSE "LOCAL"

(* symbol_table_define in the innermost table, and the symbol it returns.  *)
Defined(ts, name) == NewSymbol(name, ts[Len(ts)].num, DefinitionScope(ts))
Define(ts, name) ==
    [ts EXCEPT ![Len(ts)] = DefineSymbol(@, name, DefinitionScope(ts))]

(* symbol_table_resolve goes outwards until a store holds the name: it is  *)
(* found at depth d, or nowhere.                                           *)
FoundAt(ts, name, d) ==
    /\ ts[d].store[name] # NULL
    /\ \A e \in d+1..Len(ts) : ts[e].store[name] = NULL
NotFound(ts, name) == \A d \in DOMAIN ts : ts[d].store[name] = NULL

(* On the way back every table inside depth d captures the symbol of the   *)
(* next outer one, unless it is a global or a builtin.                     *)
Captures(ts, name, d) ==
    /\ d < Len(ts)
    /\ ts[d].store[name].scope \notin {"GLOBAL", "BUILTIN"}

(* Faulty: every table captures the symbol of the definition, ...          *)
AfterResolveFar(ts, name, d) ==
    IF ~Captures(ts, name, d) THEN ts
    ELSE [k \in DOMAIN ts |-> IF k <= d THEN ts[k] ELSE DefineFree(ts[k], ts[d].store[name])]

(* ... or only the innermost table captures it.                            *)
AfterResolveHere(ts, name, d) ==
    IF ~Captures(ts, name, d) THEN ts
    ELSE [ts EXCEPT ![Len(ts)] = DefineFree(@, ts[d].store[name])]

AfterResolve(ts, name, d) ==
    IF ~Captures(ts, name, d) THEN ts
    ELSE [k \in DOMAIN ts |->
             IF k <= d THEN ts[k]
             ELSE DefineFree(ts[k], IF k = d + 1 THEN ts[d].store[name]
                                    ELSE FreeSymbol(ts[k-1], name))]

(* Faulty: the symbol of the definition is returned.                       *)
ResolvedUncaptured(ts, name, d) == ts[d].store[name]

Resolved(ts, name, d) ==
    IF Captures(ts, name, d) THEN FreeSymbol(ts[Len(ts)], name) ELSE ts[d].store[name]

-----------------------------------------------------------------------------
(* The tables under the operations of compile() *)

VARIABLES tables,  \* the open tables, the outermost one first
          result   \* what the latest operation returned: a symbol, "unresolved", or NULL
vars == <<tables, result>>

Unresolved(name) == [name |-> name, scope |-> "unresolved", index |-> 0]

Init == tables = <<BuiltinTable>> /\ result = NULL

(* compile(), EXPRESSION_FUNCTION_LITERAL: compiler_enter_scope and then   *)
(* define_fn_name if a let gave the literal a name.                        *)
EnterScope ==
    /\ Len(tables) < MaxDepth
    /\ \E fnName \in Names \cup {NULL} : tables' = EnterTable(tables, fnName)
    /\ result' = NULL

LeaveScope ==
    /\ Len(tables) > 1
    /\ tables' = LeaveTable(tables)
    /\ result' = NULL

(* A parameter or a let.                                                   *)
DefineName(name) ==
    /\ tables[Len(tables)].num < MaxDefinitions
    /\ tables' = Define(tables, name)
    /\ result' = NULL

Resolve(name) ==
    \/ \E d \in DOMAIN tables :
         /\ FoundAt(tables, name, d)
         /\ Captures(tables, name, d) =>
              \A k \in d+1..Len(tables) : tables[k].num < MaxDefinitions
         /\ tables' = AfterResolve(tables, name, d)
         /\ result' = Resolved(tables, name, d)
    \/ /\ NotFound(tables, name)
       /\ result' = Unresolved(name)
       /\ UNCHANGED tables

Next == \/ EnterScope
        \/ LeaveScope
        \/ \E name \in Names : DefineName(name) \/ Resolve(name)

Spec == Init /\ [][Next]_vars

-----------------------------------------------------------------------------
(* Properties *)

(* Type correctness of the tables and of the result of an operation.       *)
TypeOK ==
    /\ tables \in Seq(Table) /\ tables # << >>
    /\ \/ result \in Symbol \cup {NULL}
       \/ \E name \in Names : result = Unresolved(name)

(* The slots of one table are its own: the index of a defined symbol is    *)
(* below num_definitions - the number of slots a frame reserves for its    *)
(* locals, see call_closure in vm.c - and two names that are both defined  *)
(* in a table have different slots.                                        *)
Slotted(t, n) == t.store[n] # NULL /\ t.store[n].scope \in {"GLOBAL", "LOCAL"}
SlotsDistinct ==
    \A k \in DOMAIN tables : \A m, n \in Names :
        (Slotted(tables[k], m) /\ Slotted(tables[k], n)) =>
            /\ tables[k].store[m].index < tables[k].num
            /\ m # n => tables[k].store[m].index # tables[k].store[n].index

(* What a closure captures exists where it is created.  Entry i of the     *)
(* free_symbols of a table is loaded by the enclosing function, by its     *)
(* slot or by its own free index: either is in range there, a free index   *)
(* leads to an entry for the same name, and no entry is a global or a      *)
(* builtin, which are never captured.                                      *)
LoadableIn(t, s) ==
    \/ s.scope = "FUNCTION"
    \/ s.scope = "LOCAL" /\ s.index < t.num
    \/ s.scope = "FREE" /\ s.index < Len(t.free) /\ t.free[s.index + 1].name = s.name
CapturesInRange ==
    /\ tables[1].free = << >>
    /\ \A k \in 2..Len(tables) : \A i \in DOMAIN tables[k].free :
         LoadableIn(tables[k-1], tables[k].free[i])

(* What a closure captures is current: while a table is open, the symbol   *)
(* behind each of its free variables is still the symbol that its name has *)
(* in the enclosing table.                                                 *)
CapturesCurrent ==
    \A k \in 2..Len(tables) : \A i \in DOMAIN tables[k].free :
        tables[k-1].store[tables[k].free[i].name] = tables[k].free[i]

(* Every FREE symbol is the end of an unbroken chain of captures: its free *)
(* index leads, table by table, to the symbol its name has one table       *)
(* further out, and the chain starts at a real local (or function name).   *)
IsFree(s) == s # NULL /\ s.scope = "FREE"
CaptureChain ==
    \A k \in DOMAIN tables : \A n \in Names :
        IsFree(tables[k].store[n]) =>
            \E d \in 1..k-1 :
                /\ tables[d].store[n] # NULL
                /\ tables[d].store[n].scope \in {"LOCAL", "FUNCTION"}
                /\ \A j \in d+1..k :
                     /\ IsFree(tables[j].store[n])
                     /\ tables[j].store[n].index < Len(tables[j].free)
                     /\ tables[j].free[tables[j].store[n].index + 1] = tables[j-1].store[n]

(* A name that an open table holds is not lost by a later operation on     *)
(* other names.  It holds of opaque names; in the trie it fails as soon as *)
(* one name is a proper prefix of another.                                 *)
NamesStay ==
    [][\A k \in DOMAIN tables \cap DOMAIN tables' : \A n \in Names :
          tables[k].store[n] # NULL => tables'[k].store[n] # NULL]_vars

(* The tables implement lexical scoping.  A FREE symbol binds nothing by   *)
(* itself, and an answer is what following the free indices outwards from  *)
(* the innermost table - as the closures will be built - leads to.  The    *)
(* null pointer is neither a binding nor the answer that there is none.    *)
ASSUME AnswerAssumption ==
    /\ NULL \notin [kind : SymbolScope, slot : Nat]
    /\ \A name \in Names : NULL # Unresolved(name)
Binding(s) == IF s = NULL \/ IsFree(s) THEN NULL
              ELSE [kind |-> s.scope, slot |-> s.index]

(* The symbol that s, returned in the innermost table, stands for when it  *)
(* is followed outwards to table k.                                        *)
Followed(ts, s) ==
    LET at[k \in 1..Len(ts)] ==
          IF k = Len(ts) THEN s
          ELSE IF at[k+1].scope = "FREE" THEN ts[k+1].free[at[k+1].index + 1]
          ELSE at[k+1]
    IN  at

Home(ts, s) ==
    IF s.scope \in {"GLOBAL", "BUILTIN"} THEN 1
    ELSE CHOOSE k \in 1..Len(ts) : /\ Followed(ts, s)[k].scope # "FREE"
                                   /\ \A j \in k+1..Len(ts) : Followed(ts, s)[j].scope = "FREE"

Answer ==
    CASE result = NULL -> NULL
      [] result # NULL /\ result.scope = "unresolved" ->
            [name |-> result.name, depth |-> 0, binding |-> NULL]
      [] OTHER -> LET d == Home(tables, result)
                  IN  [name |-> result.name, depth |-> d,
                       binding |-> Binding(Followed(tables, result)[d])]

Lexical == INSTANCE LexicalScope WITH
              Slots <- 0..MaxDefinitions,
              Predefined <- BuiltinIndex,
              scopes <- [k \in DOMAIN tables |-> [n \in Names |-> Binding(tables[k].store[n])]],
              answer <- Answer
ImplementsLexicalScope == Lexical!Spec
=============================================================================
