------------------------- MODULE SymbolTableProofs --------------------------
(***************************************************************************)
(* Theorems about SymbolTable, for any number of names, tables and         *)
(* definitions.                                                            *)
(*                                                                         *)
(* TypeOK, SlotsDistinct and CapturesInRange hold whatever names extend    *)
(* each other: what a closure captures can always be loaded.  That it is   *)
(* also the RIGHT variable (CapturesCurrent, CaptureChain) and that no     *)
(* name is lost (NamesStay) needs the hypothesis that no identifier of the *)
(* program is a proper prefix of another.                                  *)
(***************************************************************************)
EXTENDS SymbolTable, Foundations

NoPrefixes == \A n \in Names : Extensions[n] = {}

(* The strengthening: a store files a symbol under its own name, and a     *)
(* FREE symbol has its entry in the free_symbols of its own table.         *)
Named == \A k \in DOMAIN tables : \A n \in Names :
            tables[k].store[n] # NULL => tables[k].store[n].name = n

HasEntry(t, n) ==
    IsFree(t.store[n]) => /\ t.store[n].index < Len(t.free)
                          /\ t.free[t.store[n].index + 1].name = n
FreeEntries == \A k \in DOMAIN tables : \A n \in Names : HasEntry(tables[k], n)

SafetyInv == TypeOK /\ Named /\ FreeEntries /\ SlotsDistinct /\ CapturesInRange

-----------------------------------------------------------------------------
(* The operations on one table. *)

LEMMA SymbolFields ==
    ASSUME NEW s \in Symbol
    PROVE  s # NULL /\ s.name \in Names /\ s.scope \in SymbolScope /\ s.index \in Nat
BY NullAssumption DEF Symbol

LEMMA StoreValue ==
    ASSUME NEW t \in Table, NEW n \in Names, t.store[n] # NULL
    PROVE  t.store[n] \in Symbol
BY DEF Table, Store

LEMMA PutStore ==
    ASSUME NEW store \in Store, NEW s \in Symbol
    PROVE  /\ Put(store, s) \in Store
           /\ Put(store, s)[s.name] = s
           /\ \A n \in Names \ {s.name} : Put(store, s)[n] \in {store[n], NULL}
           /\ NoPrefixes => \A n \in Names \ {s.name} : Put(store, s)[n] = store[n]
<1>1. s.name \in Names
  BY SymbolFields
<1>2. QED
  BY <1>1 DEF Put, Store, NoPrefixes

LEMMA NewSymbolType ==
    ASSUME NEW n \in Names, NEW i \in Nat, NEW c \in SymbolScope
    PROVE  NewSymbol(n, i, c) \in Symbol
BY DEF NewSymbol, Symbol

LEMMA EmptyTableType == EmptyTable \in Table
BY DEF EmptyTable, Table, Store

LEMMA BuiltinTableType ==
    /\ BuiltinTable \in Table
    /\ BuiltinTable.num = 0 /\ BuiltinTable.free = << >>
    /\ \A n \in Names : BuiltinTable.store[n] # NULL =>
         BuiltinTable.store[n].name = n /\ BuiltinTable.store[n].scope = "BUILTIN"
<1> DEFINE symbol(n) == IF BuiltinIndex[n] = NULL THEN NULL
                        ELSE NewSymbol(n, BuiltinIndex[n], "BUILTIN")
<1>1. ASSUME NEW n \in Names
      PROVE  /\ symbol(n) \in Symbol \cup {NULL}
             /\ symbol(n) # NULL => symbol(n).name = n /\ symbol(n).scope = "BUILTIN"
  BY BuiltinAssumption DEF NewSymbol, Symbol, SymbolScope
<1> HIDE DEF symbol
<1>2. BuiltinTable = [store |-> [n \in Names |-> symbol(n)], num |-> 0, free |-> << >>]
  BY DEF BuiltinTable, symbol
<1>3. QED
  BY <1>1, <1>2 DEF Table, Store

LEMMA DefineSymbolType ==
    ASSUME NEW t \in Table, NEW n \in Names, NEW c \in SymbolScope
    PROVE  DefineSymbol(t, n, c) \in Table
<1>1. NewSymbol(n, t.num, c) \in Symbol
  BY NewSymbolType DEF Table
<1>2. Put(t.store, NewSymbol(n, t.num, c)) \in Store
  BY <1>1, PutStore DEF Table
<1>3. QED
  BY <1>2 DEF DefineSymbol, Table

LEMMA DefineFreeType ==
    ASSUME NEW t \in Table, NEW s \in Symbol
    PROVE  /\ DefineFree(t, s) \in Table
           /\ FreeSymbol(t, s.name) \in Symbol
<1>1. s.name \in Names /\ Len(t.free) \in Nat
  BY SymbolFields DEF Table
<1>2. FreeSymbol(t, s.name) \in Symbol
  BY <1>1, NewSymbolType DEF FreeSymbol, SymbolScope
<1>3. Put(t.store, FreeSymbol(t, s.name)) \in Store
  BY <1>2, PutStore DEF Table
<1>4. QED
  BY <1>2, <1>3 DEF DefineFree, Table

LEMMA EnterType ==
    ASSUME NEW f \in Names \cup {NULL}
    PROVE  LET t == IF f = NULL THEN EmptyTable ELSE DefineFnName(EmptyTable, f)
           IN  /\ t \in Table /\ t.num = 0 /\ t.free = << >>
               /\ \A n \in Names : t.store[n] # NULL =>
                    t.store[n].name = n /\ t.store[n].scope = "FUNCTION"
<1>1. CASE f = NULL
  BY <1>1, EmptyTableType DEF EmptyTable
<1>2. CASE f # NULL
  <2> DEFINE store == Put(EmptyTable.store, NewSymbol(f, 0, "FUNCTION"))
  <2>1. f \in Names
    BY <1>2
  <2>2. NewSymbol(f, 0, "FUNCTION") \in Symbol
    BY <2>1, NewSymbolType DEF SymbolScope
  <2>3. EmptyTable.store \in Store
    BY EmptyTableType DEF Table
  <2>4. store \in Store
    BY <2>2, <2>3, PutStore
  <2>5. \A n \in Names : store[n] # NULL => store[n].name = n /\ store[n].scope = "FUNCTION"
    BY <2>1 DEF Put, EmptyTable, NewSymbol
  <2>6. DefineFnName(EmptyTable, f) = [store |-> store, num |-> 0, free |-> << >>]
    BY DEF DefineFnName, EmptyTable
  <2> HIDE DEF store
  <2>7. QED
    BY <1>2, <2>4, <2>5, <2>6 DEF Table
<1>3. QED
  BY <1>1, <1>2

-----------------------------------------------------------------------------
(* The operations on the stack of open tables. *)

LEMMA EnterTables ==
    ASSUME NEW ts \in Seq(Table), NEW f \in Names \cup {NULL}
    PROVE  /\ EnterTable(ts, f) \in Seq(Table)
           /\ Len(EnterTable(ts, f)) = Len(ts) + 1
           /\ \A k \in 1..Len(ts) : EnterTable(ts, f)[k] = ts[k]
           /\ LET t == EnterTable(ts, f)[Len(ts) + 1]
              IN  /\ t.num = 0 /\ t.free = << >>
                  /\ \A n \in Names : t.store[n] # NULL =>
                       t.store[n].name = n /\ t.store[n].scope = "FUNCTION"
<1> DEFINE t == IF f = NULL THEN EmptyTable ELSE DefineFnName(EmptyTable, f)
<1>1. /\ t \in Table /\ t.num = 0 /\ t.free = << >>
      /\ \A n \in Names : t.store[n] # NULL =>
           t.store[n].name = n /\ t.store[n].scope = "FUNCTION"
  BY EnterType
<1>2. EnterTable(ts, f) = Append(ts, t)
  BY DEF EnterTable
<1> HIDE DEF t
<1>3. QED
  BY <1>1, <1>2

LEMMA LeaveTables ==
    ASSUME NEW ts \in Seq(Table), Len(ts) > 1
    PROVE  /\ LeaveTable(ts) \in Seq(Table)
           /\ Len(LeaveTable(ts)) = Len(ts) - 1
           /\ \A k \in 1..Len(ts)-1 : LeaveTable(ts)[k] = ts[k]
BY DEF LeaveTable

LEMMA DefineTables ==
    ASSUME NEW ts \in Seq(Table), ts # << >>, NEW n \in Names
    PROVE  /\ Define(ts, n) \in Seq(Table)
           /\ Len(Define(ts, n)) = Len(ts)
           /\ \A k \in 1..Len(ts)-1 : Define(ts, n)[k] = ts[k]
           /\ \E c \in {"GLOBAL", "LOCAL"} :
                Define(ts, n)[Len(ts)] = DefineSymbol(ts[Len(ts)], n, c)
<1>1. DefinitionScope(ts) \in {"GLOBAL", "LOCAL"}
  BY DEF DefinitionScope
<1>2. Len(ts) \in 1..Len(ts) /\ ts[Len(ts)] \in Table
  OBVIOUS
<1>3. DefineSymbol(ts[Len(ts)], n, DefinitionScope(ts)) \in Table
  BY <1>1, <1>2, DefineSymbolType DEF SymbolScope
<1>4. QED
  BY <1>1, <1>2, <1>3 DEF Define

(* What table k captures when a name found at depth d is resolved.         *)
Original(ts, name, d, k) ==
    IF k = d + 1 THEN ts[d].store[name] ELSE FreeSymbol(ts[k-1], name)

LEMMA ResolveTables ==
    ASSUME NEW ts \in Seq(Table), NEW n \in Names, NEW d \in 1..Len(ts),
           FoundAt(ts, n, d), Captures(ts, n, d), ts[d].store[n].name = n
    PROVE  /\ AfterResolve(ts, n, d) \in Seq(Table)
           /\ Len(AfterResolve(ts, n, d)) = Len(ts)
           /\ \A k \in 1..d : AfterResolve(ts, n, d)[k] = ts[k]
           /\ \A k \in d+1..Len(ts) :
                /\ Original(ts, n, d, k) \in Symbol
                /\ Original(ts, n, d, k).name = n
                /\ AfterResolve(ts, n, d)[k] = DefineFree(ts[k], Original(ts, n, d, k))
           /\ ts[d].store[n] \in Symbol
           /\ ts[d].store[n].scope \in {"LOCAL", "FREE", "FUNCTION"}
<1>1. ts[d] \in Table /\ ts[d].store[n] # NULL
  BY DEF FoundAt
<1>2. ts[d].store[n] \in Symbol
  BY <1>1, StoreValue
<1>3. ts[d].store[n].scope \in {"LOCAL", "FREE", "FUNCTION"}
  BY <1>2, SymbolFields DEF Captures, SymbolScope
<1>4. ASSUME NEW k \in d+1..Len(ts)
      PROVE  /\ Original(ts, n, d, k) \in Symbol
             /\ Original(ts, n, d, k).name = n
             /\ DefineFree(ts[k], Original(ts, n, d, k)) \in Table
  <2>1. CASE k = d + 1
    <3>1. Original(ts, n, d, k) = ts[d].store[n] /\ ts[k] \in Table
      BY <2>1 DEF Original
    <3>2. QED
      BY <1>2, <3>1, DefineFreeType
  <2>2. CASE k # d + 1
    <3>1. k - 1 \in 1..Len(ts) /\ ts[k-1] \in Table /\ ts[k] \in Table
      BY <2>2
    <3>2. FreeSymbol(ts[k-1], n) \in Symbol
      BY <1>2, <3>1, DefineFreeType
    <3>3. FreeSymbol(ts[k-1], n).name = n
      BY DEF FreeSymbol, NewSymbol
    <3>4. QED
      BY <2>2, <3>1, <3>2, <3>3, DefineFreeType DEF Original
  <2>3. QED
    BY <2>1, <2>2
<1>5. AfterResolve(ts, n, d)
        = [k \in 1..Len(ts) |-> IF k <= d THEN ts[k]
                                ELSE DefineFree(ts[k], Original(ts, n, d, k))]
  BY DEF AfterResolve, Original
<1>6. \A k \in 1..Len(ts) : AfterResolve(ts, n, d)[k] \in Table
  BY <1>4, <1>5
<1>7. QED
  BY <1>2, <1>3, <1>4, <1>5, <1>6

-----------------------------------------------------------------------------
(* Type correctness and the range of what is captured. *)

LEMMA InitSafety == Init => SafetyInv
<1> SUFFICES ASSUME Init PROVE SafetyInv
  OBVIOUS
<1>1. Len(tables) = 1 /\ tables[1] = BuiltinTable /\ tables \in Seq(Table)
  BY BuiltinTableType DEF Init
<1>2. TypeOK
  BY <1>1 DEF Init, TypeOK
<1>3. Named /\ FreeEntries /\ SlotsDistinct /\ CapturesInRange
  BY <1>1, BuiltinTableType
     DEF Named, FreeEntries, HasEntry, IsFree, SlotsDistinct, Slotted, CapturesInRange
<1>4. QED
  BY <1>2, <1>3 DEF SafetyInv

(* TypeOK: every operation maps tables to tables.                          *)
LEMMA NextType == ASSUME SafetyInv, [Next]_vars PROVE TypeOK'
<1> USE DEF SafetyInv, TypeOK
<1>1. CASE EnterScope
  <2>1. PICK f \in Names \cup {NULL} : tables' = EnterTable(tables, f)
    BY <1>1 DEF EnterScope
  <2>2. tables' \in Seq(Table) /\ Len(tables') = Len(tables) + 1
    BY <2>1, EnterTables
  <2>3. QED
    BY <1>1, <2>2 DEF EnterScope
<1>2. CASE LeaveScope
  <2>1. tables' \in Seq(Table) /\ Len(tables') = Len(tables) - 1
    BY <1>2, LeaveTables DEF LeaveScope
  <2>2. QED
    BY <1>2, <2>1 DEF LeaveScope
<1>3. ASSUME NEW name \in Names, DefineName(name) PROVE TypeOK'
  <2>1. tables' \in Seq(Table) /\ Len(tables') = Len(tables)
    BY <1>3, DefineTables DEF DefineName
  <2>2. QED
    BY <1>3, <2>1 DEF DefineName
<1>4. ASSUME NEW name \in Names, Resolve(name) PROVE TypeOK'
  <2>1. CASE NotFound(tables, name) /\ result' = Unresolved(name) /\ UNCHANGED tables
    BY <2>1
  <2>2. ASSUME NEW d \in DOMAIN tables, FoundAt(tables, name, d),
               tables' = AfterResolve(tables, name, d), result' = Resolved(tables, name, d)
        PROVE  TypeOK'
    <3>1. d \in 1..Len(tables) /\ tables[d] \in Table /\ tables[d].store[name] # NULL
      BY <2>2 DEF FoundAt
    <3>2. tables[d].store[name] \in Symbol /\ tables[d].store[name].name = name
      BY <3>1, StoreValue DEF Named
    <3>3. CASE ~Captures(tables, name, d)
      BY <2>2, <3>2, <3>3 DEF AfterResolve, Resolved
    <3>4. CASE Captures(tables, name, d)
      <4>1. tables' \in Seq(Table) /\ Len(tables') = Len(tables)
        BY <2>2, <3>1, <3>2, <3>4, ResolveTables
      <4>2. tables[Len(tables)] \in Table
        OBVIOUS
      <4>3. FreeSymbol(tables[Len(tables)], name) \in Symbol
        BY <3>2, <4>2, DefineFreeType
      <4>4. QED
        BY <2>2, <3>4, <4>1, <4>3 DEF Resolved
    <3>5. QED
      BY <3>3, <3>4
  <2>3. QED
    BY <1>4, <2>1, <2>2 DEF Resolve
<1>5. CASE UNCHANGED vars
  BY <1>5 DEF vars
<1>6. QED
  BY <1>1, <1>2, <1>3, <1>4, <1>5 DEF Next

(* The conjuncts of SafetyInv that speak of one table at a time.           *)
GoodTable(t) ==
    /\ \A n \in Names : t.store[n] # NULL => t.store[n].name = n
    /\ \A n \in Names : HasEntry(t, n)
    /\ \A m, n \in Names : (Slotted(t, m) /\ Slotted(t, n)) =>
          /\ t.store[m].index < t.num
          /\ m # n => t.store[m].index # t.store[n].index

LEMMA GoodTables ==
    (Named /\ FreeEntries /\ SlotsDistinct) <=> \A k \in DOMAIN tables : GoodTable(tables[k])
BY DEF Named, FreeEntries, SlotsDistinct, GoodTable

LEMMA GoodDefine ==
    ASSUME NEW t \in Table, GoodTable(t), NEW n \in Names, NEW c \in {"GLOBAL", "LOCAL"}
    PROVE  GoodTable(DefineSymbol(t, n, c))
<1> DEFINE s == NewSymbol(n, t.num, c)
           u == DefineSymbol(t, n, c)
<1>1. s \in Symbol /\ s.name = n /\ s.scope = c /\ s.index = t.num /\ t.num \in Nat
  BY NewSymbolType DEF Table, NewSymbol, SymbolScope
<1>2. u.num = t.num + 1 /\ u.free = t.free /\ u.store[n] = s
  BY <1>1, PutStore DEF DefineSymbol, Table
<1>3. \A m \in Names \ {n} : u.store[m] \in {t.store[m], NULL}
  BY <1>1, PutStore DEF DefineSymbol, Table
<1>4. \A m \in Names : t.store[m] # NULL => t.store[m].index \in Nat
  BY StoreValue, SymbolFields
<1> HIDE DEF s, u
<1>5. \A m \in Names : (u.store[m] # NULL => u.store[m].name = m) /\ HasEntry(u, m)
  <2> SUFFICES ASSUME NEW m \in Names
               PROVE  (u.store[m] # NULL => u.store[m].name = m) /\ HasEntry(u, m)
    OBVIOUS
  <2>1. CASE m = n
    BY <1>1, <1>2, <2>1 DEF HasEntry, IsFree
  <2>2. CASE m # n
    <3>1. u.store[m] = t.store[m] \/ u.store[m] = NULL
      BY <1>3, <2>2
    <3>2. (t.store[m] # NULL => t.store[m].name = m) /\ HasEntry(t, m)
      BY DEF GoodTable
    <3>3. QED
      BY <1>2, <3>1, <3>2 DEF HasEntry, IsFree
  <2>3. QED
    BY <2>1, <2>2
<1>6. ASSUME NEW l \in Names, NEW m \in Names, Slotted(u, l), Slotted(u, m)
      PROVE  u.store[l].index < u.num /\ (l # m => u.store[l].index # u.store[m].index)
  BY <1>1, <1>2, <1>3, <1>4, <1>6 DEF GoodTable, Slotted
<1>7. QED
  BY <1>5, <1>6 DEF GoodTable, u

LEMMA GoodFree ==
    ASSUME NEW t \in Table, GoodTable(t), NEW s \in Symbol
    PROVE  GoodTable(DefineFree(t, s))
<1> DEFINE f == FreeSymbol(t, s.name)
           u == DefineFree(t, s)
<1>1. f \in Symbol /\ f.name = s.name /\ f.scope = "FREE" /\ f.index = Len(t.free)
  BY DefineFreeType DEF FreeSymbol, NewSymbol
<1>2. u.num = t.num + 1 /\ u.free = Append(t.free, s) /\ u.store[s.name] = f
  BY <1>1, PutStore DEF DefineFree, Table
<1>3. \A m \in Names \ {s.name} : u.store[m] \in {t.store[m], NULL}
  BY <1>1, PutStore DEF DefineFree, Table
<1>4. \A m \in Names : t.store[m] # NULL => t.store[m].index \in Nat
  BY StoreValue, SymbolFields
<1>5. t.num \in Nat /\ t.free \in Seq(Symbol) /\ s.name \in Names
  BY SymbolFields DEF Table
<1> HIDE DEF f, u
<1>6. \A i \in 1..Len(t.free) : u.free[i] = t.free[i]
  BY <1>2, <1>5
<1>7. Len(u.free) = Len(t.free) + 1 /\ u.free[Len(t.free) + 1] = s
  BY <1>2, <1>5
<1>8. ASSUME NEW m \in Names PROVE (u.store[m] # NULL => u.store[m].name = m) /\ HasEntry(u, m)
  <2>1. CASE m = s.name
    BY <1>1, <1>2, <1>5, <1>7, <2>1 DEF HasEntry
  <2>2. CASE m # s.name /\ u.store[m] = NULL
    BY <2>2 DEF HasEntry, IsFree
  <2>3. CASE m # s.name /\ u.store[m] = t.store[m]
    <3>1. (t.store[m] # NULL => t.store[m].name = m) /\ HasEntry(t, m)
      BY DEF GoodTable
    <3>2. CASE IsFree(t.store[m])
      <4>1. t.store[m].index + 1 \in 1..Len(t.free)
        BY <1>4, <1>5, <3>1, <3>2 DEF HasEntry, IsFree
      <4>2. u.free[t.store[m].index + 1].name = m
        BY <1>6, <3>1, <3>2, <4>1 DEF HasEntry
      <4>3. t.store[m].index \in Nat /\ Len(t.free) \in Nat
        BY <1>4, <1>5, <3>2 DEF IsFree
      <4>4. t.store[m].index < Len(u.free)
        BY <1>7, <4>1, <4>3
      <4>5. QED
        BY <2>3, <3>1, <4>2, <4>4 DEF HasEntry
    <3>3. CASE ~IsFree(t.store[m])
      BY <2>3, <3>1, <3>3 DEF HasEntry
    <3>4. QED
      BY <3>2, <3>3
  <2>4. QED
    BY <1>3, <2>1, <2>2, <2>3
<1>9. ASSUME NEW l \in Names, NEW m \in Names, Slotted(u, l), Slotted(u, m)
      PROVE  u.store[l].index < u.num /\ (l # m => u.store[l].index # u.store[m].index)
  BY <1>1, <1>2, <1>3, <1>4, <1>5, <1>9 DEF GoodTable, Slotted
<1>10. QED
  BY <1>8, <1>9 DEF GoodTable, u

(* Every operation leaves every table good.                                *)
LEMMA NextGood ==
    ASSUME SafetyInv, [Next]_vars
    PROVE  \A k \in DOMAIN tables' : GoodTable(tables'[k])
<1> USE DEF SafetyInv, TypeOK
<1>1. \A k \in 1..Len(tables) : tables[k] \in Table /\ GoodTable(tables[k])
  BY GoodTables
<1>2. CASE EnterScope
  <2>1. PICK f \in Names \cup {NULL} : tables' = EnterTable(tables, f)
    BY <1>2 DEF EnterScope
  <2> DEFINE t == tables'[Len(tables) + 1]
  <2>2. \A n \in Names : t.store[n] # NULL => t.store[n].name = n /\ t.store[n].scope = "FUNCTION"
    BY <2>1, EnterTables
  <2> HIDE DEF t
  <2>3. GoodTable(t)
    BY <2>2 DEF GoodTable, HasEntry, IsFree, Slotted
  <2>4. QED
    <3>1. Len(tables') = Len(tables) + 1 /\ \A k \in 1..Len(tables) : tables'[k] = tables[k]
      BY <2>1, EnterTables
    <3>2. DOMAIN tables' = 1..Len(tables')
      BY NextType
    <3>3. GoodTable(tables'[Len(tables) + 1])
      BY <2>3 DEF t
    <3>4. QED
      BY <1>1, <3>1, <3>2, <3>3
<1>3. CASE LeaveScope
  BY <1>1, <1>3, LeaveTables DEF LeaveScope
<1>4. ASSUME NEW name \in Names, DefineName(name)
      PROVE  \A k \in DOMAIN tables' : GoodTable(tables'[k])
  <2>1. tables' = Define(tables, name)
    BY <1>4 DEF DefineName
  <2>2. PICK c \in {"GLOBAL", "LOCAL"} :
          tables'[Len(tables)] = DefineSymbol(tables[Len(tables)], name, c)
    BY <2>1, DefineTables
  <2>3. Len(tables) \in 1..Len(tables)
    OBVIOUS
  <2>4. GoodTable(tables'[Len(tables)])
    BY <1>1, <2>2, <2>3, GoodDefine
  <2>5. /\ Len(tables') = Len(tables) /\ tables' \in Seq(Table)
        /\ \A k \in 1..Len(tables)-1 : tables'[k] = tables[k]
    BY <1>1, <2>1, DefineTables
  <2>6. ASSUME NEW k \in 1..Len(tables)
        PROVE  GoodTable(tables'[k])
    <3>1. CASE k = Len(tables)
      BY <2>4, <3>1
    <3>2. CASE k # Len(tables)
      BY <1>1, <2>5, <3>2
    <3>3. QED
      BY <3>1, <3>2
  <2>7. QED
    BY <2>5, <2>6
<1>5. ASSUME NEW name \in Names, Resolve(name)
      PROVE  \A k \in DOMAIN tables' : GoodTable(tables'[k])
  <2>1. CASE UNCHANGED tables
    BY <1>1, <2>1
  <2>2. ASSUME NEW d \in DOMAIN tables, FoundAt(tables, name, d),
               Captures(tables, name, d), tables' = AfterResolve(tables, name, d)
        PROVE  \A k \in DOMAIN tables' : GoodTable(tables'[k])
    <3>1. d \in 1..Len(tables) /\ tables[d].store[name].name = name
      BY <2>2 DEF FoundAt, Named
    <3>2. ASSUME NEW k \in d+1..Len(tables) PROVE GoodTable(tables'[k])
      <4>1. PICK s \in Symbol : tables'[k] = DefineFree(tables[k], s)
        BY <2>2, <3>1, ResolveTables
      <4>2. QED
        BY <1>1, <4>1, GoodFree
    <3>3. Len(tables') = Len(tables) /\ \A k \in 1..d : tables'[k] = tables[k]
      BY <2>2, <3>1, ResolveTables
    <3>4. tables' \in Seq(Table)
      BY NextType
    <3>5. QED
      BY <1>1, <3>1, <3>2, <3>3, <3>4
  <2>3. QED
    BY <1>5, <2>1, <2>2 DEF Resolve, AfterResolve
<1>6. CASE UNCHANGED vars
  BY <1>1, <1>6 DEF vars
<1>7. QED
  BY <1>2, <1>3, <1>4, <1>5, <1>6 DEF Next

(* An operation adds to the free_symbols of an open table and never        *)
(* changes an entry, and a table's count of definitions never falls.       *)
Grows(t, u) ==
    /\ t.num <= u.num
    /\ Len(t.free) <= Len(u.free)
    /\ \A i \in 1..Len(t.free) : u.free[i] = t.free[i]

LEMMA GrowsKeepsLoadable ==
    ASSUME NEW t \in Table, NEW u \in Table, Grows(t, u), NEW s \in Symbol, LoadableIn(t, s)
    PROVE  LoadableIn(u, s)
<1>1. s.index \in Nat /\ t.num \in Nat /\ u.num \in Nat
      /\ Len(t.free) \in Nat /\ Len(u.free) \in Nat
  BY SymbolFields DEF Table
<1>2. CASE s.scope = "FREE"
  <2>1. s.index < Len(t.free) /\ t.free[s.index + 1].name = s.name
    BY <1>2 DEF LoadableIn
  <2>2. s.index + 1 \in 1..Len(t.free)
    BY <1>1, <2>1
  <2>3. u.free[s.index + 1] = t.free[s.index + 1] /\ Len(t.free) <= Len(u.free)
    BY <2>2 DEF Grows
  <2>4. QED
    BY <1>1, <1>2, <2>1, <2>3 DEF LoadableIn
<1>3. CASE s.scope = "LOCAL"
  BY <1>1, <1>3 DEF LoadableIn, Grows
<1>4. QED
  BY <1>2, <1>3 DEF LoadableIn

LEMMA FreeGrows ==
    ASSUME NEW t \in Table, NEW s \in Symbol
    PROVE  /\ Grows(t, DefineFree(t, s))
           /\ Len(DefineFree(t, s).free) = Len(t.free) + 1
           /\ DefineFree(t, s).free[Len(t.free) + 1] = s
           /\ DefineFree(t, s).store[s.name] = FreeSymbol(t, s.name)
<1>1. t.num \in Nat /\ t.free \in Seq(Symbol) /\ t.store \in Store
  BY DEF Table
<1>2. FreeSymbol(t, s.name) \in Symbol /\ FreeSymbol(t, s.name).name = s.name
  BY DefineFreeType DEF FreeSymbol, NewSymbol
<1>3. Put(t.store, FreeSymbol(t, s.name))[s.name] = FreeSymbol(t, s.name)
  BY <1>1, <1>2, PutStore
<1>4. /\ DefineFree(t, s).num = t.num + 1
      /\ DefineFree(t, s).free = Append(t.free, s)
      /\ DefineFree(t, s).store = Put(t.store, FreeSymbol(t, s.name))
  BY DEF DefineFree
<1>5. /\ Len(Append(t.free, s)) = Len(t.free) + 1
      /\ Append(t.free, s)[Len(t.free) + 1] = s
      /\ \A i \in 1..Len(t.free) : Append(t.free, s)[i] = t.free[i]
  BY <1>1
<1>6. t.num <= t.num + 1 /\ Len(t.free) \in Nat /\ Len(t.free) <= Len(t.free) + 1
  BY <1>1
<1>7. Grows(t, DefineFree(t, s))
  BY <1>4, <1>5, <1>6 DEF Grows
<1>8. QED
  BY <1>3, <1>4, <1>5, <1>7

(* The captured symbol can be loaded where the enclosing function builds   *)
(* the closure, after the enclosing table has captured it too.             *)
LEMMA OriginalLoadable ==
    ASSUME SafetyInv, NEW n \in Names, NEW d \in 1..Len(tables),
           FoundAt(tables, n, d), Captures(tables, n, d), NEW k \in d+1..Len(tables)
    PROVE  LoadableIn(AfterResolve(tables, n, d)[k-1], Original(tables, n, d, k))
<1> USE DEF SafetyInv, TypeOK
<1>1. tables[d].store[n] # NULL /\ tables[d].store[n].name = n /\ tables[d] \in Table
  BY DEF FoundAt, Named
<1>2. /\ tables[d].store[n] \in Symbol
      /\ tables[d].store[n].scope \in {"LOCAL", "FREE", "FUNCTION"}
      /\ \A j \in 1..d : AfterResolve(tables, n, d)[j] = tables[j]
      /\ \A j \in d+1..Len(tables) :
           /\ Original(tables, n, d, j) \in Symbol
           /\ Original(tables, n, d, j).name = n
           /\ AfterResolve(tables, n, d)[j] = DefineFree(tables[j], Original(tables, n, d, j))
  BY <1>1, ResolveTables
<1>3. CASE k = d + 1
  <2>1. Original(tables, n, d, k) = tables[d].store[n] /\ AfterResolve(tables, n, d)[k-1] = tables[d]
    BY <1>2, <1>3 DEF Original
  <2>2. HasEntry(tables[d], n) /\ (Slotted(tables[d], n) => tables[d].store[n].index < tables[d].num)
    BY DEF FreeEntries, SlotsDistinct
  <2>3. LoadableIn(tables[d], tables[d].store[n])
    BY <1>1, <1>2, <2>2 DEF LoadableIn, HasEntry, IsFree, Slotted
  <2>4. QED
    BY <2>1, <2>3
<1>4. CASE k # d + 1
  <2> DEFINE o == Original(tables, n, d, k-1)
             t == tables[k-1]
  <2>1. k-1 \in d+1..Len(tables) /\ t \in Table /\ o \in Symbol /\ o.name = n
    BY <1>2, <1>4
  <2>2. AfterResolve(tables, n, d)[k-1] = DefineFree(t, o)
    BY <1>2, <2>1
  <2>3. Original(tables, n, d, k) = FreeSymbol(t, n)
    BY <1>4 DEF Original
  <2>4. Len(t.free) \in Nat
    BY <2>1 DEF Table
  <2> HIDE DEF o, t
  <2>5. Len(DefineFree(t, o).free) = Len(t.free) + 1 /\ DefineFree(t, o).free[Len(t.free) + 1] = o
    BY <2>1, FreeGrows
  <2>6. LoadableIn(DefineFree(t, o), FreeSymbol(t, n))
    BY <2>1, <2>4, <2>5 DEF LoadableIn, FreeSymbol, NewSymbol
  <2>7. QED
    BY <2>2, <2>3, <2>6
<1>5. QED
  BY <1>3, <1>4

LEMMA NextCaptures == ASSUME SafetyInv, [Next]_vars PROVE CapturesInRange'
<1> USE DEF SafetyInv, TypeOK
<1>1. TypeOK' /\ Len(tables) \in Nat /\ Len(tables) > 0
  BY NextType
<1>2. /\ tables[1].free = << >>
      /\ \A k \in 2..Len(tables) : \A i \in DOMAIN tables[k].free :
           /\ LoadableIn(tables[k-1], tables[k].free[i])
           /\ tables[k].free[i] \in Symbol
           /\ tables[k] \in Table /\ tables[k-1] \in Table
  <2>1. ASSUME NEW k \in 2..Len(tables)
        PROVE  tables[k] \in Table /\ tables[k-1] \in Table
               /\ tables[k].free \in Seq(Symbol) /\ k - 1 \in 1..Len(tables)
    <3>1. k \in 1..Len(tables) /\ k - 1 \in 1..Len(tables)
      BY <1>1
    <3>2. tables[k] \in Table /\ tables[k-1] \in Table
      BY <3>1
    <3>3. QED
      BY <3>1, <3>2 DEF Table
  <2>2. QED
    BY <2>1 DEF CapturesInRange
<1>3. CASE EnterScope
  <2>1. PICK f \in Names \cup {NULL} : tables' = EnterTable(tables, f)
    BY <1>3 DEF EnterScope
  <2>2. /\ Len(tables') = Len(tables) + 1
        /\ \A k \in 1..Len(tables) : tables'[k] = tables[k]
        /\ tables'[Len(tables) + 1].free = << >>
    BY <2>1, EnterTables
  <2>3. QED
    BY <1>1, <1>2, <2>2 DEF CapturesInRange
<1>4. CASE LeaveScope
  <2>1. /\ Len(tables) > 1 /\ Len(tables') = Len(tables) - 1
        /\ \A k \in 1..Len(tables) - 1 : tables'[k] = tables[k]
    BY <1>4, LeaveTables DEF LeaveScope
  <2>2. QED
    BY <1>1, <1>2, <2>1 DEF CapturesInRange
<1>5. ASSUME NEW name \in Names, DefineName(name) PROVE CapturesInRange'
  <2>1. tables' = Define(tables, name)
    BY <1>5 DEF DefineName
  <2>2. /\ Len(tables') = Len(tables)
        /\ \A k \in 1..Len(tables) - 1 : tables'[k] = tables[k]
        /\ \E c \in {"GLOBAL", "LOCAL"} :
             tables'[Len(tables)] = DefineSymbol(tables[Len(tables)], name, c)
    BY <2>1, DefineTables
  <2>3. tables'[Len(tables)].free = tables[Len(tables)].free
    BY <2>2 DEF DefineSymbol
  <2>4. QED
    BY <1>1, <1>2, <2>2, <2>3 DEF CapturesInRange
<1>6. ASSUME NEW name \in Names, Resolve(name) PROVE CapturesInRange'
  <2>1. CASE UNCHANGED tables
    BY <2>1 DEF CapturesInRange
  <2>2. ASSUME NEW d \in DOMAIN tables, FoundAt(tables, name, d),
               Captures(tables, name, d), tables' = AfterResolve(tables, name, d)
        PROVE  CapturesInRange'
    <3> DEFINE o(k) == Original(tables, name, d, k)
    <3>1. d \in 1..Len(tables) /\ tables[d].store[name].name = name
      BY <2>2 DEF FoundAt, Named
    <3>2. /\ Len(tables') = Len(tables)
          /\ \A k \in 1..d : tables'[k] = tables[k]
          /\ \A k \in d+1..Len(tables) : o(k) \in Symbol /\ tables'[k] = DefineFree(tables[k], o(k))
      BY <2>2, <3>1, ResolveTables
    <3>3. ASSUME NEW k \in 1..Len(tables) PROVE Grows(tables[k], tables'[k])
      <4>1. CASE k <= d
        <5>1. tables'[k] = tables[k] /\ tables[k] \in Table
          BY <3>1, <3>2, <4>1
        <5>2. tables[k].num \in Nat /\ Len(tables[k].free) \in Nat
          BY <5>1 DEF Table
        <5>3. QED
          BY <5>1, <5>2 DEF Grows
      <4>2. CASE k > d
        BY <3>1, <3>2, <4>2, FreeGrows
      <4>3. QED
        BY <3>1, <4>1, <4>2
    <3>4. ASSUME NEW k \in d+1..Len(tables) PROVE LoadableIn(tables'[k-1], o(k))
      BY <2>2, <3>1, OriginalLoadable
    <3> HIDE DEF o
    <3>5. ASSUME NEW k \in 2..Len(tables), NEW i \in DOMAIN tables'[k].free
          PROVE  LoadableIn(tables'[k-1], tables'[k].free[i])
      <4>1. /\ tables[k] \in Table /\ tables[k-1] \in Table /\ tables'[k-1] \in Table
            /\ Grows(tables[k], tables'[k]) /\ Grows(tables[k-1], tables'[k-1])
            /\ Len(tables[k].free) \in Nat /\ DOMAIN tables[k].free = 1..Len(tables[k].free)
            /\ tables'[k] \in Table
        <5>1. k \in 1..Len(tables) /\ k - 1 \in 1..Len(tables)
          BY <1>1
        <5>2. tables[k] \in Table /\ tables[k-1] \in Table
          BY <5>1
        <5>3. tables'[k] \in Table /\ tables'[k-1] \in Table
          BY <1>1, <3>2, <5>1
        <5>4. tables[k].free \in Seq(Symbol)
          BY <5>2 DEF Table
        <5>5. Grows(tables[k], tables'[k]) /\ Grows(tables[k-1], tables'[k-1])
          BY <3>3, <5>1
        <5>6. QED
          BY <5>2, <5>3, <5>4, <5>5
      <4>2. DOMAIN tables'[k].free = 1..Len(tables'[k].free)
        BY <4>1 DEF Table
      <4>3. CASE i \in 1..Len(tables[k].free)
        <5>1. tables'[k].free[i] = tables[k].free[i]
          BY <4>1, <4>3 DEF Grows
        <5>2. LoadableIn(tables[k-1], tables[k].free[i]) /\ tables[k].free[i] \in Symbol
          BY <1>2, <4>1, <4>3
        <5>3. QED
          BY <4>1, <5>1, <5>2, GrowsKeepsLoadable
      <4>4. CASE i \notin 1..Len(tables[k].free)
        <5>1. k > d
          BY <3>1, <3>2, <4>1, <4>2, <4>4
        <5>2. tables'[k] = DefineFree(tables[k], o(k)) /\ o(k) \in Symbol
          BY <3>1, <3>2, <5>1
        <5>3. Len(tables'[k].free) = Len(tables[k].free) + 1
              /\ tables'[k].free[Len(tables[k].free) + 1] = o(k)
          BY <4>1, <5>2, FreeGrows
        <5>4. i = Len(tables[k].free) + 1
          BY <4>1, <4>2, <4>4, <5>3
        <5>5. QED
          BY <3>1, <3>4, <5>1, <5>3, <5>4
      <4>5. QED
        BY <4>3, <4>4
    <3>6. tables'[1].free = << >>
      BY <1>2, <3>1, <3>2
    <3>7. QED
      BY <3>2, <3>5, <3>6 DEF CapturesInRange
  <2>3. QED
    BY <1>6, <2>1, <2>2 DEF Resolve, AfterResolve
<1>7. CASE UNCHANGED vars
  BY <1>7 DEF vars, CapturesInRange
<1>8. QED
  BY <1>3, <1>4, <1>5, <1>6, <1>7 DEF Next

LEMMA NextSafety == SafetyInv /\ [Next]_vars => SafetyInv'
<1> SUFFICES ASSUME SafetyInv, [Next]_vars PROVE SafetyInv'
  OBVIOUS
<1>1. TypeOK' /\ CapturesInRange'
  BY NextType, NextCaptures
<1>2. \A k \in DOMAIN tables' : GoodTable(tables'[k])
  BY NextGood
<1>3. (Named /\ FreeEntries /\ SlotsDistinct)'
  BY <1>2 DEF Named, FreeEntries, SlotsDistinct, GoodTable
<1>4. QED
  BY <1>1, <1>3 DEF SafetyInv

THEOREM Safety == Spec => []SafetyInv
BY InitSafety, NextSafety, PTL DEF Spec

(* The operations of symbol_table.c map tables to tables: every symbol is  *)
(* a symbol, every count a number, every entry of free_symbols a symbol.   *)
THEOREM TypeCorrect == Spec => []TypeOK
<1>1. SafetyInv => TypeOK
  BY DEF SafetyInv
<1>2. QED
  BY <1>1, Safety, PTL

(* symbol_table_define never gives two names of a table one slot, however  *)
(* definitions and captures alternate.                                     *)
THEOREM SlotsAreDistinct == Spec => []SlotsDistinct
<1>1. SafetyInv => SlotsDistinct
  BY DEF SafetyInv
<1>2. QED
  BY <1>1, Safety, PTL

(* symbol_table_resolve leaves every enclosing table able to load what the *)
(* table inside it has captured - even when names extend each other.       *)
THEOREM CapturesAreInRange == Spec => []CapturesInRange
<1>1. SafetyInv => CapturesInRange
  BY DEF SafetyInv
<1>2. QED
  BY <1>1, Safety, PTL

-----------------------------------------------------------------------------
(* The right variable: nothing is lost when no name is a prefix of another. *)

LexicalInv == SafetyInv /\ CapturesCurrent /\ CaptureChain

(* One chain of captures, from table k outwards to a local of table d.     *)
Link(ts, n, j) ==
    /\ IsFree(ts[j].store[n])
    /\ ts[j].store[n].index < Len(ts[j].free)
    /\ ts[j].free[ts[j].store[n].index + 1] = ts[j-1].store[n]
Root(ts, n, d) ==
    /\ ts[d].store[n] # NULL
    /\ ts[d].store[n].scope \in {"LOCAL", "FUNCTION"}
Chain(ts, n, d, k) == Root(ts, n, d) /\ \A j \in d+1..k : Link(ts, n, j)

LEMMA ChainDef ==
    CaptureChain <=> \A k \in DOMAIN tables : \A n \in Names :
        IsFree(tables[k].store[n]) => \E d \in 1..k-1 : Chain(tables, n, d, k)
BY DEF CaptureChain, Chain, Root, Link

LEMMA InitLexical == Init => LexicalInv
<1> SUFFICES ASSUME Init PROVE LexicalInv
  OBVIOUS
<1>1. Len(tables) = 1 /\ DOMAIN tables = 1..1 /\ tables[1] = BuiltinTable
  BY DEF Init
<1>2. CapturesCurrent /\ CaptureChain
  BY <1>1, BuiltinTableType DEF CapturesCurrent, CaptureChain, IsFree
<1>3. QED
  BY <1>2, InitSafety DEF LexicalInv

(* What a resolve that captures does to the tables inside depth d, when    *)
(* nothing else of their stores is lost.                                   *)
LEMMA CaptureStep ==
    ASSUME NoPrefixes, SafetyInv, NEW n \in Names, NEW d \in DOMAIN tables,
           FoundAt(tables, n, d), Captures(tables, n, d),
           tables' = AfterResolve(tables, n, d)
    PROVE  /\ d \in 1..Len(tables) /\ Len(tables') = Len(tables)
           /\ \A k \in 1..d : tables'[k] = tables[k]
           /\ \A k \in d+1..Len(tables) :
                /\ tables[k].store[n] = NULL
                /\ tables'[k].store[n] = FreeSymbol(tables[k], n)
                /\ \A m \in Names \ {n} : tables'[k].store[m] = tables[k].store[m]
                /\ Len(tables[k].free) \in Nat
                /\ Len(tables'[k].free) = Len(tables[k].free) + 1
                /\ \A i \in 1..Len(tables[k].free) : tables'[k].free[i] = tables[k].free[i]
                /\ tables'[k].free[Len(tables[k].free) + 1] = tables'[k-1].store[n]
           /\ tables[d].store[n] \in Symbol /\ tables[d].store[n].name = n
           /\ tables[d].store[n].scope \in {"LOCAL", "FREE", "FUNCTION"}
<1> USE DEF SafetyInv, TypeOK
<1> DEFINE o(k) == Original(tables, n, d, k)
<1>1. d \in 1..Len(tables) /\ tables[d].store[n] # NULL /\ tables[d].store[n].name = n
  BY DEF FoundAt, Named
<1>2. /\ Len(tables') = Len(tables)
      /\ \A k \in 1..d : tables'[k] = tables[k]
      /\ \A k \in d+1..Len(tables) :
           o(k) \in Symbol /\ o(k).name = n /\ tables'[k] = DefineFree(tables[k], o(k))
      /\ tables[d].store[n] \in Symbol
      /\ tables[d].store[n].scope \in {"LOCAL", "FREE", "FUNCTION"}
  BY <1>1, ResolveTables
<1>3. ASSUME NEW k \in d+1..Len(tables)
      PROVE  /\ tables[k].store[n] = NULL
             /\ tables'[k].store[n] = FreeSymbol(tables[k], n)
             /\ \A m \in Names \ {n} : tables'[k].store[m] = tables[k].store[m]
             /\ Len(tables[k].free) \in Nat
             /\ Len(tables'[k].free) = Len(tables[k].free) + 1
             /\ \A i \in 1..Len(tables[k].free) : tables'[k].free[i] = tables[k].free[i]
             /\ tables'[k].free[Len(tables[k].free) + 1] = o(k)
  <2>1. /\ tables[k] \in Table /\ tables[k].store[n] = NULL
        /\ o(k) \in Symbol /\ o(k).name = n /\ tables'[k] = DefineFree(tables[k], o(k))
    BY <1>1, <1>2 DEF FoundAt
  <2>2. tables[k].store \in Store /\ tables[k].free \in Seq(Symbol)
    BY <2>1 DEF Table
  <2>3. FreeSymbol(tables[k], n) \in Symbol /\ FreeSymbol(tables[k], n).name = n
    BY <2>1, DefineFreeType DEF FreeSymbol, NewSymbol
  <2>4. \A m \in Names \ {n} : Put(tables[k].store, FreeSymbol(tables[k], n))[m] = tables[k].store[m]
    BY <2>2, <2>3, PutStore
  <2>5. tables'[k].store = Put(tables[k].store, FreeSymbol(tables[k], n))
    BY <2>1 DEF DefineFree
  <2>6. /\ Grows(tables[k], tables'[k])
        /\ Len(tables'[k].free) = Len(tables[k].free) + 1
        /\ tables'[k].free[Len(tables[k].free) + 1] = o(k)
        /\ tables'[k].store[n] = FreeSymbol(tables[k], n)
    BY <2>1, FreeGrows
  <2>7. QED
    BY <2>1, <2>2, <2>4, <2>5, <2>6 DEF Grows
<1>4. ASSUME NEW k \in d+1..Len(tables) PROVE o(k) = tables'[k-1].store[n]
  <2>1. CASE k = d + 1
    BY <1>1, <1>2, <2>1 DEF Original
  <2>2. CASE k # d + 1
    BY <1>1, <1>3, <2>2 DEF Original
  <2>3. QED
    BY <2>1, <2>2
<1>5. QED
  BY <1>1, <1>2, <1>3, <1>4

LEMMA DefineStep ==
    ASSUME NoPrefixes, SafetyInv, NEW n \in Names, tables' = Define(tables, n)
    PROVE  /\ Len(tables') = Len(tables) /\ Len(tables) \in Nat /\ Len(tables) > 0
           /\ \A k \in 1..Len(tables)-1 : tables'[k] = tables[k]
           /\ tables'[Len(tables)].free = tables[Len(tables)].free
           /\ \A m \in Names \ {n} :
                tables'[Len(tables)].store[m] = tables[Len(tables)].store[m]
           /\ tables'[Len(tables)].store[n] # NULL
           /\ ~IsFree(tables'[Len(tables)].store[n])
<1> USE DEF SafetyInv, TypeOK
<1> DEFINE t == tables[Len(tables)]
<1>1. Len(tables) \in Nat /\ Len(tables) > 0 /\ t \in Table
  OBVIOUS
<1>2. PICK c \in {"GLOBAL", "LOCAL"} :
        /\ Len(tables') = Len(tables)
        /\ \A k \in 1..Len(tables)-1 : tables'[k] = tables[k]
        /\ tables'[Len(tables)] = DefineSymbol(t, n, c)
  BY DefineTables
<1>3. t.store \in Store /\ NewSymbol(n, t.num, c) \in Symbol
      /\ NewSymbol(n, t.num, c).name = n /\ NewSymbol(n, t.num, c).scope = c
  BY <1>1, NewSymbolType DEF Table, SymbolScope, NewSymbol
<1>4. /\ \A m \in Names \ {n} : Put(t.store, NewSymbol(n, t.num, c))[m] = t.store[m]
      /\ Put(t.store, NewSymbol(n, t.num, c))[n] = NewSymbol(n, t.num, c)
  BY <1>3, PutStore
<1>5. tables'[Len(tables)].store = Put(t.store, NewSymbol(n, t.num, c))
      /\ tables'[Len(tables)].free = t.free
  BY <1>2 DEF DefineSymbol
<1>6. NewSymbol(n, t.num, c) # NULL /\ ~IsFree(NewSymbol(n, t.num, c))
  BY <1>3, SymbolFields DEF IsFree
<1>7. QED
  BY <1>1, <1>2, <1>4, <1>5, <1>6

LEMMA OpenTables ==
    ASSUME NEW ts \in Seq(Table), ts # << >>
    PROVE  /\ Len(ts) \in Nat /\ Len(ts) > 0 /\ DOMAIN ts = 1..Len(ts)
           /\ \A k \in 1..Len(ts) :
                /\ ts[k] \in Table
                /\ DOMAIN ts[k].free = 1..Len(ts[k].free)
                /\ Len(ts[k].free) \in Nat
                /\ \A i \in 1..Len(ts[k].free) : ts[k].free[i] \in Symbol
<1>1. Len(ts) \in Nat /\ Len(ts) > 0 /\ DOMAIN ts = 1..Len(ts)
  OBVIOUS
<1>2. ASSUME NEW k \in 1..Len(ts) PROVE ts[k] \in Table /\ ts[k].free \in Seq(Symbol)
  <2>1. ts[k] \in Table
    OBVIOUS
  <2>2. QED
    BY <2>1 DEF Table
<1>3. QED
  BY <1>1, <1>2

LEMMA NextCurrent ==
    ASSUME NoPrefixes, LexicalInv, [Next]_vars PROVE CapturesCurrent'
<1> USE DEF LexicalInv
<1>1. SafetyInv /\ TypeOK /\ TypeOK'
  BY NextType DEF SafetyInv
<1>2. /\ Len(tables) \in Nat /\ Len(tables) > 0 /\ DOMAIN tables = 1..Len(tables)
      /\ \A k \in 1..Len(tables) : \A i \in DOMAIN tables[k].free : tables[k].free[i].name \in Names
      /\ \A k \in 1..Len(tables) : DOMAIN tables[k].free = 1..Len(tables[k].free)
  BY <1>1, OpenTables, SymbolFields DEF TypeOK
<1>3. DOMAIN tables' = 1..Len(tables')
      /\ \A k \in 1..Len(tables') : DOMAIN tables'[k].free = 1..Len(tables'[k].free)
  BY <1>1, OpenTables DEF TypeOK
<1>4. CASE EnterScope
  <2>1. PICK f \in Names \cup {NULL} : tables' = EnterTable(tables, f)
    BY <1>4 DEF EnterScope
  <2>2. /\ Len(tables') = Len(tables) + 1
        /\ \A k \in 1..Len(tables) : tables'[k] = tables[k]
        /\ tables'[Len(tables) + 1].free = << >>
    BY <1>1, <2>1, EnterTables DEF TypeOK
  <2>3. QED
    BY <1>2, <2>2 DEF CapturesCurrent
<1>5. CASE LeaveScope
  <2>1. /\ Len(tables) > 1 /\ Len(tables') = Len(tables) - 1
        /\ \A k \in 1..Len(tables) - 1 : tables'[k] = tables[k]
    BY <1>1, <1>5, LeaveTables DEF LeaveScope, TypeOK
  <2>2. QED
    BY <1>2, <2>1 DEF CapturesCurrent
<1>6. ASSUME NEW name \in Names, DefineName(name) PROVE CapturesCurrent'
  <2>1. tables' = Define(tables, name)
    BY <1>6 DEF DefineName
  <2>2. /\ Len(tables') = Len(tables)
        /\ \A k \in 1..Len(tables)-1 : tables'[k] = tables[k]
        /\ tables'[Len(tables)].free = tables[Len(tables)].free
    BY <1>1, <2>1, DefineStep
  <2>3. QED
    BY <1>2, <2>2 DEF CapturesCurrent
<1>7. ASSUME NEW name \in Names, Resolve(name) PROVE CapturesCurrent'
  <2>1. CASE UNCHANGED tables
    BY <2>1 DEF CapturesCurrent
  <2>2. ASSUME NEW d \in DOMAIN tables, FoundAt(tables, name, d),
               Captures(tables, name, d), tables' = AfterResolve(tables, name, d),
               NEW k \in 2..Len(tables'), NEW i \in DOMAIN tables'[k].free
        PROVE  tables'[k-1].store[tables'[k].free[i].name] = tables'[k].free[i]
    <3>1. /\ d \in 1..Len(tables) /\ Len(tables') = Len(tables)
          /\ \A j \in 1..d : tables'[j] = tables[j]
          /\ \A j \in d+1..Len(tables) :
                /\ tables[j].store[name] = NULL
                /\ tables'[j].store[name] = FreeSymbol(tables[j], name)
                /\ \A m \in Names \ {name} : tables'[j].store[m] = tables[j].store[m]
                /\ Len(tables[j].free) \in Nat
                /\ Len(tables'[j].free) = Len(tables[j].free) + 1
                /\ \A l \in 1..Len(tables[j].free) : tables'[j].free[l] = tables[j].free[l]
                /\ tables'[j].free[Len(tables[j].free) + 1] = tables'[j-1].store[name]
          /\ tables[d].store[name].name = name
      BY <1>1, <2>2, CaptureStep
    <3>2. ASSUME i \in DOMAIN tables[k].free, tables'[k].free[i] = tables[k].free[i]
          PROVE  tables'[k-1].store[tables'[k].free[i].name] = tables'[k].free[i]
      <4> DEFINE s == tables[k].free[i]
      <4>1. tables[k-1].store[s.name] = s /\ s \in Symbol /\ s # NULL /\ s.name \in Names
        BY <1>1, <1>2, <3>1, <3>2, OpenTables, SymbolFields DEF CapturesCurrent, TypeOK
      <4>2. CASE k - 1 <= d
        BY <3>1, <3>2, <4>1, <4>2
      <4>3. CASE k - 1 > d
        <5>1. k - 1 \in d+1..Len(tables)
          BY <1>2, <3>1, <4>3
        <5>2. s.name # name
          BY <3>1, <4>1, <5>1
        <5>3. tables'[k-1].store[s.name] = tables[k-1].store[s.name]
          BY <3>1, <4>1, <5>1, <5>2
        <5>4. QED
          BY <3>2, <4>1, <5>3
      <4>4. QED
        BY <1>2, <3>1, <4>2, <4>3
    <3>3. CASE k <= d
      BY <3>1, <3>2, <3>3
    <3>4. CASE k > d
      <4>1. k \in d+1..Len(tables) /\ k \in 1..Len(tables) /\ i \in 1..Len(tables'[k].free)
        BY <1>2, <1>3, <3>1, <3>4
      <4>2. CASE i \in 1..Len(tables[k].free)
        BY <1>2, <3>1, <3>2, <4>1, <4>2
      <4>3. CASE i = Len(tables[k].free) + 1
        <5>1. tables'[k].free[i] = tables'[k-1].store[name]
          BY <3>1, <4>1, <4>3
        <5>2. tables'[k-1].store[name].name = name
          <6>1. CASE k - 1 = d
            BY <3>1, <6>1
          <6>2. CASE k - 1 # d
            <7>0. d \in 1..Len(tables)
              BY <3>1
            <7>1. k - 1 \in d+1..Len(tables)
              BY <1>2, <4>1, <6>2, <7>0
            <7>2. tables'[k-1].store[name] = FreeSymbol(tables[k-1], name)
              BY <3>1, <7>1
            <7>3. FreeSymbol(tables[k-1], name).name = name
              BY DEF FreeSymbol, NewSymbol
            <7>4. QED
              BY <7>2, <7>3
          <6>3. QED
            BY <6>1, <6>2
        <5>3. QED
          BY <5>1, <5>2
      <4>4. Len(tables[k].free) \in Nat /\ Len(tables'[k].free) = Len(tables[k].free) + 1
        BY <3>1, <4>1
      <4>5. QED
        BY <4>1, <4>2, <4>3, <4>4
    <3>5. QED
      BY <1>2, <3>1, <3>3, <3>4
  <2>3. QED
    BY <1>7, <2>1, <2>2 DEF Resolve, AfterResolve, CapturesCurrent
<1>8. CASE UNCHANGED vars
  BY <1>8 DEF vars, CapturesCurrent
<1>9. QED
  BY <1>4, <1>5, <1>6, <1>7, <1>8 DEF Next

LEMMA Outwards ==
    ASSUME NEW m \in Nat, NEW k \in 1..m
    PROVE  /\ k # m => k \in 1..m-1
           /\ \A j \in 1..k-1 : j \in 1..m-1
OBVIOUS

LEMMA NextChain ==
    ASSUME NoPrefixes, LexicalInv, [Next]_vars PROVE CaptureChain'
<1> USE DEF LexicalInv
<1>1. SafetyInv /\ TypeOK /\ TypeOK'
  BY NextType DEF SafetyInv
<1>2. /\ Len(tables) \in Nat /\ Len(tables) > 0 /\ DOMAIN tables = 1..Len(tables)
      /\ DOMAIN tables' = 1..Len(tables')
  BY <1>1, OpenTables DEF TypeOK
<1>3. \A k \in 1..Len(tables) : \A n \in Names :
        IsFree(tables[k].store[n]) => \E d \in 1..k-1 : Chain(tables, n, d, k)
  BY <1>2, ChainDef
<1>4. SUFFICES ASSUME NEW k \in 1..Len(tables'), NEW n \in Names, IsFree(tables'[k].store[n])
               PROVE  \E d \in 1..k-1 : Chain(tables', n, d, k)
  BY <1>2 DEF CaptureChain, Chain, Root, Link
\* A chain survives in tables that keep their part of it.
<1>5. ASSUME k \in 1..Len(tables), \A j \in 1..k-1 : tables'[j] = tables[j],
             tables'[k].store[n] = tables[k].store[n], tables'[k].free = tables[k].free
      PROVE  \E d \in 1..k-1 : Chain(tables', n, d, k)
  <2>1. PICK d \in 1..k-1 : Chain(tables, n, d, k)
    BY <1>3, <1>4, <1>5
  <2>2. Root(tables', n, d)
    BY <1>5, <2>1 DEF Chain, Root
  <2>3. ASSUME NEW j \in d+1..k PROVE Link(tables', n, j)
    <3>1. Link(tables, n, j) /\ j - 1 \in 1..k-1 /\ tables'[j-1] = tables[j-1]
      BY <1>5, <2>1 DEF Chain
    <3>2. tables'[j].store[n] = tables[j].store[n] /\ tables'[j].free = tables[j].free
      BY <1>5, <2>1
    <3>3. QED
      BY <3>1, <3>2 DEF Link
  <2>4. QED
    BY <2>2, <2>3 DEF Chain
<1>6. CASE EnterScope
  <2>1. PICK f \in Names \cup {NULL} : tables' = EnterTable(tables, f)
    BY <1>6 DEF EnterScope
  <2>2. /\ Len(tables') = Len(tables) + 1
        /\ \A j \in 1..Len(tables) : tables'[j] = tables[j]
        /\ ~IsFree(tables'[Len(tables) + 1].store[n])
    BY <1>1, <2>1, EnterTables DEF TypeOK, IsFree
  <2>3. QED
    BY <1>2, <1>4, <1>5, <2>2
<1>7. CASE LeaveScope
  <2>1. /\ Len(tables) > 1 /\ Len(tables') = Len(tables) - 1
        /\ \A j \in 1..Len(tables) - 1 : tables'[j] = tables[j]
    BY <1>1, <1>7, LeaveTables DEF LeaveScope, TypeOK
  <2>2. QED
    BY <1>2, <1>4, <1>5, <2>1
<1>8. ASSUME NEW name \in Names, DefineName(name)
      PROVE  \E d \in 1..k-1 : Chain(tables', n, d, k)
  <2>1. tables' = Define(tables, name)
    BY <1>8 DEF DefineName
  <2>2. /\ Len(tables') = Len(tables)
        /\ \A j \in 1..Len(tables)-1 : tables'[j] = tables[j]
        /\ tables'[Len(tables)].free = tables[Len(tables)].free
        /\ \A m \in Names \ {name} :
             tables'[Len(tables)].store[m] = tables[Len(tables)].store[m]
        /\ ~IsFree(tables'[Len(tables)].store[name])
    BY <1>1, <2>1, DefineStep
  <2> DEFINE Outer == 1..Len(tables)-1
  <2>0. \A j \in Outer : tables'[j] = tables[j]
    BY <2>2
  <2>3. k \in 1..Len(tables) /\ (k = Len(tables) => n # name)
    BY <1>4, <2>2
  <2>4. tables'[k].store[n] = tables[k].store[n] /\ tables'[k].free = tables[k].free
    <3>1. CASE k = Len(tables)
      BY <2>2, <2>3, <3>1
    <3>2. CASE k # Len(tables)
      <4>1. k \in Outer
        BY <1>2, <2>3, <3>2, Outwards, Zenon
      <4> HIDE DEF Outer
      <4>2. tables'[k] = tables[k]
        BY <2>0, <4>1
      <4>3. QED
        BY <4>2, Zenon
    <3>3. QED
      BY <3>1, <3>2
  <2>5. \A j \in 1..k-1 : tables'[j] = tables[j]
    <3>1. \A j \in 1..k-1 : j \in Outer
      BY <1>2, <2>3, Outwards, Zenon
    <3> HIDE DEF Outer
    <3>2. QED
      BY <2>0, <3>1, Zenon
  <2>6. QED
    BY <1>5, <2>3, <2>4, <2>5
<1>9. ASSUME NEW name \in Names, Resolve(name)
      PROVE  \E d \in 1..k-1 : Chain(tables', n, d, k)
  <2>1. CASE UNCHANGED tables
    BY <1>2, <1>5, <2>1
  <2>2. ASSUME NEW e \in DOMAIN tables, FoundAt(tables, name, e),
               Captures(tables, name, e), tables' = AfterResolve(tables, name, e)
        PROVE  \E d \in 1..k-1 : Chain(tables', n, d, k)
    <3>1. /\ e \in 1..Len(tables) /\ Len(tables') = Len(tables)
          /\ \A j \in 1..e : tables'[j] = tables[j]
      BY <1>1, <2>2, CaptureStep
    <3>2. ASSUME NEW j \in e+1..Len(tables)
          PROVE  /\ tables'[j].store[name] = FreeSymbol(tables[j], name)
                 /\ \A m \in Names \ {name} : tables'[j].store[m] = tables[j].store[m]
                 /\ Len(tables[j].free) \in Nat
                 /\ Len(tables'[j].free) = Len(tables[j].free) + 1
                 /\ \A l \in 1..Len(tables[j].free) : tables'[j].free[l] = tables[j].free[l]
                 /\ tables'[j].free[Len(tables[j].free) + 1] = tables'[j-1].store[name]
      BY <1>1, <2>2, CaptureStep
    <3>3. tables[e].store[name] # NULL /\ tables[e].store[name].scope \in {"LOCAL", "FREE", "FUNCTION"}
      BY <1>1, <2>2, CaptureStep, SymbolFields
    <3>4. CASE k <= e
      BY <1>2, <1>5, <3>1, <3>4
    <3>5. CASE k > e /\ n # name
      <4>1. k \in 1..Len(tables) /\ k \in e+1..Len(tables)
        BY <3>1, <3>5
      <4>2. tables'[k].store[n] = tables[k].store[n]
        BY <3>2, <3>5, <4>1
      <4>3. PICK d \in 1..k-1 : Chain(tables, n, d, k)
        BY <1>3, <1>4, <4>1, <4>2
      <4>4. ASSUME NEW j \in 1..k PROVE tables'[j].store[n] = tables[j].store[n]
        <5>1. CASE j <= e
          BY <3>1, <4>1, <5>1
        <5>2. CASE j > e
          <6>1. j \in e+1..Len(tables) /\ n \in Names \ {name}
            BY <3>1, <3>5, <4>1, <5>2
          <6>2. QED
            BY <3>2, <6>1
        <5>3. QED
          BY <3>1, <5>1, <5>2
      <4>5. ASSUME NEW j \in 1..k, NEW l \in Nat, l < Len(tables[j].free)
            PROVE  /\ l < Len(tables'[j].free)
                   /\ tables'[j].free[l + 1] = tables[j].free[l + 1]
        <5>1. CASE j <= e
          BY <3>1, <4>1, <4>5, <5>1
        <5>2. CASE j > e
          <6>1. j \in e+1..Len(tables)
            BY <3>1, <4>1, <5>2
          <6>2. /\ Len(tables[j].free) \in Nat
                /\ Len(tables'[j].free) = Len(tables[j].free) + 1
                /\ \A i \in 1..Len(tables[j].free) : tables'[j].free[i] = tables[j].free[i]
            BY <3>2, <6>1
          <6>3. l + 1 \in 1..Len(tables[j].free)
            BY <4>5, <6>2
          <6>4. QED
            BY <4>5, <6>2, <6>3
        <5>3. QED
          BY <3>1, <5>1, <5>2
      <4>6. Root(tables', n, d)
        BY <4>3, <4>4 DEF Chain, Root
      <4>7. ASSUME NEW j \in d+1..k PROVE Link(tables', n, j)
        <5>1. Link(tables, n, j) /\ j \in 1..k /\ j - 1 \in 1..k /\ j \in 1..Len(tables)
          BY <4>1, <4>3 DEF Chain
        <5>2. tables[j] \in Table /\ tables[j].store[n] # NULL
          BY <1>1, <5>1 DEF Link, IsFree, TypeOK
        <5>3. tables[j].store[n].index \in Nat
          BY <5>2, StoreValue, SymbolFields
        <5>4. QED
          BY <4>4, <4>5, <5>1, <5>3 DEF Link
      <4>8. QED
        BY <4>6, <4>7 DEF Chain
    <3>6. CASE k > e /\ n = name
      <4>1. k \in 1..Len(tables) /\ k \in e+1..Len(tables)
        BY <3>1, <3>6
      <4>2. ASSUME NEW j \in e+1..k PROVE Link(tables', n, j)
        <5>1. j \in e+1..Len(tables) /\ j \in 1..Len(tables)
          BY <3>1, <4>1
        <5>2. FreeSymbol(tables[j], name) # NULL
          <6>1. tables[j] \in Table
            BY <1>1, <5>1 DEF TypeOK
          <6>2. Len(tables[j].free) \in Nat
            BY <3>2, <5>1
          <6>3. QED
            BY <6>2, NewSymbolType, SymbolFields DEF FreeSymbol, SymbolScope
        <5>3. /\ FreeSymbol(tables[j], name).scope = "FREE"
              /\ FreeSymbol(tables[j], name).index = Len(tables[j].free)
          BY DEF FreeSymbol, NewSymbol
        <5>4. /\ tables'[j].store[n] = FreeSymbol(tables[j], name)
              /\ tables'[j].free[Len(tables[j].free) + 1] = tables'[j-1].store[n]
              /\ Len(tables[j].free) < Len(tables'[j].free)
          BY <3>2, <3>6, <5>1
        <5>5. IsFree(tables'[j].store[n]) /\ tables'[j].store[n].index = Len(tables[j].free)
          BY <5>2, <5>3, <5>4 DEF IsFree
        <5>6. QED
          BY <5>4, <5>5 DEF Link
      <4>3. CASE tables[e].store[n].scope \in {"LOCAL", "FUNCTION"}
        <5>1. Root(tables', n, e)
          BY <3>1, <3>3, <3>6, <4>3 DEF Root
        <5>2. QED
          BY <3>1, <3>6, <4>1, <4>2, <5>1 DEF Chain
      <4>4. CASE tables[e].store[n].scope = "FREE"
        <5>1. PICK d \in 1..e-1 : Chain(tables, n, d, e)
          BY <1>3, <3>1, <3>3, <3>6, <4>4 DEF IsFree
        <5>2. Root(tables', n, d)
          BY <3>1, <5>1 DEF Chain, Root
        <5>3. ASSUME NEW j \in d+1..e PROVE Link(tables', n, j)
          <6>1. j \in 1..e /\ j - 1 \in 1..e /\ Link(tables, n, j)
            BY <3>1, <5>1 DEF Chain
          <6>2. tables'[j] = tables[j] /\ tables'[j-1] = tables[j-1]
            BY <3>1, <6>1
          <6>3. QED
            BY <6>1, <6>2 DEF Link
        <5>4. ASSUME NEW j \in d+1..k PROVE Link(tables', n, j)
          BY <3>1, <4>1, <4>2, <5>1, <5>3
        <5>5. d \in 1..k-1
          BY <3>1, <4>1, <5>1
        <5>6. QED
          BY <5>2, <5>4, <5>5 DEF Chain
      <4>5. QED
        BY <3>3, <3>6, <4>3, <4>4
    <3>7. QED
      BY <1>2, <3>1, <3>4, <3>5, <3>6
  <2>3. QED
    BY <1>9, <2>1, <2>2 DEF Resolve, AfterResolve
<1>10. CASE UNCHANGED vars
  BY <1>2, <1>5, <1>10 DEF vars
<1>11. QED
  BY <1>6, <1>7, <1>8, <1>9, <1>10 DEF Next

LEMMA Lexical_Step == ASSUME NoPrefixes PROVE LexicalInv /\ [Next]_vars => LexicalInv'
<1> SUFFICES ASSUME LexicalInv, [Next]_vars PROVE LexicalInv'
  OBVIOUS
<1>1. SafetyInv'
  BY NextSafety DEF LexicalInv
<1>2. QED
  BY <1>1, NextCurrent, NextChain DEF LexicalInv

THEOREM LexicalSafety == ASSUME NoPrefixes PROVE Spec => []LexicalInv
BY InitLexical, Lexical_Step, PTL DEF Spec

(* A symbol that symbol_table_resolve has put into the free_symbols of a   *)
(* table stays what the enclosing table resolves that name to.             *)
THEOREM CapturesAreCurrent == ASSUME NoPrefixes PROVE Spec => []CapturesCurrent
<1>1. LexicalInv => CapturesCurrent
  BY DEF LexicalInv
<1>2. QED
  BY <1>1, LexicalSafety, PTL

(* Following free indices outwards, from any open table, passes through    *)
(* captures of one name only and ends at a local or at a function's name.  *)
THEOREM CapturesAreChained == ASSUME NoPrefixes PROVE Spec => []CaptureChain
<1>1. LexicalInv => CaptureChain
  BY DEF LexicalInv
<1>2. QED
  BY <1>1, LexicalSafety, PTL

LEMMA NamesStep ==
    ASSUME NoPrefixes, SafetyInv, [Next]_vars,
           NEW k \in DOMAIN tables \cap DOMAIN tables', NEW n \in Names,
           tables[k].store[n] # NULL
    PROVE  tables'[k].store[n] # NULL
<1>1. /\ TypeOK /\ k \in 1..Len(tables) /\ Len(tables) \in Nat /\ Len(tables) > 0
      /\ TypeOK' /\ k \in 1..Len(tables')
  BY NextType, OpenTables DEF SafetyInv, TypeOK
<1>2. CASE EnterScope
  <2>1. PICK f \in Names \cup {NULL} : tables' = EnterTable(tables, f)
    BY <1>2 DEF EnterScope
  <2>2. QED
    BY <1>1, <2>1, EnterTables DEF TypeOK
<1>3. CASE LeaveScope
  <2>1. /\ Len(tables') = Len(tables) - 1
        /\ \A j \in 1..Len(tables) - 1 : tables'[j] = tables[j]
    BY <1>1, <1>3, LeaveTables DEF LeaveScope, TypeOK
  <2>2. QED
    BY <1>1, <2>1
<1>4. ASSUME NEW name \in Names, DefineName(name) PROVE tables'[k].store[n] # NULL
  <2>1. tables' = Define(tables, name)
    BY <1>4 DEF DefineName
  <2>2. CASE k = Len(tables)
    BY <1>1, <2>1, <2>2, DefineStep
  <2>3. CASE k # Len(tables)
    <3>1. k \in 1..Len(tables)-1
      BY <1>1, <2>3, Outwards
    <3>2. tables'[k] = tables[k]
      BY <2>1, <3>1, DefineStep
    <3>3. QED
      BY <3>2
  <2>4. QED
    BY <2>2, <2>3
<1>5. ASSUME NEW name \in Names, Resolve(name) PROVE tables'[k].store[n] # NULL
  <2>1. CASE UNCHANGED tables
    BY <2>1
  <2>2. ASSUME NEW d \in DOMAIN tables, FoundAt(tables, name, d),
               Captures(tables, name, d), tables' = AfterResolve(tables, name, d)
        PROVE  tables'[k].store[n] # NULL
    <3>1. d \in 1..Len(tables) /\ \A j \in 1..d : tables'[j] = tables[j]
      BY <2>2, CaptureStep
    <3>2. CASE k <= d
      BY <1>1, <3>1, <3>2
    <3>3. CASE k > d
      <4>1. k \in d+1..Len(tables)
        BY <1>1, <3>1, <3>3
      <4>2. tables[k].store[name] = NULL
            /\ \A m \in Names \ {name} : tables'[k].store[m] = tables[k].store[m]
        BY <2>2, <4>1, CaptureStep
      <4>3. QED
        BY <4>2
    <3>4. QED
      BY <1>1, <3>1, <3>2, <3>3
  <2>3. QED
    BY <1>5, <2>1, <2>2 DEF Resolve, AfterResolve
<1>6. CASE UNCHANGED vars
  BY <1>6 DEF vars
<1>7. QED
  BY <1>2, <1>3, <1>4, <1>5, <1>6 DEF Next

(* symbol_put loses no name of an open table as long as no identifier of   *)
(* the program is a proper prefix of another one.                          *)
THEOREM NamesAreKept == ASSUME NoPrefixes PROVE Spec => NamesStay
<1>1. SafetyInv /\ [Next]_vars
        => [\A k \in DOMAIN tables \cap DOMAIN tables' : \A n \in Names :
              tables[k].store[n] # NULL => tables'[k].store[n] # NULL]_vars
  BY NamesStep
<1>2. QED
  BY <1>1, Safety, PTL DEF Spec, NamesStay

-----------------------------------------------------------------------------
(* The tables implement lexical scoping *)

(* What the tables show of themselves to the specification.                *)
Shown(t) == [n \in Names |-> Binding(t.store[n])]
View(ts) == [k \in DOMAIN ts |-> Shown(ts[k])]

(* Globals and builtins are symbols of the outermost table only.           *)
OutermostGlobals ==
    \A k \in 2..Len(tables) : \A n \in Names :
        tables[k].store[n] # NULL => tables[k].store[n].scope \in {"LOCAL", "FREE", "FUNCTION"}

LEMMA SequencesEqual ==
    ASSUME NEW s, NEW t, IsSequence(s), IsSequence(t), Len(s) = Len(t),
           \A i \in 1..Len(s) : s[i] = t[i]
    PROVE  s = t
<1>1. PICK S : s \in Seq(S)
  BY DEF IsSequence
<1>2. PICK T : t \in Seq(T)
  BY DEF IsSequence
<1>3. s \in Seq(S \cup T) /\ t \in Seq(S \cup T)
  BY <1>1, <1>2, SeqMonotonic
<1> QED BY <1>3, SeqEqual

LEMMA ViewForm ==
    ASSUME NEW ts \in Seq(Table)
    PROVE  /\ IsSequence(View(ts)) /\ Len(View(ts)) = Len(ts) /\ DOMAIN View(ts) = 1..Len(ts)
           /\ \A k \in 1..Len(ts) : View(ts)[k] = Shown(ts[k])
<1>1. Len(ts) \in Nat /\ DOMAIN ts = 1..Len(ts)
  OBVIOUS
<1> DEFINE S == {Shown(ts[k]) : k \in 1..Len(ts)}
<1>2. View(ts) \in [1..Len(ts) -> S] /\ \A k \in 1..Len(ts) : View(ts)[k] = Shown(ts[k])
  BY <1>1 DEF View
<1> HIDE DEF S
<1>3. View(ts) \in Seq(S) /\ Len(View(ts)) = Len(ts)
  BY <1>1, <1>2, SequenceMade
<1> QED BY <1>1, <1>2, <1>3 DEF IsSequence

LEMMA ViewAt ==
    ASSUME NEW ts \in Seq(Table), NEW k \in 1..Len(ts), NEW n \in Names
    PROVE  View(ts)[k][n] = Binding(ts[k].store[n])
<1>1. View(ts)[k] = Shown(ts[k])
  BY ViewForm
<1> QED BY <1>1 DEF Shown

LEMMA BindingOf ==
    ASSUME NEW s \in Symbol
    PROVE  /\ Binding(s) = NULL <=> s.scope = "FREE"
           /\ s.scope # "FREE" => Binding(s) = [kind |-> s.scope, slot |-> s.index]
<1>1. s # NULL /\ s.scope \in SymbolScope /\ s.index \in Nat
  BY SymbolFields
<1>2. [kind |-> s.scope, slot |-> s.index] # NULL
  BY <1>1, AnswerAssumption
<1> QED BY <1>1, <1>2 DEF Binding, IsFree

(* A function's table opens a scope with at most its own name in it.       *)
LEMMA OpenShown ==
    ASSUME NoPrefixes, NEW ts \in Seq(Table), NEW self \in Names \cup {NULL}
    PROVE  View(EnterTable(ts, self)) =
             Append(View(ts), [n \in Names |-> IF n = self THEN [kind |-> "FUNCTION", slot |-> 0]
                                               ELSE NULL])
<1> DEFINE new == EnterTable(ts, self)
           t == IF self = NULL THEN EmptyTable ELSE DefineFnName(EmptyTable, self)
           b == [n \in Names |-> IF n = self THEN [kind |-> "FUNCTION", slot |-> 0] ELSE NULL]
<1>1. new = Append(ts, t) /\ t \in Table
  BY EnterType DEF EnterTable
<1>2. Shown(t) = b
  <2>1. CASE self = NULL
    <3>1. \A n \in Names : n # self /\ t.store[n] = NULL
      BY <2>1, NullAssumption DEF EmptyTable
    <3> QED BY <3>1 DEF Shown, Binding
  <2>2. CASE self # NULL
    <3> DEFINE s == NewSymbol(self, 0, "FUNCTION")
    <3>1. s \in Symbol /\ s.scope = "FUNCTION" /\ s.index = 0 /\ s.name = self
      BY <2>2, NewSymbolType DEF SymbolScope, NewSymbol
    <3>2. Binding(s) = [kind |-> "FUNCTION", slot |-> 0]
      BY <3>1, BindingOf
    <3>3. \A n \in Names : t.store[n] = IF n = self THEN s ELSE NULL
      BY <2>2, <3>1 DEF DefineFnName, Put, EmptyTable, NoPrefixes
    <3> HIDE DEF s, t
    <3>4. \A n \in Names : Binding(t.store[n]) = IF n = self THEN [kind |-> "FUNCTION", slot |-> 0]
                                                  ELSE NULL
      BY <3>2, <3>3 DEF Binding
    <3> QED BY <3>4, Zenon DEF Shown
  <2> QED BY <2>1, <2>2
<1> HIDE DEF t, b
<1>3. new \in Seq(Table) /\ Len(new) = Len(ts) + 1 /\ Len(ts) \in Nat
      /\ new[Len(ts) + 1] = t /\ \A k \in 1..Len(ts) : new[k] = ts[k]
  BY <1>1
<1> HIDE DEF new
<1>4. /\ IsSequence(Append(View(ts), b)) /\ Len(Append(View(ts), b)) = Len(ts) + 1
      /\ \A k \in 1..Len(ts) : Append(View(ts), b)[k] = Shown(ts[k])
      /\ Append(View(ts), b)[Len(ts) + 1] = b
  BY ViewForm, SequenceAppend
<1>5. /\ IsSequence(View(new)) /\ Len(View(new)) = Len(ts) + 1
      /\ \A k \in 1..Len(ts) + 1 : View(new)[k] = Shown(new[k])
  BY <1>3, ViewForm
<1>6. ASSUME NEW k \in 1..Len(ts) + 1 PROVE View(new)[k] = Append(View(ts), b)[k]
  <2>1. CASE k \in 1..Len(ts)
    BY <1>3, <1>4, <1>5, <2>1
  <2>2. CASE k = Len(ts) + 1
    BY <1>2, <1>3, <1>4, <1>5, <2>2
  <2>3. k \in 1..Len(ts) \/ k = Len(ts) + 1
    BY <1>3
  <2> QED BY <2>1, <2>2, <2>3
<1>7. View(new) = Append(View(ts), b)
  BY <1>4, <1>5, <1>6, SequencesEqual
<1> QED BY <1>7 DEF new, b

(* Leaving a table closes its scope.                                       *)
LEMMA CloseShown ==
    ASSUME NEW ts \in Seq(Table), Len(ts) > 1
    PROVE  View(LeaveTable(ts)) = SubSeq(View(ts), 1, Len(View(ts)) - 1)
<1> DEFINE new == LeaveTable(ts)
           front == SubSeq(View(ts), 1, Len(View(ts)) - 1)
<1>1. /\ new \in Seq(Table) /\ Len(new) = Len(ts) - 1 /\ Len(ts) \in Nat
      /\ \A k \in 1..Len(ts)-1 : new[k] = ts[k]
  BY LeaveTables
<1>2. /\ IsSequence(View(ts)) /\ Len(View(ts)) = Len(ts)
      /\ \A k \in 1..Len(ts) : View(ts)[k] = Shown(ts[k])
  BY ViewForm
<1>3. /\ IsSequence(front) /\ Len(front) = Len(ts) - 1
      /\ \A k \in 1..Len(ts) - 1 : front[k] = View(ts)[k]
  BY <1>2, SequenceFront
<1> HIDE DEF new, front
<1>4. /\ IsSequence(View(new)) /\ Len(View(new)) = Len(ts) - 1
      /\ \A k \in 1..Len(ts) - 1 : View(new)[k] = Shown(new[k])
  BY <1>1, ViewForm
<1>5. \A k \in 1..Len(ts) - 1 : View(new)[k] = front[k]
  BY <1>1, <1>2, <1>3, <1>4
<1>6. View(new) = front
  BY <1>3, <1>4, <1>5, SequencesEqual
<1> QED BY <1>6 DEF new, front


(* A definition binds the name to a slot that no other name of the scope   *)
(* has.                                                                    *)
DefinitionKind == IF Len(View(tables)) = 1 THEN "GLOBAL" ELSE "LOCAL"

LEMMA DefinedHere ==
    ASSUME NoPrefixes, SafetyInv, NEW n \in Names, tables' = Define(tables, n)
    PROVE  LET t == tables[Len(tables)]
               u == tables'[Len(tables)]
               s == Defined(tables, n)
           IN  /\ t \in Table /\ t.num \in Nat /\ s \in Symbol
               /\ s.scope = DefinitionScope(tables) /\ s.index = t.num
               /\ u.store[n] = s
               /\ \A m \in Names \ {n} : u.store[m] = t.store[m]
<1> DEFINE L == Len(tables)
           t == tables[L]
           s == Defined(tables, n)
<1>1. L \in 1..Len(tables) /\ L \in Nat /\ t \in Table
  BY DEF SafetyInv, TypeOK
<1>2. t.num \in Nat /\ t.store \in Store
  BY <1>1 DEF Table
<1>3. DefinitionScope(tables) \in {"GLOBAL", "LOCAL"}
  BY DEF DefinitionScope
<1>4. /\ s \in Symbol /\ s.scope = DefinitionScope(tables) /\ s.index = t.num
      /\ s.name = n
  BY <1>2, <1>3, NewSymbolType DEF Defined, NewSymbol, SymbolScope
<1>5. tables'[L] = DefineSymbol(t, n, DefinitionScope(tables))
  BY <1>1 DEF Define, SafetyInv, TypeOK
<1>6. tables'[L].store = Put(t.store, s)
  BY <1>5 DEF DefineSymbol, Defined
<1>7. /\ Put(t.store, s)[n] = s
      /\ \A m \in Names \ {n} : Put(t.store, s)[m] = t.store[m]
  BY <1>2, <1>4, PutStore
<1> QED BY <1>1, <1>2, <1>4, <1>6, <1>7

PutLast(V, n, new) == [V EXCEPT ![Len(V)][n] = new]

LastIsPut(V, U, n, new) ==
    /\ IsSequence(V) /\ IsSequence(U) /\ Len(U) = Len(V) /\ Len(V) > 0
    /\ \A k \in 1..Len(V) - 1 : U[k] = V[k]
    /\ U[Len(V)] = [V[Len(V)] EXCEPT ![n] = new]

LEMMA LastPut ==
    ASSUME NEW V, NEW U, NEW n, NEW new, LastIsPut(V, U, n, new)
    PROVE  U = PutLast(V, n, new)
<1> DEFINE L == Len(V)
           e == [V[L] EXCEPT ![n] = new]
           W == [k \in 1..L |-> IF k = L THEN e ELSE V[k]]
<1>1. L \in Nat /\ L \in 1..L /\ DOMAIN V = 1..L /\ DOMAIN U = 1..L
  BY SequenceForm DEF LastIsPut
<1>2. PutLast(V, n, new) = W
  BY <1>1, Zenon DEF PutLast
<1>3. PICK S : U \in Seq(S)
  BY DEF LastIsPut, IsSequence
<1>4. U = [k \in 1..L |-> U[k]]
  BY <1>1, <1>3
<1>5. U[L] = e /\ \A k \in 1..L - 1 : U[k] = V[k]
  BY Zenon DEF LastIsPut
<1> HIDE DEF e
<1>6. U = W
  BY <1>1, <1>4, <1>5
<1> QED BY <1>2, <1>6

LEMMA BindShown ==
    ASSUME NoPrefixes, SafetyInv, NEW n \in Names, tables' = Define(tables, n)
    PROVE  LET here == Len(View(tables))
               new == [kind |-> DefinitionKind, slot |-> tables[Len(tables)].num]
           IN  /\ \A m \in Names \ {n} : View(tables)[here][m] # new
               /\ View(tables)' = [View(tables) EXCEPT ![here][n] = new]
<1> DEFINE L == Len(tables)
           t == tables[L]
           s == Defined(tables, n)
           V == View(tables)
           new == [kind |-> DefinitionKind, slot |-> t.num]
           W == [V EXCEPT ![L][n] = new]
<1>1. tables \in Seq(Table) /\ L \in Nat /\ L > 0 /\ L \in 1..L
  BY DEF SafetyInv, TypeOK
<1>2. /\ IsSequence(V) /\ Len(V) = L /\ \A k \in 1..L : V[k] = Shown(tables[k])
  BY <1>1, ViewForm
<1>3. /\ t \in Table /\ t.num \in Nat /\ s \in Symbol
      /\ s.scope = DefinitionScope(tables) /\ s.index = t.num
      /\ tables'[L].store[n] = s
      /\ \A m \in Names \ {n} : tables'[L].store[m] = t.store[m]
  BY DefinedHere
<1>4. DefinitionScope(tables) = DefinitionKind /\ DefinitionKind \in {"GLOBAL", "LOCAL"}
  BY <1>2 DEF DefinitionScope, DefinitionKind
<1>5. Binding(s) = new
  BY <1>3, <1>4, BindingOf
<1>6. ASSUME NEW m \in Names \ {n} PROVE V[L][m] # new
  <2>1. V[L][m] = Binding(t.store[m])
    BY <1>1, <1>2 DEF Shown
  <2>2. CASE t.store[m] = NULL
    <3>1. Binding(s) # NULL /\ Binding(t.store[m]) = NULL
      BY <1>3, <1>4, <2>2, BindingOf DEF Binding
    <3> QED BY <1>5, <2>1, <3>1
  <2>3. CASE t.store[m] # NULL
    <3>1. t.store[m] \in Symbol
      BY <1>3, <2>3, StoreValue
    <3>2. CASE t.store[m].scope \in {"GLOBAL", "LOCAL"}
      <4>1. Slotted(t, m) /\ L \in DOMAIN tables
        BY <1>1, <2>3, <3>2 DEF Slotted
      <4>2. t.store[m].index < t.num
        BY <4>1 DEF SafetyInv, SlotsDistinct
      <4>3. t.store[m].index # t.num
        BY <1>3, <3>1, <4>2, SymbolFields
      <4>4. Binding(t.store[m]) = [kind |-> t.store[m].scope, slot |-> t.store[m].index]
        BY <3>1, <3>2, BindingOf
      <4> QED BY <2>1, <4>3, <4>4
    <3>3. CASE t.store[m].scope \notin {"GLOBAL", "LOCAL"}
      <4>1. Binding(t.store[m]) = NULL \/ Binding(t.store[m]) = [kind |-> t.store[m].scope, slot |-> t.store[m].index]
        BY <3>1, BindingOf
      <4>2. Binding(s) # NULL
        BY <1>3, <1>4, BindingOf
      <4>3. t.store[m].scope # DefinitionKind
        BY <1>4, <3>3
      <4>4. [kind |-> t.store[m].scope, slot |-> t.store[m].index] # new
        BY <4>3
      <4> QED BY <1>5, <2>1, <4>1, <4>2, <4>4
    <3> QED BY <3>2, <3>3
  <2> QED BY <2>2, <2>3
<1>7. /\ tables' \in Seq(Table) /\ Len(tables') = L
      /\ \A k \in 1..L-1 : tables'[k] = tables[k]
  BY <1>1, DefineTables
<1>8. /\ IsSequence(View(tables')) /\ Len(View(tables')) = L
      /\ \A k \in 1..L : View(tables')[k] = Shown(tables'[k])
  BY <1>7, ViewForm
<1> DEFINE e == [V[L] EXCEPT ![n] = new]
<1>9. W = [V EXCEPT ![L] = e]
  BY Zenon
<1>10. V[L] = Shown(t)
  BY <1>1, <1>2
<1>11. Shown(tables'[L]) = e
  <2>1. \A m \in Names : Binding(tables'[L].store[m]) = IF m = n THEN new ELSE Binding(t.store[m])
    BY <1>3, <1>5
  <2> HIDE DEF new, t, L
  <2>2. Shown(tables'[L]) = [Shown(t) EXCEPT ![n] = new]
    BY <2>1 DEF Shown
  <2> QED BY <1>10, <2>2
<1>12. /\ Len(View(tables')) = Len(V) /\ Len(V) > 0
       /\ \A k \in 1..Len(V) - 1 : View(tables')[k] = V[k]
       /\ View(tables')[Len(V)] = [V[Len(V)] EXCEPT ![n] = new]
  <2>1. \A k \in 1..L - 1 : View(tables')[k] = V[k]
    BY <1>1, <1>2, <1>7, <1>8
  <2>2. View(tables')[L] = e
    BY <1>1, <1>8, <1>11
  <2> QED BY <1>1, <1>2, <1>8, <2>1, <2>2
<1> HIDE DEF V, e, new, s, t, L
<1>13. View(tables') = PutLast(V, n, new)
  <2>1. /\ IsSequence(V) /\ IsSequence(View(tables')) /\ Len(View(tables')) = Len(V)
        /\ Len(V) > 0
    BY <1>2, <1>8, <1>12
  <2>2. LastIsPut(V, View(tables'), n, new)
    BY <1>12, <2>1, Zenon DEF LastIsPut
  <2> QED BY <2>2, LastPut, Zenon
<1>14. View(tables') = W
  BY <1>2, <1>13, Zenon DEF PutLast, W
<1>15. View(tables)' = W
  BY <1>14 DEF View, Shown
<1> QED BY <1>2, <1>6, <1>15 DEF V, W, new, t, L


LEMMA InitOutermost == Init => OutermostGlobals
BY DEF Init, OutermostGlobals

LEMMA NextOutermost ==
    ASSUME NoPrefixes, SafetyInv, OutermostGlobals, [Next]_vars PROVE OutermostGlobals'
<1> DEFINE Captured(s) == s # NULL => s.scope \in {"LOCAL", "FREE", "FUNCTION"}
<1>1. /\ tables \in Seq(Table) /\ Len(tables) \in Nat /\ Len(tables) > 0
      /\ \A k \in 2..Len(tables) : \A n \in Names : Captured(tables[k].store[n])
  BY DEF SafetyInv, TypeOK, OutermostGlobals
<1>2. SUFFICES ASSUME NEW k \in 2..Len(tables'), NEW n \in Names PROVE Captured(tables'[k].store[n])
  BY DEF OutermostGlobals
<1>3. CASE EnterScope
  <2>1. PICK f \in Names \cup {NULL} : tables' = EnterTable(tables, f)
    BY <1>3 DEF EnterScope
  <2>2. /\ Len(tables') = Len(tables) + 1
        /\ \A j \in 1..Len(tables) : tables'[j] = tables[j]
        /\ Captured(tables'[Len(tables) + 1].store[n])
    BY <1>1, <2>1, EnterTables
  <2>3. k \in 2..Len(tables) \/ k = Len(tables) + 1
    BY <1>1, <2>2
  <2> QED BY <1>1, <2>2, <2>3
<1>4. CASE LeaveScope
  <2>1. /\ Len(tables') = Len(tables) - 1
        /\ \A j \in 1..Len(tables) - 1 : tables'[j] = tables[j]
    BY <1>1, <1>4, LeaveTables DEF LeaveScope
  <2> QED BY <1>1, <2>1
<1>5. ASSUME NEW name \in Names, DefineName(name) PROVE Captured(tables'[k].store[n])
  <2>1. /\ Len(tables') = Len(tables)
        /\ \A j \in 1..Len(tables) - 1 : tables'[j] = tables[j]
    BY <1>1, <1>5, DefineTables DEF DefineName
  <2>2. LET s == Defined(tables, name)
        IN  /\ s.scope = DefinitionScope(tables) /\ tables'[Len(tables)].store[name] = s
            /\ \A m \in Names \ {name} :
                 tables'[Len(tables)].store[m] = tables[Len(tables)].store[m]
    BY <1>5, DefinedHere DEF DefineName
  <2>3. k # Len(tables) => k \in 1..Len(tables) - 1
    BY <1>1, <2>1
  <2>4. k = Len(tables) => DefinitionScope(tables) = "LOCAL"
    BY DEF DefinitionScope
  <2> QED BY <1>1, <2>1, <2>2, <2>3, <2>4
<1>6. ASSUME NEW name \in Names, Resolve(name) PROVE Captured(tables'[k].store[n])
  <2>1. CASE UNCHANGED tables
    BY <1>1, <2>1
  <2>2. ASSUME NEW d \in DOMAIN tables, FoundAt(tables, name, d),
               Captures(tables, name, d), tables' = AfterResolve(tables, name, d)
        PROVE  Captured(tables'[k].store[n])
    <3>1. /\ d \in 1..Len(tables) /\ Len(tables') = Len(tables)
          /\ \A j \in 1..d : tables'[j] = tables[j]
          /\ \A j \in d+1..Len(tables) :
                /\ tables'[j].store[name] = FreeSymbol(tables[j], name)
                /\ \A m \in Names \ {name} : tables'[j].store[m] = tables[j].store[m]
      BY <2>2, CaptureStep
    <3>2. k \in 1..d \/ k \in d+1..Len(tables)
      BY <1>1, <3>1
    <3>3. FreeSymbol(tables[k], name).scope = "FREE"
      BY DEF FreeSymbol, NewSymbol
    <3> QED BY <1>1, <3>1, <3>2, <3>3
  <2> QED BY <1>6, <2>1, <2>2 DEF Resolve, AfterResolve
<1>7. CASE UNCHANGED vars
  BY <1>1, <1>7 DEF vars
<1> QED BY <1>3, <1>4, <1>5, <1>6, <1>7 DEF Next

(* Resolving a name binds nothing: the symbols it adds are FREE.           *)
LEMMA ResolveShown ==
    ASSUME NoPrefixes, SafetyInv, NEW n \in Names, NEW d \in DOMAIN tables,
           FoundAt(tables, n, d), tables' = AfterResolve(tables, n, d)
    PROVE  View(tables') = View(tables)
<1>1. CASE ~Captures(tables, n, d)
  BY <1>1 DEF AfterResolve
<1>2. CASE Captures(tables, n, d)
  <2>1. /\ d \in 1..Len(tables) /\ Len(tables') = Len(tables)
        /\ \A j \in 1..d : tables'[j] = tables[j]
        /\ \A j \in d+1..Len(tables) :
              /\ tables[j].store[n] = NULL
              /\ tables'[j].store[n] = FreeSymbol(tables[j], n)
              /\ \A m \in Names \ {n} : tables'[j].store[m] = tables[j].store[m]
    BY <1>2, CaptureStep
  <2>2. tables \in Seq(Table) /\ Len(tables) \in Nat /\ DOMAIN tables = 1..Len(tables)
    BY DEF SafetyInv, TypeOK
  <2>3. tables[d].store[n] # NULL /\ tables[d].store[n].name = n
    BY DEF FoundAt, SafetyInv, Named
  <2>4. tables' \in Seq(Table)
    BY <1>2, <2>1, <2>2, <2>3, ResolveTables
  <2>5. ASSUME NEW k \in 1..Len(tables), NEW m \in Names
        PROVE  Binding(tables'[k].store[m]) = Binding(tables[k].store[m])
    <3>1. k \in 1..d \/ k \in d+1..Len(tables)
      BY <2>1, <2>2
    <3>2. Binding(FreeSymbol(tables[k], n)) = NULL /\ Binding(NULL) = NULL
      BY DEF FreeSymbol, NewSymbol, Binding, IsFree
    <3> QED BY <2>1, <3>1, <3>2
  <2>6. \A k \in 1..Len(tables) : Shown(tables'[k]) = Shown(tables[k])
    BY <2>5 DEF Shown
  <2>7. /\ IsSequence(View(tables)) /\ Len(View(tables)) = Len(tables)
        /\ \A k \in 1..Len(tables) : View(tables)[k] = Shown(tables[k])
    BY <2>2, ViewForm
  <2>8. /\ IsSequence(View(tables')) /\ Len(View(tables')) = Len(tables)
        /\ \A k \in 1..Len(tables) : View(tables')[k] = Shown(tables'[k])
    BY <2>1, <2>4, ViewForm
  <2> QED BY <2>6, <2>7, <2>8, SequencesEqual
<1> QED BY <1>1, <1>2

(* Following the free indices: there is one way to do it.                  *)
Outward(at, ts, s) ==
    [k \in 1..Len(ts) |-> IF k = Len(ts) THEN s
                          ELSE IF at[k+1].scope = "FREE"
                               THEN ts[k+1].free[at[k+1].index + 1]
                               ELSE at[k+1]]
IsOutward(at, ts, s) == at = Outward(at, ts, s)

LEMMA OneWayOut ==
    ASSUME NEW ts, Len(ts) \in Nat, NEW s, NEW f, NEW g,
           IsOutward(f, ts, s), IsOutward(g, ts, s)
    PROVE  f = g
<1> DEFINE L == Len(ts)
           Wrong == {i \in Nat : i < L /\ f[L - i] # g[L - i]}
<1>1. \A k \in 1..L : f[k] = Outward(f, ts, s)[k] /\ g[k] = Outward(g, ts, s)[k]
  BY DEF IsOutward
<1>2. ASSUME Wrong # {} PROVE FALSE
  <2>1. PICK i \in Wrong : \A j \in Wrong : i <= j
    <3>1. Wrong \subseteq Nat
      OBVIOUS
    <3> QED BY <1>2, <3>1, LeastNumber, Zenon
  <2>2. L - i \in 1..L
    BY <2>1
  <2>3. i # 0
    <3>1. CASE i = 0
      <4>1. L - i = L /\ L \in 1..L
        BY <2>2, <3>1
      <4>2. f[L] = s /\ g[L] = s
        BY <1>1, <4>1 DEF Outward
      <4> QED BY <2>1, <4>1, <4>2
    <3> QED BY <3>1
  <2>4. i - 1 \in Nat /\ i - 1 < L /\ i - 1 \notin Wrong /\ L - (i - 1) = (L - i) + 1
    BY <2>1, <2>3
  <2>5. f[(L - i) + 1] = g[(L - i) + 1] /\ L - i # L
    BY <2>1, <2>3, <2>4
  <2>6. f[L - i] = g[L - i]
    BY <1>1, <2>2, <2>5 DEF Outward
  <2> QED BY <2>1, <2>6
<1>3. ASSUME NEW k \in 1..L PROVE f[k] = g[k]
  <2>1. L - k \in Nat /\ L - k < L /\ L - (L - k) = k
    OBVIOUS
  <2> QED BY <1>2, <2>1
<1>4. f = [k \in 1..L |-> f[k]] /\ g = [k \in 1..L |-> g[k]]
  BY DEF IsOutward, Outward
<1> QED BY <1>3, <1>4

LEMMA FollowedIs ==
    ASSUME NEW ts, Len(ts) \in Nat, NEW s, NEW f, IsOutward(f, ts, s)
    PROVE  Followed(ts, s) = f
<1> DEFINE at == CHOOSE g : IsOutward(g, ts, s)
<1>1. Followed(ts, s) = at
  BY Zenon DEF Followed, IsOutward, Outward
<1>2. IsOutward(at, ts, s)
  OBVIOUS
<1> HIDE DEF at
<1> QED BY <1>1, <1>2, OneWayOut


(* The answer for a symbol of the innermost table.                         *)
AnswerOf(ts, s) ==
    LET d == Home(ts, s)
    IN  [name |-> s.name, depth |-> d, binding |-> Binding(Followed(ts, s)[d])]

AnswerTo(ts, r) ==
    CASE r = NULL -> NULL
      [] r # NULL /\ r.scope = "unresolved" -> [name |-> r.name, depth |-> 0, binding |-> NULL]
      [] OTHER -> AnswerOf(ts, r)

LEMMA AnswerIs == Answer = AnswerTo(tables, result) /\ Answer' = AnswerTo(tables', result')
BY DEF Answer, AnswerTo, AnswerOf

LEMMA AnswerForm ==
    ASSUME NEW ts, NEW r
    PROVE  /\ r = NULL => AnswerTo(ts, r) = NULL
           /\ \A n \in Names : r = Unresolved(n)
                => AnswerTo(ts, r) = [name |-> n, depth |-> 0, binding |-> NULL]
           /\ r \in Symbol => AnswerTo(ts, r) = AnswerOf(ts, r)
<1>1. ASSUME r = NULL PROVE AnswerTo(ts, r) = NULL
  BY <1>1 DEF AnswerTo
<1>2. ASSUME NEW n \in Names, r = Unresolved(n)
      PROVE  AnswerTo(ts, r) = [name |-> n, depth |-> 0, binding |-> NULL]
  <2>1. r # NULL /\ r.scope = "unresolved" /\ r.name = n
    BY <1>2, AnswerAssumption DEF Unresolved
  <2> QED BY <2>1 DEF AnswerTo
<1>3. ASSUME r \in Symbol PROVE AnswerTo(ts, r) = AnswerOf(ts, r)
  <2>1. r # NULL /\ r.scope # "unresolved"
    BY <1>3, SymbolFields DEF SymbolScope
  <2> QED BY <2>1 DEF AnswerTo
<1> QED BY <1>1, <1>2, <1>3

(* A global or a builtin is a symbol of the outermost table.               *)
LEMMA AnswerGlobal ==
    ASSUME NEW ts \in Seq(Table), ts # << >>, NEW s \in Symbol, s.scope \in {"GLOBAL", "BUILTIN"}
    PROVE  AnswerOf(ts, s) = [name |-> s.name, depth |-> 1, binding |-> Binding(s)]
<1> DEFINE f == [k \in 1..Len(ts) |-> s]
<1>1. Len(ts) \in Nat /\ Len(ts) > 0 /\ 1 \in 1..Len(ts)
  OBVIOUS
<1>2. IsOutward(f, ts, s)
  <2>1. \A k \in 1..Len(ts) : k # Len(ts) => f[k+1] = s
    BY <1>1
  <2>2. \A k \in 1..Len(ts) : Outward(f, ts, s)[k] = s
    BY <2>1 DEF Outward
  <2>3. Outward(f, ts, s) = [k \in 1..Len(ts) |-> Outward(f, ts, s)[k]]
    BY DEF Outward
  <2> HIDE DEF f
  <2>4. f = [k \in 1..Len(ts) |-> s]
    BY DEF f
  <2> QED BY <2>2, <2>3, <2>4 DEF IsOutward
<1> HIDE DEF f
<1>3. Followed(ts, s) = f
  BY <1>1, <1>2, FollowedIs
<1>4. Home(ts, s) = 1 /\ f[1] = s
  BY <1>1 DEF Home, f
<1> QED BY <1>3, <1>4 DEF AnswerOf

(* Any other symbol is the end of a chain of captures, and its answer is   *)
(* the local, or the function's name, where the chain starts.              *)
LEMMA AnswerChained ==
    ASSUME NEW ts \in Seq(Table), NEW n \in Names, NEW d \in 1..Len(ts), Chain(ts, n, d, Len(ts))
    PROVE  AnswerOf(ts, ts[Len(ts)].store[n])
             = [name |-> ts[Len(ts)].store[n].name, depth |-> d,
                binding |-> Binding(ts[d].store[n])]
<1> DEFINE L == Len(ts)
           s == ts[L].store[n]
           f == [k \in 1..L |-> IF k < d THEN ts[d].store[n] ELSE ts[k].store[n]]
<1>1. L \in Nat /\ L \in 1..L /\ d \in Nat /\ d <= L
  OBVIOUS
<1>2. /\ ts[d].store[n] # NULL /\ ts[d].store[n].scope \in {"LOCAL", "FUNCTION"}
      /\ \A j \in d+1..L : /\ ts[j].store[n].scope = "FREE" /\ ts[j].store[n] # NULL
                           /\ ts[j].free[ts[j].store[n].index + 1] = ts[j-1].store[n]
  BY DEF Chain, Root, Link, IsFree
<1>3. ASSUME NEW k \in 1..L PROVE f[k] = Outward(f, ts, s)[k]
  <2>1. CASE k = L
    BY <1>1, <2>1 DEF Outward
  <2>2. CASE k # L /\ k < d
    <3>1. k + 1 \in 1..L /\ k + 1 <= d
      BY <1>1, <2>2
    <3>2. f[k+1] = ts[d].store[n] /\ f[k] = ts[d].store[n]
      BY <1>1, <2>2, <3>1
    <3> QED BY <1>2, <2>2, <3>2 DEF Outward
  <2>3. CASE k # L /\ ~(k < d)
    <3>1. k + 1 \in d+1..L /\ (k + 1) - 1 = k /\ k + 1 \in 1..L
      BY <1>1, <2>3
    <3>2. f[k+1] = ts[k+1].store[n] /\ f[k] = ts[k].store[n]
      BY <1>1, <2>3, <3>1
    <3>3. f[k+1].scope = "FREE" /\ ts[k+1].free[f[k+1].index + 1] = ts[k].store[n]
      BY <1>2, <3>1, <3>2
    <3> HIDE DEF f
    <3> QED BY <2>3, <3>2, <3>3 DEF Outward
  <2> QED BY <2>1, <2>2, <2>3
<1>4. IsOutward(f, ts, s)
  <2>1. Outward(f, ts, s) = [k \in 1..L |-> Outward(f, ts, s)[k]]
    BY DEF Outward
  <2>2. f = [k \in 1..L |-> f[k]]
    OBVIOUS
  <2> HIDE DEF f
  <2> QED BY <1>3, <2>1, <2>2 DEF IsOutward
<1>5. f[d] = ts[d].store[n] /\ \A j \in d+1..L : f[j] = ts[j].store[n]
  BY <1>1
<1> HIDE DEF f
<1>6. Followed(ts, s) = f
  BY <1>1, <1>4, FollowedIs
<1>7. s.scope \notin {"GLOBAL", "BUILTIN"}
  <2>1. L = d \/ L \in d+1..L
    BY <1>1
  <2> QED BY <1>2, <2>1
<1>8. Home(ts, s) = d
  <2> DEFINE Defines(k) == /\ f[k].scope # "FREE"
                          /\ \A j \in k+1..L : f[j].scope = "FREE"
  <2>1. Defines(d)
    BY <1>2, <1>5
  <2>2. ASSUME NEW k \in 1..L, Defines(k) PROVE k = d
    <3>1. ~(k < d)
      <4>1. ASSUME k < d PROVE FALSE
        <5>1. d \in k+1..L
          BY <1>1, <4>1
        <5> QED BY <2>1, <2>2, <5>1
      <4> QED BY <4>1
    <3>2. ~(k > d)
      <4>1. ASSUME k > d PROVE FALSE
        <5>1. k \in d+1..L
          BY <1>1, <4>1
        <5> QED BY <2>1, <2>2, <5>1
      <4> QED BY <4>1
    <3> QED BY <1>1, <3>1, <3>2
  <2>3. Home(ts, s) = CHOOSE k \in 1..L : Defines(k)
    BY <1>6, <1>7 DEF Home
  <2> HIDE DEF Defines
  <2> QED BY <2>1, <2>2, <2>3
<1> QED BY <1>5, <1>6, <1>8 DEF AnswerOf


RefinementInv == LexicalInv /\ OutermostGlobals

LEMMA RefinementSafety == ASSUME NoPrefixes PROVE Spec => []RefinementInv
<1>1. Init => RefinementInv
  BY InitLexical, InitOutermost DEF RefinementInv
<1>2. RefinementInv /\ [Next]_vars => RefinementInv'
  <2> SUFFICES ASSUME RefinementInv, [Next]_vars PROVE RefinementInv'
    OBVIOUS
  <2>1. LexicalInv'
    BY Lexical_Step DEF RefinementInv
  <2>2. OutermostGlobals'
    BY NextOutermost DEF RefinementInv, LexicalInv
  <2> QED BY <2>1, <2>2 DEF RefinementInv
<1> QED BY <1>1, <1>2, PTL DEF Spec

(* A resolve answers with the innermost binding and the scope it was made  *)
(* in.                                                                     *)
IsAnswer(V, n, a) ==
    \/ \E d \in DOMAIN V :
          /\ V[d][n] # NULL
          /\ \A e \in d+1..Len(V) : V[e][n] = NULL
          /\ a = [name |-> n, depth |-> d, binding |-> V[d][n]]
    \/ /\ \A d \in DOMAIN V : V[d][n] = NULL
       /\ a = [name |-> n, depth |-> 0, binding |-> NULL]

(* Found through its chain of captures.                                    *)
LEMMA ChainAnswers ==
    ASSUME NEW ts \in Seq(Table), NEW n \in Names, NEW d \in 1..Len(ts),
           Chain(ts, n, d, Len(ts)), ts[Len(ts)].store[n].name = n
    PROVE  IsAnswer(View(ts), n, AnswerOf(ts, ts[Len(ts)].store[n]))
<1>1. AnswerOf(ts, ts[Len(ts)].store[n])
        = [name |-> n, depth |-> d, binding |-> Binding(ts[d].store[n])]
  BY AnswerChained
<1>2. /\ Len(View(ts)) = Len(ts) /\ DOMAIN View(ts) = 1..Len(ts)
      /\ \A k \in 1..Len(ts) : View(ts)[k][n] = Binding(ts[k].store[n])
  BY ViewForm, ViewAt
<1>3. Binding(ts[d].store[n]) # NULL
  <2>1. ts[d] \in Table /\ ts[d].store[n] # NULL
        /\ ts[d].store[n].scope \in {"LOCAL", "FUNCTION"}
    BY DEF Chain, Root
  <2> QED BY <2>1, StoreValue, BindingOf
<1>4. ASSUME NEW e \in d+1..Len(ts) PROVE View(ts)[e][n] = NULL
  <2>1. e \in 1..Len(ts) /\ IsFree(ts[e].store[n])
    BY DEF Chain, Link
  <2> QED BY <1>2, <2>1 DEF Binding
<1> QED BY <1>1, <1>2, <1>3, <1>4 DEF IsAnswer

LEMMA ResolveAnswers ==
    ASSUME NoPrefixes, RefinementInv, RefinementInv', NEW n \in Names, Resolve(n)
    PROVE  View(tables') = View(tables) /\ IsAnswer(View(tables), n, Answer')
<1>1. /\ tables \in Seq(Table) /\ Len(tables) \in Nat /\ Len(tables) > 0
      /\ DOMAIN tables = 1..Len(tables) /\ tables # << >>
      /\ tables' \in Seq(Table)
  BY OpenTables DEF RefinementInv, LexicalInv, SafetyInv, TypeOK
<1>2. /\ Len(View(tables)) = Len(tables) /\ DOMAIN View(tables) = 1..Len(tables)
      /\ \A k \in 1..Len(tables) : View(tables)[k][n] = Binding(tables[k].store[n])
  BY <1>1, ViewForm, ViewAt
<1>3. CASE NotFound(tables, n) /\ result' = Unresolved(n) /\ UNCHANGED tables
  <2>1. \A d \in 1..Len(tables) : View(tables)[d][n] = NULL
    BY <1>1, <1>2, <1>3 DEF NotFound, Binding
  <2>2. Answer' = [name |-> n, depth |-> 0, binding |-> NULL]
    BY <1>3, AnswerIs, AnswerForm
  <2> QED BY <1>2, <1>3, <2>1, <2>2 DEF IsAnswer
<1>4. ASSUME NEW d \in DOMAIN tables, FoundAt(tables, n, d),
             tables' = AfterResolve(tables, n, d), result' = Resolved(tables, n, d)
      PROVE  View(tables') = View(tables) /\ IsAnswer(View(tables), n, Answer')
  <2> DEFINE L == Len(tables)
             s == tables[d].store[n]
  <2>1. d \in 1..L /\ tables[d] \in Table /\ s # NULL
    BY <1>1, <1>4 DEF FoundAt
  <2>2. s \in Symbol /\ s.name = n /\ s.scope \in SymbolScope
    BY <2>1, StoreValue, SymbolFields DEF RefinementInv, LexicalInv, SafetyInv, Named
  <2>3. View(tables') = View(tables)
    BY <1>4, ResolveShown DEF RefinementInv, LexicalInv
  <2>4. CASE s.scope \in {"GLOBAL", "BUILTIN"}
    <3>1. d = 1
      BY <1>1, <2>1, <2>4 DEF RefinementInv, OutermostGlobals
    <3>2. ~Captures(tables, n, d)
      BY <2>4 DEF Captures
    <3>3. tables' = tables /\ result' = s
      BY <1>4, <3>2 DEF AfterResolve, Resolved
    <3>4. Answer' = AnswerOf(tables', s)
      BY <2>2, <3>3, AnswerIs, AnswerForm
    <3>5. AnswerOf(tables', s) = [name |-> n, depth |-> 1, binding |-> Binding(s)]
      BY <1>1, <2>2, <2>4, <3>3, AnswerGlobal
    <3>6. Binding(s) # NULL
      BY <2>2, <2>4, BindingOf
    <3>7. \A e \in d+1..L : View(tables)[e][n] = NULL
      <4>1. \A e \in d+1..L : e \in 1..L /\ tables[e].store[n] = NULL
        BY <1>4, <2>1 DEF FoundAt
      <4> QED BY <1>2, <4>1 DEF Binding
    <3> QED BY <1>1, <1>2, <2>1, <2>3, <3>1, <3>4, <3>5, <3>6, <3>7 DEF IsAnswer
  <2>5. CASE s.scope \notin {"GLOBAL", "BUILTIN"}
    <3> DEFINE r == tables'[L].store[n]
    <3>1. result' = r /\ Len(tables') = L /\ r \in Symbol /\ r.name = n
      <4>1. CASE Captures(tables, n, d)
        <5>1. Len(tables') = L /\ L \in d+1..L
              /\ tables'[L].store[n] = FreeSymbol(tables[L], n)
          <6>1. /\ Len(tables') = L
                /\ \A k \in d+1..L : tables'[k].store[n] = FreeSymbol(tables[k], n)
            BY <1>4, <4>1, CaptureStep DEF RefinementInv, LexicalInv
          <6>2. L \in d+1..L
            BY <1>1, <2>1, <4>1 DEF Captures
          <6> QED BY <6>1, <6>2
        <5>2. FreeSymbol(tables[L], n) \in Symbol /\ FreeSymbol(tables[L], n).name = n
          <6>1. tables[L] \in Table
            BY <1>1
          <6>2. FreeSymbol(tables[L], s.name) \in Symbol
            BY <2>2, <6>1, DefineFreeType
          <6> QED BY <2>2, <6>2 DEF FreeSymbol, NewSymbol
        <5> QED BY <1>4, <4>1, <5>1, <5>2 DEF Resolved
      <4>2. CASE ~Captures(tables, n, d)
        <5>1. d = L
          BY <1>1, <2>1, <2>5, <4>2 DEF Captures
        <5> QED BY <1>4, <2>2, <4>2, <5>1 DEF AfterResolve, Resolved
      <4> QED BY <4>1, <4>2
    <3>2. r.scope \in {"LOCAL", "FUNCTION", "FREE"}
      <4>1. CASE Captures(tables, n, d)
        <5>1. result' = FreeSymbol(tables[L], n)
          BY <1>4, <4>1 DEF Resolved
        <5>2. FreeSymbol(tables[L], n).scope = "FREE"
          BY DEF FreeSymbol, NewSymbol
        <5> QED BY <3>1, <5>1, <5>2
      <4>2. CASE ~Captures(tables, n, d)
        <5>1. result' = s
          BY <1>4, <4>2 DEF Resolved
        <5> QED BY <2>2, <2>5, <3>1, <5>1 DEF SymbolScope
      <4> QED BY <4>1, <4>2
    <3>3. r # NULL /\ L \in DOMAIN tables'
      BY <1>1, <3>1, SymbolFields
    <3>4. PICK e \in 1..L : Chain(tables', n, e, L)
      <4>1. CASE r.scope = "FREE"
        <5>1. CaptureChain'
          BY DEF RefinementInv, LexicalInv
        <5>2. \A k \in DOMAIN tables' : \A m \in Names :
                IsFree(tables'[k].store[m]) => \E e \in 1..k-1 : Chain(tables', m, e, k)
          BY <5>1 DEF CaptureChain, Chain, Root, Link
        <5>3. IsFree(r)
          BY <3>3, <4>1 DEF IsFree
        <5> QED BY <1>1, <3>3, <5>2, <5>3
      <4>2. CASE r.scope # "FREE"
        <5>1. Root(tables', n, L)
          BY <3>2, <3>3, <4>2 DEF Root
        <5>2. \A j \in L+1..L : FALSE
          BY <1>1
        <5> QED BY <1>1, <5>1, <5>2 DEF Chain
      <4> QED BY <4>1, <4>2
    <3>5. Answer' = AnswerOf(tables', r)
      <4>1. result' \in Symbol
        BY <3>1
      <4>2. Answer' = AnswerOf(tables', result')
        BY <4>1, AnswerIs, AnswerForm
      <4> QED BY <3>1, <4>2
    <3>6. IsAnswer(View(tables'), n, AnswerOf(tables', r))
      BY <1>1, <3>1, <3>4, ChainAnswers
    <3> QED BY <2>3, <3>5, <3>6
  <2> QED BY <2>4, <2>5
<1> QED BY <1>3, <1>4 DEF Resolve

LEMMA InitShown == Init => Lexical!Init
<1> SUFFICES ASSUME Init PROVE Lexical!Init
  OBVIOUS
<1>1. tables = <<BuiltinTable>> /\ result = NULL
  BY DEF Init
<1>2. ASSUME NEW n \in Names
      PROVE  Binding(BuiltinTable.store[n]) =
               IF BuiltinIndex[n] = NULL THEN NULL
               ELSE [kind |-> "BUILTIN", slot |-> BuiltinIndex[n]]
  <2> DEFINE b == BuiltinTable.store[n]
  <2>1. b = IF BuiltinIndex[n] = NULL THEN NULL ELSE NewSymbol(n, BuiltinIndex[n], "BUILTIN")
    BY DEF BuiltinTable
  <2>2. CASE BuiltinIndex[n] = NULL
    BY <2>1, <2>2 DEF Binding
  <2>3. CASE BuiltinIndex[n] # NULL
    <3>1. BuiltinIndex[n] \in Nat
      BY <2>3, BuiltinAssumption
    <3>2. b \in Symbol /\ b.scope = "BUILTIN" /\ b.index = BuiltinIndex[n]
      <4>1. b = NewSymbol(n, BuiltinIndex[n], "BUILTIN")
        BY <2>1, <2>3
      <4>2. NewSymbol(n, BuiltinIndex[n], "BUILTIN") \in Symbol
        BY <3>1, NewSymbolType DEF SymbolScope
      <4>3. b.scope = "BUILTIN" /\ b.index = BuiltinIndex[n]
        BY <4>1 DEF NewSymbol
      <4> QED BY <4>1, <4>2, <4>3
    <3> QED BY <2>3, <3>2, BindingOf
  <2> QED BY <2>2, <2>3
<1>3. Shown(BuiltinTable) = [n \in Names |-> IF BuiltinIndex[n] = NULL THEN NULL
                                           ELSE [kind |-> "BUILTIN", slot |-> BuiltinIndex[n]]]
  BY <1>2 DEF Shown
<1>4. View(tables) = <<Shown(BuiltinTable)>>
  <2>1. DOMAIN tables = 1..1 /\ tables[1] = BuiltinTable
    BY <1>1
  <2> QED BY <2>1 DEF View
<1>5. Answer = NULL
  BY <1>1 DEF Answer
<1> QED BY <1>3, <1>4, <1>5 DEF Lexical!Init, View, Shown


LEMMA NextShown ==
    ASSUME NoPrefixes, MaxDefinitions \in Nat
    PROVE  RefinementInv /\ RefinementInv' /\ [Next]_vars => [Lexical!Next]_(Lexical!vars)
<1> SUFFICES ASSUME RefinementInv, RefinementInv', [Next]_vars
             PROVE  [Lexical!Next]_(Lexical!vars)
  OBVIOUS
<1>1. SafetyInv /\ tables \in Seq(Table) /\ tables # << >> /\ Len(tables) \in Nat
  BY DEF RefinementInv, LexicalInv, SafetyInv, TypeOK
<1>2. /\ IsSequence(View(tables)) /\ Len(View(tables)) = Len(tables)
      /\ DOMAIN View(tables) = 1..Len(tables)
  BY <1>1, ViewForm
<1>3. result' = NULL => Answer' = NULL
  BY AnswerIs, AnswerForm
<1>4. ASSUME EnterScope PROVE Lexical!Open
  <2>1. PICK f \in Names \cup {NULL} : tables' = EnterTable(tables, f)
    BY <1>4 DEF EnterScope
  <2>2. View(tables') = Append(View(tables), [n \in Names |-> IF n = f THEN [kind |-> "FUNCTION", slot |-> 0]
                                                      ELSE NULL])
    BY <1>1, <2>1, OpenShown
  <2>3. Answer' = NULL
    BY <1>3, <1>4 DEF EnterScope
  <2> QED BY <2>2, <2>3, Zenon DEF Lexical!Open, View, Shown
<1>5. ASSUME LeaveScope PROVE Lexical!Close
  <2>1. Len(tables) > 1 /\ tables' = LeaveTable(tables) /\ Answer' = NULL
    BY <1>3, <1>5 DEF LeaveScope
  <2>2. View(tables') = SubSeq(View(tables), 1, Len(View(tables)) - 1)
    BY <1>1, <2>1, CloseShown
  <2>3. Len(View(tables)) > 1
    BY <1>2, <2>1
  <2> QED BY <2>1, <2>2, <2>3, Zenon DEF Lexical!Close, Lexical!Current, View, Shown
<1>6. ASSUME NEW n \in Names, DefineName(n) PROVE Lexical!Bind(n)
  <2> DEFINE slot == tables[Len(tables)].num
             new == [kind |-> DefinitionKind, slot |-> slot]
  <2>1. tables' = Define(tables, n) /\ slot < MaxDefinitions /\ Answer' = NULL
    BY <1>3, <1>6 DEF DefineName
  <2>2. slot \in 0..MaxDefinitions
    <3>1. tables[Len(tables)] \in Table
      BY <1>1
    <3> QED BY <2>1, <3>1 DEF Table
  <2>3. /\ \A m \in Names \ {n} : View(tables)[Len(View(tables))][m] # new
        /\ View(tables)' = [View(tables) EXCEPT ![Len(View(tables))][n] = new]
    BY <1>1, <2>1, BindShown
  <2> HIDE DEF slot
  <2> QED BY <2>1, <2>2, <2>3, Zenon
          DEF Lexical!Bind, Lexical!Unused, Lexical!Current, View, Shown, DefinitionKind
<1>7. ASSUME NEW n \in Names, Resolve(n) PROVE Lexical!Lookup(n)
  <2>1. View(tables') = View(tables) /\ IsAnswer(View(tables), n, Answer')
    BY <1>7, ResolveAnswers
  <2>2. View(tables)' = View(tables)
    BY <2>1 DEF View, Shown
  <2>3. IsAnswer(View(tables), n, Answer') /\ View(tables)' = View(tables) => Lexical!Lookup(n)
    BY Zenon DEF Lexical!Lookup, Lexical!Current, View, Shown, IsAnswer
  <2> QED BY <2>1, <2>2, <2>3
<1>8. CASE UNCHANGED vars
  <2>1. View(tables') = View(tables) /\ Answer' = Answer
    BY <1>8, AnswerIs DEF vars
  <2> QED BY <2>1 DEF Lexical!vars, View, Shown
<1> QED BY <1>4, <1>5, <1>6, <1>7, <1>8 DEF Next, Lexical!Next

(* What the compiler relies on: with its tries, its free symbols and its   *)
(* slots, the symbol table is a table of nested scopes.                    *)
THEOREM LexicalScoping ==
    ASSUME NoPrefixes, MaxDefinitions \in Nat PROVE Spec => ImplementsLexicalScope
<1>1. RefinementInv /\ RefinementInv' /\ [Next]_vars => [Lexical!Next]_(Lexical!vars)
  BY NextShown
<1> QED BY <1>1, InitShown, RefinementSafety, PTL DEF Spec, ImplementsLexicalScope, Lexical!Spec
=============================================================================
