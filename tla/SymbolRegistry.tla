--------------------------- MODULE SymbolRegistry ---------------------------
(***************************************************************************)
(* core::symbol_registry (core/symbol/symbol_registry.cpp).  build() fills *)
(* a vector, one statement at a time, and sorts it by name; find() is a    *)
(* binary search; resolve_type() calls find() for every struct it meets.   *)
(***************************************************************************)
EXTENDS SequencesExt, Syntax

CONSTANTS Ast,       \* [node name -> node record]
          Library,   \* the nodes of core::builtins, in their order
          Programs,  \* sequences of top-level statements
          Name,      \* the names in lexicographic order
          Asked      \* types

VARIABLES program, added,  \* the number of statements that are done
          entries_,        \* <<name, node>>
          sorted,          \* whether build() has returned
          sink, answer

vars == <<program, added, entries_, sorted, sink, answer>>

Entry(node) == [name |-> Ast[node].name, node |-> node]

Init ==
  /\ program \in Programs /\ added = 0
  /\ entries_ = [i \in DOMAIN Library |-> Entry(Library[i])]
  /\ sorted = FALSE /\ sink = <<>> /\ answer = {}

Taken(node) == \E i \in DOMAIN entries_ : entries_[i].name = Ast[node].name

AddAstEntry ==
  LET node == program[added + 1]
      declares == Ast[node].kind \in {"func", "struct"}
  IN /\ added < Len(program)
     /\ added' = added + 1
     /\ \/ declares /\ Taken(node)
             /\ sink' = Append(sink, Ast[node].name) /\ UNCHANGED entries_
        \/ declares /\ ~ Taken(node)
             /\ entries_' = Append(entries_, Entry(node)) /\ UNCHANGED sink
        \/ ~ declares /\ UNCHANGED <<entries_, sink>>
     /\ UNCHANGED <<program, sorted, answer>>

Before(name, other) == SelectInSeq(Name, LAMBDA n : n = name)
                       < SelectInSeq(Name, LAMBDA n : n = other)

Sort ==
  /\ added = Len(program) /\ ~ sorted
  /\ entries_' = SortSeq(entries_, LAMBDA e, f : Before(e.name, f.name))
  /\ sorted' = TRUE
  /\ UNCHANGED <<program, added, sink, answer>>

---------------------------------------------------------------------------

(* std::ranges::lower_bound on a vector that is sorted.                    *)
LowerBound(name) ==
  1 + Cardinality({i \in DOMAIN entries_ : Before(entries_[i].name, name)})

(* find(): 0 is end().                                                     *)
Found(name) ==
  LET it == LowerBound(name)
  IN IF it \in DOMAIN entries_ /\ entries_[it].name = name THEN it ELSE 0

(* Bound: find() and resolve_type() are const, so a client that has an     *)
(* answer asks no more.                                                    *)
Asking == sorted /\ answer = {}

Find(name) ==
  /\ Asking
  /\ answer' = {<<entries_[i].node>> : i \in {Found(name)} \ {0}}
  /\ UNCHANGED <<program, added, entries_, sorted, sink>>

(* What find() finds, and the types that resolve_type() makes of it.       *)
Table ==
  [name \in {n \in Range(Name) : Found(n) # 0} |-> entries_[Found(name)].node]
T == INSTANCE Types WITH registry_ <- Table, Builtins <- Range(Library)

(* The paths through the fields of a resolved type to types it misses.     *)
Missing[type \in TypeSet] ==
  IF type.base = "unknown" THEN {[i \in DOMAIN type.dims |-> "[]"]}
  ELSE UNION {{<<T!Fields(type.base)[i].name>> \o path : path \in Missing[T!FieldType(type, i)]} :
              i \in IF type.base \in Scalar THEN {} ELSE DOMAIN T!Fields(type.base)}

ResolveType(type) ==
  /\ Asking
  /\ answer' = Missing[T!Resolved(type)]
  /\ UNCHANGED <<program, added, entries_, sorted, sink>>

Next ==
  \/ AddAstEntry
  \/ Sort
  \/ \E i \in DOMAIN Name : Find(Name[i])
  \/ \E type \in Asked : ResolveType(type)

Spec == Init /\ [][Next]_vars

---------------------------------------------------------------------------

(* The loop, the sort and the binary search amount to a map from names to  *)
(* first declarations, and the recursion of resolve_type() with its set of *)
(* structs in progress to the existence of a layout                        *)
(* (symbol_registry.hpp:56-91; symbol_registry.cpp:22-109).                *)
Promise ==
  INSTANCE SymbolTable
    WITH registry_ <- IF sorted THEN Table ELSE <<>>, built <- sorted,
         sink <- IF sorted THEN sink ELSE <<>>, Name <- Range(Name),
         Builtins <- Range(Library)
ImplementsSymbolTable == Promise!Spec
=============================================================================
