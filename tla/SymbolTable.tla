---------------------------- MODULE SymbolTable ----------------------------
(***************************************************************************)
(* What core::symbol_registry promises its clients: after build() it is a  *)
(* map from names to their first declarations, and resolve_type() fails    *)
(* exactly for a struct that has no finite layout, because an undeclared   *)
(* struct or the struct itself is among what it contains.  answer is what  *)
(* the last operation returned: the entry, or the parts without a type.    *)
(***************************************************************************)
EXTENDS Types

CONSTANTS Programs,  \* sequences of top-level statements
          Name,      \* the names and the types that are asked for
          Asked

VARIABLES program, built, sink, answer

vars == <<program, registry_, built, sink, answer>>

Init ==
  /\ program \in Programs
  /\ registry_ = <<>> /\ built = FALSE /\ sink = <<>> /\ answer = {}

(* Every declaration of a name that is taken is reported, in order.        *)
Build ==
  /\ ~ built /\ built'
  /\ registry_' = RegistryOf(program)
  /\ sink' = LET reported == SelectSeq([i \in DOMAIN program |-> i],
                                       LAMBDA i : i \in Redeclared(program))
             IN [k \in DOMAIN reported |-> Ast[program[reported[k]]].name]
  /\ UNCHANGED <<program, answer>>

Find(name) ==
  /\ built
  /\ answer' = {<<registry_[n]>> : n \in DOMAIN registry_ \cap {name}}
  /\ UNCHANGED <<program, registry_, built, sink>>

---------------------------------------------------------------------------

(* The structs that a struct contains: those of its fields, not counting   *)
(* arrays, and what they contain.                                          *)
Structs == {n \in DOMAIN registry_ : HasStruct(n)}
Members(name) == IF HasStruct(name) THEN Fields(name) ELSE <<>>
Direct(name) == {p.type.base : p \in {q \in Range(Members(name)) : IsStruct(q.type)}}
Contained(name) ==
  LET more(names, i) == names \cup UNION {Direct(n) : n \in names}
  IN FoldLeft(more, Direct(name), [i \in 1 .. Cardinality(Structs) |-> i])

(* A struct has a layout inside some others if it and what it contains is  *)
(* declared, is none of those, and does not contain itself.                *)
HasLayout(name, inside) ==
  \A s \in {name} \cup Contained(name) :
     HasStruct(s) /\ s \notin inside /\ s \notin Contained(s)

(* The declared types on the way from a type through the fields of path.   *)
Way(type, path) ==
  LET step(way, field) ==
        Append(way, SelectSeq(Members(Last(way).base), LAMBDA p : p.name = field)[1].type)
  IN FoldLeft(step, <<type>>, path)

IsPath(type, path) ==
  \A k \in DOMAIN path :
     \E p \in Range(Members(Last(Way(type, SubSeq(path, 1, k - 1))).base)) : p.name = path[k]

(* The paths at whose end a type is missing.  Of an array of arrays, only  *)
(* the innermost is.                                                       *)
Paths(type) ==
  LET names == {p.name : p \in UNION {Range(Members(n)) : n \in Structs}}
  IN {path \in BoundedSeq(names, Cardinality(Structs)) : IsPath(type, path)}
Missing(type) ==
  LET layout(way, k) == way[k].base \in Scalar
                        \/ HasLayout(way[k].base, {way[j].base : j \in 1 .. k - 1})
      ends(way) == ~ layout(way, Len(way)) /\ \A k \in 1 .. Len(way) - 1 : layout(way, k)
      arrays(t) == [i \in 1 .. Len(t.dims) - 1 |-> "[]"]
  IN {path \o arrays(Last(Way(type, path))) :
        path \in {p \in Paths(type) : ends(Way(type, p))}}

ResolveType(type) ==
  /\ built
  /\ answer' = Missing(type)
  /\ UNCHANGED <<program, registry_, built, sink>>

Next ==
  \/ Build
  \/ \E name \in Name : Find(name)
  \/ \E type \in Asked : ResolveType(type)

Spec == Init /\ [][Next]_vars
===========================================================================
