------------------------------- MODULE Types -------------------------------
(***************************************************************************)
(* Struct types and the declarations that give them their fields:          *)
(* symbol_registry::resolve_type() (core/symbol/symbol_registry.cpp).      *)
(* registry_ maps a name to the node that declares it.  resolve_type()     *)
(* replaces a struct type by its fields, those of its fields, and so on;   *)
(* here a struct type stays a name and FieldType() gives its fields.       *)
(***************************************************************************)
EXTENDS Naturals, SequencesExt, Syntax

CONSTANTS Ast,      \* [node name -> node record]
          Builtins  \* the nodes of the library functions

VARIABLE registry_

Kids(n) == Range(Ast[n].kids) \ {None}

(* The nodes of a program.                                                 *)
Within[n \in DOMAIN Ast] == {n} \cup UNION {Within[k] : k \in Kids(n)}
Text(prog) == UNION {Within[prog[i]] : i \in DOMAIN prog}

(* A node is above its children, as in every tree.                         *)
Height(n) == Cardinality(Within[n])
IsTree(n) ==
  /\ Height(n) \in 1 .. Cardinality(DOMAIN Ast)
  /\ \A k \in Kids(n) : Height(k) < Height(n)

HasStruct(name) ==
  name \in DOMAIN registry_ /\ Ast[registry_[name]].kind = "struct"
Fields(name) == Ast[registry_[name]].params

(* Faulty: a struct stays in the set when its fields are done.             *)
ResolvingNeverErased(name, i, resolving) ==
  resolving \cup {name} \cup {Fields(name)[j].type.base : j \in 1 .. i - 1}

(* The structs that are being resolved when field i of name is.            *)
Resolving(name, i, resolving) == resolving \cup {name}

(* Whether the struct x[1] can be resolved inside the structs x[2]: it is  *)
(* declared, not one of them, and so are the structs its fields are.  A    *)
(* field that is an array never makes it fail.                             *)
Resolves[x \in STRING \X SUBSET STRING] ==
  LET name == x[1]
      inner(i) == Resolves[<<Fields(name)[i].type.base,
                               Resolving(name, i, x[2])>>]
  IN /\ HasStruct(name)
     /\ name \notin x[2]
     /\ \A i \in DOMAIN Fields(name) : IsStruct(Fields(name)[i].type) => inner(i)

(* resolve_type_impl(): an array of a struct that fails is unknown, and an *)
(* array of such arrays an array of unknown.                               *)
Resolve(type, resolving) ==
  CASE type.base \in Scalar \cup {"void", "unknown"} -> type
    [] type.base \notin Scalar \cup {"void", "unknown"} ->
         IF Resolves[<<type.base, resolving>>]
         THEN [type EXCEPT !.seen = resolving]
         ELSE [Unknown EXCEPT !.dims = IF IsArray(type) THEN Front(type.dims)
                                       ELSE <<>>]

(* resolve_type(): the fields a type already has are resolved again and    *)
(* stay what they are.                                                     *)
Resolved(type) == Resolve(type, type.seen)

(* The type of field i of a resolved struct type.                          *)
FieldType(type, i) ==
  Resolve(Fields(type.base)[i].type, Resolving(type.base, i, type.seen))

(* field_index(): 0 if there is no field of that name.                     *)
FieldIndex(type, name) ==
  SelectInSeq(Fields(type.base), LAMBDA f : f.name = name)

---------------------------------------------------------------------------
(* What build() makes of a program.                                        *)

DeclaredAt(prog) == {i \in DOMAIN prog : Ast[prog[i]].kind \in {"func", "struct"}}

(* The entries that were there before statement i: builtins come first.    *)
Taken(prog, i) ==
  {Ast[n].name : n \in Builtins}
  \cup {Ast[prog[j]].name : j \in DeclaredAt(prog) \cap 1 .. i - 1}

(* The statements that declare a new name; the others are reported.        *)
Added(prog) == {i \in DeclaredAt(prog) : Ast[prog[i]].name \notin Taken(prog, i)}
Redeclared(prog) == DeclaredAt(prog) \ Added(prog)

RegistryOf(prog) ==
  LET nodes == Builtins \cup {prog[i] : i \in Added(prog)}
  IN [name \in {Ast[n].name : n \in nodes} |->
        CHOOSE n \in nodes : Ast[n].name = name]
============================================================================
