----------------------------- MODULE MCRegistry -----------------------------
(***************************************************************************)
(* Three structs with every combination of a few field types, and all ways *)
(* for functions, structs and builtins to compete for names.               *)
(***************************************************************************)
EXTENDS SymbolRegistry

I == Simple("int")
FieldTypes ==
  [t \in {"int", "A", "B", "C", "D", "A[]", "C[]", "B[][]"} |->
     CASE t = "int" -> I
       [] t = "A[]" -> ArrayOf(Simple("A"), 2)
       [] t = "C[]" -> ArrayOf(Simple("C"), 2)
       [] t = "B[][]" -> ArrayOf(ArrayOf(Simple("B"), 2), 2)
       [] OTHER -> Simple(t)]

Label(name, types) == name \o FoldLeft(LAMBDA text, t : text \o " " \o t, "", types)
Structs(name, types, n) ==
  {<<Label(name, s), StructDeclaration(name, [i \in DOMAIN s |-> Param(FieldTypes[s[i]], <<"x", "y">>[i])])>> :
     s \in BoundedSeq(types, n)}
OfA == Structs("A", {"int", "A", "B", "B[][]", "C[]"}, 2)
OfB == Structs("B", {"A", "C", "A[]", "C[]"}, 2)
OfC == Structs("C", {"A", "B", "D", "A[]"}, 1)

Others ==
  {<<"f()", FuncDeclaration(I, "f", <<>>, "{}")>>,
   <<"sqrt()", FuncDeclaration(I, "sqrt", <<>>, "{}")>>,
   <<"A()", FuncDeclaration(I, "A", <<>>, "{}")>>,
   <<"struct f", StructDeclaration("f", <<>>)>>,
   <<"struct exp", StructDeclaration("exp", <<>>)>>,
   <<"int x;", VarDeclaration(I, "x", None)>>,
   <<"builtin exp", BuiltinDef(I, "exp", <<>>)>>,
   <<"builtin sqrt", BuiltinDef(I, "sqrt", <<>>)>>}
Table_(rows) == [n \in {r[1] : r \in rows} |-> (CHOOSE r \in rows : r[1] = n)[2]]
Nodes == Table_(OfA \cup OfB \cup OfC \cup Others)

Sources ==
  {<<a[1], b[1]>> \o c : a \in OfA, b \in OfB, c \in {<<>>} \cup {<<r[1]>> : r \in OfC}}
  \cup BoundedSeq({"A", "A A", "f()", "sqrt()", "A()", "struct f", "struct exp", "int x;"}, 3)

MCAst == LET nodes == Nodes IN nodes
MCPrograms == LET sources == Sources IN sources
MCLibrary == <<"builtin sqrt", "builtin exp">>
MCName == <<"A", "B", "C", "D", "exp", "f", "sqrt">>
MCAsked == {Simple("A"), ArrayOf(Simple("A"), 2), ArrayOf(ArrayOf(Simple("B"), 2), 2), Simple("f")}
=============================================================================
