----------------------------- MODULE MCChecker -----------------------------
(***************************************************************************)
(* Programs for the checker alone, right and wrong: uses before and after  *)
(* a declaration, after the scope of it, shadowing, loops, operands of     *)
(* every type, structs, and calls.                                         *)
(***************************************************************************)
EXTENDS TypeChecker

I == Simple("int")
D == Simple("double")
B == Simple("bool")
V == Simple("void")
P == Simple("P")
S == Simple("S")
A == ArrayOf(I, 2)
M == ArrayOf(A, 2)
Lit(type) == Literal([t |-> type])

Expressions ==
  {<<"1", Lit("int")>>, <<"1.5", Lit("double")>>, <<"true", Lit("bool")>>,
   <<"x", Variable("x")>>, <<"y", Variable("y")>>, <<"a", Variable("a")>>,
   <<"p", Variable("p")>>, <<"x+y", Binary("x", "+", "y")>>,
   <<"x<1", Binary("x", "<", "1")>>, <<"x&1", Binary("x", "&", "1")>>,
   <<"x&&y", Binary("x", "&&", "y")>>, <<"x=y", Assignment("x", "=", "y")>>,
   <<"1=x", Assignment("1", "=", "x")>>, <<"x+=1", Assignment("x", "+", "1")>>,
   <<"1+=x", Assignment("1", "+", "x")>>, <<"-x", Unary("-", "x")>>,
   <<"!x", Unary("!", "x")>>, <<"~x", Unary("~", "x")>>,
   <<"++1", Unary("++", "1")>>, <<"x++", Postfix("x", "++")>>,
   <<"{}", InitializerList(<<>>)>>, <<"{1,1}", InitializerList(<<"1", "1">>)>>,
   <<"{1,1.5}", InitializerList(<<"1", "1.5">>)>>,
   <<"{1,1,1}", InitializerList(<<"1", "1", "1">>)>>,
   <<"a[x]", Index("a", "x")>>, <<"x[1]", Index("x", "1")>>,
   <<"p.x", MemberAccess("p", "x")>>, <<"p.z", MemberAccess("p", "z")>>,
   <<"x.x", MemberAccess("x", "x")>>, <<"f(x)", Call("f", <<"x">>)>>,
   <<"f()", Call("f", <<>>)>>, <<"P(x)", Call("P", <<"x">>)>>,
   <<"none(x)", Call("nothing", <<"x">>)>>, <<"sqrt(x)", Call("sqrt", <<"x">>)>>,
   <<"{{1,1},{1,1}}", InitializerList(<<"{1,1}", "{1,1}">>)>>,
   <<"{{1,1},{1,1,1}}", InitializerList(<<"{1,1}", "{1,1,1}">>)>>,
   <<"m", Variable("m")>>, <<"s", Variable("s")>>,
   <<"m[x]", Index("m", "x")>>, <<"m[x][1]", Index("m[x]", "1")>>,
   <<"a=m[x]", Assignment("a", "=", "m[x]")>>, <<"m=a", Assignment("m", "=", "a")>>,
   <<"s.p", MemberAccess("s", "p")>>, <<"s.p.x", MemberAccess("s.p", "x")>>,
   <<"s.n", MemberAccess("s", "n")>>, <<"s.p=p", Assignment("s.p", "=", "p")>>,
   <<"s.n=p", Assignment("s.n", "=", "p")>>, <<"++s.p.x", Unary("++", "s.p.x")>>,
   <<"h(s.n,y)", Call("h", <<"s.n", "y">>)>>, <<"h(x,y)", Call("h", <<"x", "y">>)>>,
   <<"{s.n,y}", InitializerList(<<"s.n", "y">>)>>}

Used == {"x+y", "x<1", "x&1", "x&&y", "x=y", "1=x", "x+=1", "1+=x", "-x", "!x",
         "~x", "++1", "x++", "a[x]", "x[1]", "p.x", "p.z", "x.x", "f(x)", "f()",
         "P(x)", "none(x)", "sqrt(x)", "m[x][1]", "a=m[x]", "m=a", "s.p=p", "s.n=p",
         "++s.p.x", "h(s.n,y)", "h(x,y)", "{s.n,y}"}

Statements ==
  {<<"int x = 1;", VarDeclaration(I, "x", "1")>>,
   <<"int x = x+y;", VarDeclaration(I, "x", "x+y")>>,
   <<"int y = 1;", VarDeclaration(I, "y", "1")>>,
   <<"bool y = true;", VarDeclaration(B, "y", "true")>>,
   <<"bool x = x<1;", VarDeclaration(B, "x", "x<1")>>,
   <<"void y;", VarDeclaration(V, "y", None)>>,
   <<"int y = 1.5;", VarDeclaration(I, "y", "1.5")>>,
   <<"int a[] = {1,1};", VarDeclaration(ArrayOf(I, 0), "a", "{1,1}")>>,
   <<"int a[] = {};", VarDeclaration(ArrayOf(I, 0), "a", "{}")>>,
   <<"struct N a[2];", VarDeclaration(ArrayOf(Simple("N"), 2), "a", None)>>,
   <<"struct N a[2] = y;", VarDeclaration(ArrayOf(Simple("N"), 2), "a", "y")>>,
   <<"int m[][2] = {{1,1},{1,1}};", VarDeclaration(ArrayOf(A, 0), "m", "{{1,1},{1,1}}")>>,
   <<"int m[2][2] = {{1,1},{1,1,1}};", VarDeclaration(M, "m", "{{1,1},{1,1,1}}")>>,
   <<"struct S s;", VarDeclaration(S, "s", None)>>,
   <<"struct T s;", VarDeclaration(Simple("T"), "s", None)>>,
   <<"struct N p;", VarDeclaration(Simple("N"), "p", None)>>,
   <<"struct P p = {1,1};", VarDeclaration(P, "p", "{1,1}")>>,
   <<"struct P p = {1,1.5};", VarDeclaration(P, "p", "{1,1.5}")>>,
   <<"struct P p = {1,1,1};", VarDeclaration(P, "p", "{1,1,1}")>>,
   <<"{int y=1; x+y;}", Block(<<"int y = 1;", "x+y;">>)>>,
   <<"{x+y;}", Block(<<"x+y;">>)>>,
   <<"{bool x = x<1;}", Block(<<"bool x = x<1;">>)>>,
   <<"while (x<1) {int y}", While("x<1", "{int y=1; x+y;}")>>,
   <<"while (y) {x+y}", While("y", "{x+y;}")>>,
   <<"for (int x=1; x<1; x++) {int y}",
     For("int x = 1;", "x<1", "x++", "{int y=1; x+y;}")>>,
   <<"for (int y=1; x<1; x++) {x+y}", For("int y = 1;", "x<1", "x++", "{x+y;}")>>,
   <<"for (;;) {x+y}", For(None, None, None, "{x+y;}")>>,
   <<"if (x<1) {int y} else {x+y}", If("x<1", "{int y=1; x+y;}", "{x+y;}")>>,
   <<"if (x) {x+y}", If("x", "{x+y;}", None)>>, <<"return;", Return(None)>>,
   <<"return x;", Return("x")>>, <<"return y;", Return("y")>>,
   <<"return p;", Return("p")>>,
   <<"int f(int y)", FuncDeclaration(I, "f", <<Param(I, "y")>>, "f{}")>>,
   <<"f{}", Block(<<"bool x = x<1;", "return y;">>)>>,
   <<"void g(int y, int y)",
     FuncDeclaration(V, "g", <<Param(I, "y"), Param(I, "y")>>, "g{}")>>,
   <<"{void g(int y, int y)}", Block(<<"void g(int y, int y)">>)>>,
   <<"g{}", Block(<<"{x+y;}", "return;">>)>>,
   <<"struct P", StructDeclaration("P", <<Param(I, "x"), Param(I, "y")>>)>>,
   <<"struct Q", StructDeclaration("Q", <<Param(I, "x"), Param(Simple("N"), "n"),
                                          Param(I, "x")>>)>>,
   <<"struct S", StructDeclaration("S", <<Param(P, "p"), Param(A, "a"),
                                          Param(ArrayOf(S, 2), "n")>>)>>,
   <<"struct T", StructDeclaration("T", <<Param(P, "p"), Param(A, "a"),
                                          Param(ArrayOf(P, 2), "n")>>)>>,
   <<"int h(int x, int y)",
     FuncDeclaration(I, "h", <<Param(I, "x"), Param(I, "y")>>, "g{}")>>,
   <<"builtin sqrt", BuiltinDef(D, "sqrt", <<Param(D, "x")>>)>>}

Table(rows) ==
  <<>> @@ [n \in {r[1] : r \in rows} |-> (CHOOSE r \in rows : r[1] = n)[2]]

Nodes == Table(Expressions \cup Statements
               \cup {<<m \o ";", ExpressionStmt(m)>> : m \in Used})

(* Environments, with and without x and y, in and out of scope.            *)
Before == {<<"int x = 1;", "int y = 1;">>, <<"int x = 1;", "bool y = true;">>,
           <<"int x = 1;">>, <<"int x = x+y;">>, <<"int y = 1;">>, <<"{int y=1; x+y;}", "int x = 1;">>}
Tried == {m \o ";" : m \in Used} \cup
  {"int y = 1;", "bool x = x<1;", "void y;", "int y = 1.5;", "int a[] = {1,1};",
   "int a[] = {};", "struct N a[2];", "struct N a[2] = y;", "struct N p;", "struct P p = {1,1};",
   "struct P p = {1,1.5};", "struct P p = {1,1,1};", "{int y=1; x+y;}", "{x+y;}",
   "{bool x = x<1;}", "while (x<1) {int y}", "while (y) {x+y}",
   "for (int x=1; x<1; x++) {int y}", "for (int y=1; x<1; x++) {x+y}",
   "for (;;) {x+y}", "if (x<1) {int y} else {x+y}", "if (x) {x+y}", "return;", "return x;",
   "struct Q", "struct S", "struct S s;", "int m[][2] = {{1,1},{1,1}};",
   "int m[2][2] = {{1,1},{1,1,1}};", "void g(int y, int y)",
   "{void g(int y, int y)}"}
After == {"x+y;", "p.x;", "return y;", "{bool x = x<1;}"}

Sources ==
  {b \o <<"struct P", "int f(int y)", c, d>> :
     b \in Before, c \in Tried, d \in After}
  \cup {<<"struct P">> \o s \o
           <<"int x = 1;", "struct P p = {1,1};", "int a[] = {1,1};",
             "int m[][2] = {{1,1},{1,1}};", "int h(int x, int y)", c, d>> :
          s \in {<<"struct S", "struct S s;">>, <<"struct T", "struct T s;">>},
          c, d \in Tried}

(* TLC evaluates a definition once, and a substituted constant every time; *)
(* the LETs keep its coverage report from unfolding the table at each use. *)
MCAst == LET nodes == Nodes IN nodes
MCBuiltins == {"builtin sqrt"}
MCPrograms == LET sources == Sources IN sources
=============================================================================
