---------------------------- MODULE MCPrograms ----------------------------
(***************************************************************************)
(* Programs for the pipeline, as nodes named by their text: control flow   *)
(* and scopes, data and references, nested objects, operators, builtins.   *)
(***************************************************************************)
EXTENDS Soundness

I == Simple("int")
D == Simple("double")
B == Simple("bool")
T == Simple("string")
V == Simple("void")
P == Simple("P")
S == Simple("S")
A == ArrayOf(I, 2)
M == ArrayOf(A, 2)

Literals ==
  {<<ToString(n), Literal(Integer(n))>> : n \in 0 .. 7}
  \cup {<<"true", Literal(Bool(TRUE))>>, <<"1.5", Literal(Double(3))>>,
        <<"'z'", Literal(String(NotANumber))>>, <<"-7", Unary("-", "7")>>,
        <<"-1", Unary("-", "1")>>, <<"-7-1", Binary("-7", "-", "1")>>}
Variables ==
  {<<v, Variable(v)>> : v \in {"x", "b", "i", "n", "t", "d", "a", "m", "p", "q",
                               "ps", "s", "r", "l"}}
Calls ==
  {<<f \o "()", Call(f, <<>>)>> :
     f \in {"get", "hide", "inc", "out", "grow", "mk", "renew", "blank", "input",
            "deep", "spin", "skip"}}
  \cup {<<f \o "(" \o v \o ")", Call(f, <<v>>)>> :
          f \in {"down", "first", "set", "take", "stoi", "stod", "itod", "dtoi",
                 "print_int", "print_dbl", "print_bool", "print_str", "srand", "sqrt"},
          v \in {"1", "4", "n-1", "x", "d", "a", "p", "s", "m[0]", "true", "'z'",
                 "input()"}}
  \cup {<<"rand_int(1,2)", Call("rand_int", <<"1", "2">>)>>,
        <<"rand_int(2,1)", Call("rand_int", <<"2", "1">>)>>,
        <<"rand_dbl(1.5,d)", Call("rand_dbl", <<"1.5", "d">>)>>}

Compounds ==
  {<<"n-1", Binary("n", "-", "1")>>, <<"n<1", Binary("n", "<", "1")>>,
   <<"n+down", Binary("n", "+", "down(n-1)")>>,
   <<"i<2", Binary("i", "<", "2")>>, <<"i++", Postfix("i", "++")>>,
   <<"true+1", Binary("true", "+", "1")>>,
   <<"true<1", Binary("true", "<", "1")>>, <<"-'z'", Unary("-", "'z'")>>,
   <<"t==1", Binary("t", "==", "1")>>, <<"x<2", Binary("x", "<", "2")>>,
   <<"1/x", Binary("1", "/", "x")>>, <<"1/x==1", Binary("1/x", "==", "1")>>,
   <<"x<2&&1/x==1", Binary("x<2", "&&", "1/x==1")>>,
   <<"{1,2}", InitializerList(<<"1", "2">>)>>,
   <<"{2}", InitializerList(<<"2">>)>>, <<"{p,p}", InitializerList(<<"p", "p">>)>>,
   <<"{1,1.5}", InitializerList(<<"1", "1.5">>)>>,
   <<"{{1,2},{2}}", InitializerList(<<"{1,2}", "{2}">>)>>,
   <<"{{1,2},a}", InitializerList(<<"{1,2}", "a">>)>>,
   <<"a[0]", Index("a", "0")>>, <<"a[x]", Index("a", "x")>>,
   <<"a[2]", Index("a", "2")>>, <<"a[grow()]", Index("a", "grow()")>>,
   <<"a[get()]", Index("a", "get()")>>,
   <<"m[0]", Index("m", "0")>>, <<"m[1]", Index("m", "1")>>,
   <<"m[0][1]", Index("m[0]", "1")>>,
   <<"m[0][renew()]", Index("m[0]", "renew()")>>,
   <<"ps[0]", Index("ps", "0")>>, <<"ps[1]", Index("ps", "1")>>,
   <<"ps[0].x", MemberAccess("ps[0]", "x")>>,
   <<"s.p", MemberAccess("s", "p")>>, <<"s.p.x", MemberAccess("s.p", "x")>>,
   <<"s.a", MemberAccess("s", "a")>>, <<"s.a[0]", Index("s.a", "0")>>,
   <<"s.a[renew()]", Index("s.a", "renew()")>>,
   <<"l.next", MemberAccess("l", "next")>>,
   <<"l.next[0]", Index("l.next", "0")>>,
   <<"mk().x", MemberAccess("mk()", "x")>>, <<"p.x", MemberAccess("p", "x")>>,
   <<"q.y", MemberAccess("q", "y")>>, <<"-p.x", Unary("-", "p.x")>>,
   <<"a[0]&7", Binary("a[0]", "&", "7")>>, <<"a[0]<<1", Binary("a[0]", "<<", "1")>>}

Sets(target, values) ==
  {<<target \o "=" \o v, Assignment(target, "=", v)>> : v \in values}

Steps ==
  {<<"++x", Unary("++", "x")>>, <<"x/=0", Assignment("x", "/", "0")>>,
   <<"++a[x]", Unary("++", "a[x]")>>, <<"p.x--", Postfix("p.x", "--")>>,
   <<"++m[0][1]", Unary("++", "m[0][1]")>>,
   <<"p.x+=2", Assignment("p.x", "+", "2")>>, <<"x~=1", Assignment("x", "~", "1")>>,
   <<"x+=d", Assignment("x", "+", "d")>>, <<"d%=2", Assignment("d", "%", "2")>>,
   <<"x|=a[0]<<1", Assignment("x", "|", "a[0]<<1")>>}
  \cup Sets("x", {"get()", "a[0]&7", "grow()", "first(a)", "first(m[0])", "stoi('z')",
                  "stoi(input())", "dtoi(d)", "rand_int(1,2)", "rand_int(2,1)"})
  \cup Sets("d", {"itod(x)", "stod('z')", "sqrt(d)", "rand_dbl(1.5,d)"})
  \cup Sets("a", {"{1,2}", "m[0]"}) \cup Sets("a[0]", {"2"}) \cup Sets("a[2]", {"1"})
  \cup Sets("a[grow()]", {"1"}) \cup Sets("a[get()]", {"1"}) \cup Sets("a[x]", {"grow()"})
  \cup Sets("m", {"{{1,2},a}"}) \cup Sets("m[1]", {"a"}) \cup Sets("m[0][1]", {"2"})
  \cup Sets("m[0][renew()]", {"1"}) \cup Sets("s.a[renew()]", {"1"})
  \cup Sets("s.a[0]", {"2"}) \cup Sets("s.a", {"a"}) \cup Sets("s.p", {"p"})
  \cup Sets("s.p.x", {"1"}) \cup Sets("r", {"s"}) \cup Sets("s", {"r", "take(s)", "blank()"})
  \cup Sets("ps[1]", {"ps[0]"}) \cup Sets("ps[0].x", {"2"})
  \cup Sets("p", {"s.p", "ps[0]"}) \cup Sets("p.x", {"1"}) \cup Sets("q", {"p"})
  \cup Sets("l.next", {"a"}) \cup Sets("l.next[0]", {"l"})

(* Operators on the values where they are interesting.                     *)
Operands == {"-7-1", "-7", "-1", "0", "1", "3", "7", "1.5"}
Operators == <<"+", "-", "*", "/", "%", "==", "!=", "<", "<=", ">", ">=",
               "&", "|", "^", "<<", ">>">>
Operations(o) == {<<a \o o \o b, Binary(a, o, b)>> : a \in Operands, b \in Operands}

VarStatements ==
  {<<"int x = 0;", VarDeclaration(I, "x", "0")>>,
   <<"int x = 1;", VarDeclaration(I, "x", "1")>>,
   <<"int x = get();", VarDeclaration(I, "x", "get()")>>,
   <<"bool x = true;", VarDeclaration(B, "x", "true")>>,
   <<"string x = 'z';", VarDeclaration(T, "x", "'z'")>>,
   <<"int y = x;", VarDeclaration(I, "y", "x")>>,
   <<"int t = i;", VarDeclaration(I, "t", "i")>>,
   <<"int i = 0;", VarDeclaration(I, "i", "0")>>,
   <<"double d = 1.5;", VarDeclaration(D, "d", "1.5")>>,
   <<"int a[2];", VarDeclaration(A, "a", None)>>,
   <<"int a[2] = {1,2};", VarDeclaration(A, "a", "{1,2}")>>,
   <<"int a[] = {1,2};", VarDeclaration(ArrayOf(I, 0), "a", "{1,2}")>>,
   <<"int m[2][2];", VarDeclaration(M, "m", None)>>,
   <<"int m[][2] = {{1,2},a};", VarDeclaration(ArrayOf(A, 0), "m", "{{1,2},a}")>>,
   <<"int c[2][2] = {{1,2},{2}};", VarDeclaration(M, "c", "{{1,2},{2}}")>>,
   <<"int k[2][2] = m;", VarDeclaration(M, "k", "m")>>,
   <<"struct P p;", VarDeclaration(P, "p", None)>>,
   <<"struct P p = {2};", VarDeclaration(P, "p", "{2}")>>,
   <<"struct P p = {1,2};", VarDeclaration(P, "p", "{1,2}")>>,
   <<"struct P p = {1,1.5};", VarDeclaration(P, "p", "{1,1.5}")>>,
   <<"struct P q = mk();", VarDeclaration(P, "q", "mk()")>>,
   <<"struct P q = p;", VarDeclaration(P, "q", "p")>>,
   <<"struct P ps[2] = {p,p};", VarDeclaration(ArrayOf(P, 2), "ps", "{p,p}")>>,
   <<"struct W w = {p,p};", VarDeclaration(Simple("W"), "w", "{p,p}")>>,
   <<"struct S s;", VarDeclaration(S, "s", None)>>,
   <<"struct S r;", VarDeclaration(S, "r", None)>>,
   <<"struct N l;", VarDeclaration(Simple("N"), "l", None)>>,
   <<"struct U u[2];", VarDeclaration(ArrayOf(Simple("U"), 2), "u", None)>>,
   <<"struct U u[2] = x;", VarDeclaration(ArrayOf(Simple("U"), 2), "u", "x")>>,
   <<"struct U u[2] = t;", VarDeclaration(ArrayOf(Simple("U"), 2), "u", "t")>>}
  \cup {<<"int " \o v \o " = 0;", VarDeclaration(I, v, "0")>> :
          v \in {"u", "v", "w", "z"}}

Others ==
  {<<"return;", Return(None)>>, <<"return 0;", Return("0")>>,
   <<"return 1;", Return("1")>>, <<"return t;", Return("t")>>,
   <<"return x;", Return("x")>>, <<"return s;", Return("s")>>,
   <<"return get();", Return("get()")>>, <<"return a[0];", Return("a[0]")>>,
   <<"return n+down(n-1);", Return("n+down")>>, <<"{++x;}", Block(<<"++x;">>)>>,
   <<"{return 1;}", Block(<<"return 1;">>)>>,
   <<"{return t;}", Block(<<"return t;">>)>>,
   <<"{bool x=true; get();}", Block(<<"bool x = true;", "get();">>)>>,
   <<"{string x='z'; inc();}", Block(<<"string x = 'z';", "inc();">>)>>,
   <<"if (n<1) {return 1;}", If("n<1", "{return 1;}", None)>>,
   <<"if (t==1) {return t;}", If("t==1", "{return t;}", None)>>,
   <<"if (x<2&&1/x==1) {++x;} else {out}",
     If("x<2&&1/x==1", "{++x;}", "{out();}")>>,
   <<"{out();}", Block(<<"out();">>)>>,
   <<"while (x<2) {++x;}", While("x<2", "{++x;}")>>,
   <<"{int t=i; if (t==1) {return t;}}",
     Block(<<"int t = i;", "if (t==1) {return t;}">>)>>,
   <<"for (int i=0; i<2; i++) {...}",
     For("int i = 0;", "i<2", "i++", "{int t=i; if (t==1) {return t;}}")>>,
   <<"for (;;) {return 1;}", For(None, None, None, "{return 1;}")>>,
   <<"for (return 1; x<2;) {++x;}", For("return 1;", "x<2", None, "{++x;}")>>,
   <<"if (x<2) {return 1;}", If("x<2", "{return 1;}", None)>>,
   <<"for (if (x<2) {return 1;} ...", For("if (x<2) {return 1;}", "x<2", "++x", "{out();}")>>,
   <<"return deep();", Return("deep()")>>, <<"{spin();}", Block(<<"spin();">>)>>,
   <<"while (true) {spin();}", While("true", "{spin();}")>>}

Function(type, name, params, statements) ==
  {<<name, FuncDeclaration(type, name, params, name \o "{}")>>,
   <<name \o "{}", Block(statements)>>}

Functions ==
  Function(I, "get", <<>>, <<"return x;">>)
  \cup Function(I, "inc", <<>>, <<"++x;", "return x;">>)
  \cup Function(I, "hide", <<>>, <<"bool x = true;", "return get();">>)
  \cup Function(I, "out", <<>>,
                <<"for (int i=0; i<2; i++) {...}", "for (;;) {return 1;}">>)
  \cup Function(I, "down", <<Param(I, "n")>>,
                <<"if (n<1) {return 1;}", "return n+down(n-1);">>)
  \cup Function(P, "mk", <<>>, <<>>)
  \cup Function(I, "grow", <<>>,
                <<"int u = 0;", "int v = 0;", "int w = 0;", "int z = 0;", "return 0;">>)
  \cup Function(I, "first", <<Param(A, "a")>>, <<"++a[x];", "return a[0];">>)
  \cup Function(V, "set", <<Param(P, "p")>>, <<"p.x=1;", "return;">>)
  \cup Function(I, "renew", <<>>, <<"m={{1,2},a};", "s=r;", "return 1;">>)
  \cup Function(S, "blank", <<>>, <<>>)
  \cup Function(S, "take", <<Param(S, "s")>>, <<"s.p.x=1;", "return s;">>)
  \cup Function(I, "stoi", <<>>, <<"return 1;">>)
  \cup Function(I, "deep", <<>>, <<"return deep();">>)
  \cup Function(I, "spin", <<>>, <<"while (true) {spin();}">>)
  \cup Function(I, "skip", <<>>, <<"for (return 1; x<2;) {++x;}",
                                  "for (if (x<2) {return 1;} ...", "return x;">>)
  \cup {<<"get again", FuncDeclaration(I, "get", <<>>, "inc{}")>>}

Structs ==
  {<<"struct P", StructDeclaration("P", <<Param(I, "x"), Param(I, "y")>>)>>,
   <<"struct S", StructDeclaration("S", <<Param(P, "p"), Param(A, "a")>>)>>,
   <<"struct W", StructDeclaration("W", <<Param(P, "l"), Param(P, "r")>>)>>,
   <<"struct N", StructDeclaration("N", <<Param(I, "v"),
                   Param(ArrayOf(Simple("N"), 2), "next")>>)>>}

Library ==
  {<<"builtin " \o f[1], BuiltinDef(f[2], f[1], f[3])>> :
     f \in {<<"print_int", V, <<Param(I, "x")>>>>, <<"print_dbl", V, <<Param(D, "x")>>>>,
            <<"print_bool", V, <<Param(B, "x")>>>>, <<"print_str", V, <<Param(T, "s")>>>>,
            <<"input", T, <<>>>>, <<"sqrt", D, <<Param(D, "x")>>>>,
            <<"dtoi", I, <<Param(D, "x")>>>>, <<"stoi", I, <<Param(T, "s")>>>>,
            <<"itod", D, <<Param(I, "x")>>>>, <<"stod", D, <<Param(T, "s")>>>>,
            <<"srand", V, <<Param(I, "x")>>>>,
            <<"rand_int", I, <<Param(I, "a"), Param(I, "b")>>>>,
            <<"rand_dbl", D, <<Param(D, "a"), Param(D, "b")>>>>}}

(* The table of the rows <<name, node>>, with a statement for every        *)
(* expression; many small tables are faster to make than a large one.      *)
Table(rows) ==
  [n \in {r[1] : r \in rows} |-> (CHOOSE r \in rows : r[1] = n)[2]]
Expressions(rows) ==
  Table(rows \cup {<<r[1] \o ";", ExpressionStmt(r[1])>> : r \in rows})
Nodes ==
  LET merge(all, table) == all @@ table
      operations == [i \in DOMAIN Operators |-> Expressions(Operations(Operators[i]))]
  IN FoldLeft(merge, <<>>,
       <<Expressions(Literals \cup Variables), Expressions(Calls), Expressions(Compounds),
         Expressions(Steps), Table(VarStatements), Table(Others), Table(Functions),
         Table(Structs), Table(Library)>> \o operations)

---------------------------------------------------------------------------

ControlSources ==
  LET body == {"++x;", "x/=0;", "x=get();", "hide();", "out();", "down(1);",
               "down(4);", "return 1;", "return;", "t==1;", "bool x = true;",
               "{bool x=true; get();}", "{string x='z'; inc();}",
               "int y = x;", "while (x<2) {++x;}",
               "if (x<2&&1/x==1) {++x;} else {out}"}
  IN {<<g, "get", "inc", "out", "down", "hide">> \o s :
        g \in {"int x = 0;", "int x = 1;", "int x = get();"}, s \in BoundedSeq(body, 2)}
     \cup {<<"int x = 0;", "get", "get again", "get();">>,
           <<"stoi", "int x = 0;", "++x;">>}

(* Calls without end, in a recursion and in a loop, and a return where a   *)
(* for drops it.                                                           *)
EndlessSources ==
  LET body == {"++x;", "out();", "deep();", "spin();", "skip();",
               "for (return 1; x<2;) {++x;}", "for (if (x<2) {return 1;} ..."}
  IN {<<g, "out", "deep", "spin", "skip">> \o s :
        g \in {"int x = 0;", "int x = 1;"}, s \in BoundedSeq(body, 2)}

DataSources ==
  LET used == {"a[0]=2;", "a[2]=1;", "a[grow()]=1;", "a[get()]=1;", "a[x]=grow();",
               "x=grow();", "++a[x];", "p.x--;", "p.x+=2;", "x~=1;", "x+=d;", "d%=2;",
               "x=a[0]&7;", "x|=a[0]<<1;", "q=p;", "x=first(a);", "set(p);",
               "x=stoi('z');", "d=itod(x);", "print_int(x);", "mk().x;", "q.y;",
               "p.x=1;"}
      source(a, p, q, s) ==
        <<"int x = 0;", "struct P", "get", "mk", "grow", "first", "set", a, p,
          "double d = 1.5;", q>> \o s
  IN {source(a, p, q, <<u>>) :
        a \in {"int a[2];", "int a[2] = {1,2};", "int a[] = {1,2};"},
        p \in {"struct P p;", "struct P p = {2};", "struct P p = {1,2};",
               "struct P p = {1,1.5};"},
        q \in {"struct P q = mk();", "struct P q = p;"}, u \in used}
     \cup {source("int a[2] = {1,2};", "struct P p = {1,2};", "struct P q = p;",
                   <<u, w>>) : u, w \in used}

ObjectSources ==
  LET used == {"m[0][1]=2;", "m[0][renew()]=1;", "s.a[renew()]=1;", "s.a[0]=2;",
               "s.a=a;", "s.p=p;", "s.p.x=1;", "r=s;", "s=take(s);", "s=blank();",
               "ps[1]=ps[0];", "ps[0].x=2;", "p=s.p;", "p=ps[0];", "-p.x;",
               "m[1]=a;", "a=m[0];", "a[0]=2;", "x=first(m[0]);", "++m[0][1];",
               "struct W w = {p,p};", "int k[2][2] = m;", "struct U u[2];",
               "int c[2][2] = {{1,2},{2}};", "struct U u[2] = x;", "struct U u[2] = t;"}
      cyclic == {"l.next=a;", "l.next[0]=l;", "a[0]=2;", "p.x=1;"}
      source(m, u) ==
        <<"struct P", "struct S", "struct W", "int x = 0;", "int a[2] = {1,2};", m,
          "struct P p = {1,2};", "struct P ps[2] = {p,p};", "struct S s;", "struct S r;",
          "first", "renew", "blank", "take">> \o u
  IN {source("int m[2][2];", <<u>>) : u \in used}
     \cup {source("int m[][2] = {{1,2},a};", u) : u \in BoundedSeq(used, 2)}
     \cup {<<"struct P", "struct N", "struct P p = {1,2};", "int a[2] = {1,2};",
             "struct N l;">> \o u : u \in BoundedSeq(cyclic, 3)}

OperatorSources ==
  {<<a \o o \o b \o ";">> : a \in Operands, o \in Range(Operators), b \in Operands}
  \cup {<<"true+1;">>, <<"-'z';">>, <<"true<1;">>}

BuiltinSources ==
  LET used == {"x=stoi('z');", "x=stoi(input());", "x=dtoi(d);", "x=rand_int(1,2);",
               "x=rand_int(2,1);", "d=itod(x);", "d=stod('z');", "d=sqrt(d);",
               "d=rand_dbl(1.5,d);", "print_int(x);", "print_dbl(d);",
               "print_bool(true);", "print_str('z');", "srand(x);"}
  IN {<<"int x = 0;", "double d = 1.5;", u, v>> : u, v \in used}

(* TLC evaluates a definition once, and a substituted constant every time; *)
(* the LETs keep its coverage report from unfolding the table at each use. *)
MCAst == LET nodes == Nodes IN nodes
MCBuiltins == LET library == {r[1] : r \in Library} IN library
MCControl == LET sources == ControlSources IN sources
MCData == LET sources == DataSources IN sources
AllSources ==
  LET sources == ControlSources \cup EndlessSources \cup DataSources \cup ObjectSources
                 \cup OperatorSources \cup BuiltinSources
  IN sources
=============================================================================
