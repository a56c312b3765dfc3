----------------------------- MODULE MCParser -----------------------------
(***************************************************************************)
(* Texts for the parser: programs written from trees, the same programs    *)
(* with one token removed, replaced or inserted, and all short texts over  *)
(* the tokens that open, close and separate statements.                    *)
(***************************************************************************)
EXTENDS Grammar

X == Open("variable")
Num == Leaf("literal", "num")
Binary(l, op, r) == Node("binary", op, <<l, r>>)
Assigned(l, op, r) == Node("assignment", op, <<l, r>>)
Prefixed(op, e) == Node("unary", op, <<e>>)
Suffixed(e, op) == Node("postfix", op, <<e>>)
Call(args) == Node("call", "", args)
List(elements) == Node("list", "", elements)
Index(e, i) == Node("index", "", <<e, i>>)
Member(e) == Node("member", "", <<e>>)

Ops == DOMAIN InfixTable
SomeOps == {"||", "&&", "==", "<<", "-", "*"}

Atoms == {X, Num, Leaf("literal", "str"), Leaf("literal", "true")}
Small ==
  {X, Binary(X, "-", Num), Assigned(X, "=", Num), Prefixed("-", X),
   Prefixed("++", X), Suffixed(X, "++"), Call(<<>>), Index(X, Num), Member(X)}

TwoOperators ==
  {Binary(Binary(X, p, Num), q, X) : p, q \in Ops}
    \cup {Binary(X, p, Binary(Num, q, X)) : p, q \in Ops}
ThreeOperators ==
  {Binary(Binary(X, p, X), q, Binary(X, r, X)) : p, q, r \in SomeOps}
Nested ==
  UNION {{Prefixed("!", e), Suffixed(e, "--"), Index(e, X), Index(X, e), Member(e),
          Call(<<e>>), Call(<<X, e>>), Assigned(X, "+=", e), Assigned(e, "=", X),
          Binary(e, "<", X), Binary(X, "<", e)} : e \in Small}
Assignments == {Assigned(X, op, Assigned(X, "=", X)) : op \in AssignmentOperators}

Expressions == Atoms \cup Small \cup TwoOperators \cup ThreeOperators \cup Nested \cup Assignments

IntType == Leaf("type", "int")
StructType == Leaf("type", "struct")
Array(op, type) == Node("array", op, <<type>>)
Types == {IntType, StructType, Leaf("type", "void"), Array("num", IntType), Array("", StructType),
          Array("num", Array("", IntType))}
Stmt(e) == Node("expression", "", <<e>>)
Var(type, init) == Node("var", "", <<type>> \o init)
Block(stmts) == Node("block", "", stmts)
While(body) == Node("while", "", <<X, body>>)
For(i, c, n, body) == Node("for", "", <<i, c, n, body>>)
If(branches) == Node("if", "", <<X>> \o branches)
Return(value) == Node("return", "", <<value>>)
Func(type, params, body) == Node("func", "", <<type>> \o params \o <<body>>)
StructDecl(fields) == Node("struct", "", fields)

Flat == {Stmt(X), Var(IntType, <<>>), Return(Absent), Block(<<>>)}
Bodies == {Stmt(X), Block(<<Var(IntType, <<Num>>), Stmt(X)>>), Return(X)}

(* The statement before an else must not be an if without one.             *)
Ifs(bodies) == {If(<<b>>) : b \in bodies} \cup {If(<<b, c>>) : b, c \in bodies}
Statements ==
  {Stmt(e) : e \in Expressions} \cup {Var(t, <<>>) : t \in Types}
    \cup {Var(t, <<i>>) : t \in Types, i \in {X, Assigned(X, "=", X), List(<<>>),
                                              List(<<Num, List(<<X>>)>>)}}
    \cup {Stmt(Call(<<List(<<X, Num>>)>>))}
    \cup {While(b) : b \in Bodies} \cup Ifs(Bodies)
    \cup {If(<<i>>) : i \in Ifs({Stmt(X)})}
    \cup {If(<<If(<<Stmt(X), Stmt(X)>>), Return(X)>>), If(<<Stmt(X), If(<<Stmt(X)>>)>>)}
    \cup {For(i, c, n, Stmt(X)) : i \in {Absent, Stmt(X), Var(IntType, <<Num>>)},
                                  c \in {Absent, X}, n \in {Absent, Suffixed(X, "++")}}
    \cup {Return(v) : v \in {Absent, X, Binary(X, "-", X)}}
    \cup {Func(IntType, ps, Block(b)) : ps \in {<<>>, <<IntType>>, <<StructType, Array("", IntType)>>},
                                    b \in {<<>>, <<Return(X)>>}}
    \cup {StructDecl(fs) : fs \in {<<>>, <<IntType>>, <<Array("num", IntType), StructType>>}}
    \cup Flat \cup {Block(<<s, t>>) : s, t \in Flat}

Program(statements) == Node("program", "", statements)
MCPrograms ==
  {Program(<<>>)} \cup {Program(<<s>>) : s \in Statements}
    \cup {Program(<<s, t>>) : s, t \in Flat}

Seeds ==
  {Block(<<Stmt(X), Var(IntType, <<Num>>)>>), Func(IntType, <<IntType>>, Block(<<Return(X)>>)),
   If(<<Block(<<Stmt(X)>>), Stmt(X)>>), StructDecl(<<Array("num", IntType)>>),
   For(Var(IntType, <<Num>>), X, Suffixed(X, "++"), Block(<<>>)),
   Var(Array("num", IntType), <<List(<<Num, X>>)>>), While(Block(<<Stmt(Call(<<X, Num>>))>>)),
   Stmt(Assigned(Index(X, Num), "=", Binary(X, "-", Member(X))))}

Intruders == {";", "{", "}", "(", ")", "[", ",", "id", "int", "else",
              "huge", "zero", "bad_str"}
Broken ==
  UNION {LET s == Unparse(seed) \o <<"id", ";">>
         IN  {RemoveAt(s, i) : i \in DOMAIN s}
               \cup {ReplaceAt(s, i, t) : i \in DOMAIN s, t \in Intruders}
               \cup {InsertAt(s, i, t) : i \in DOMAIN s, t \in Intruders} : seed \in Seeds}

Brackets == {";", "{", "}", "(", "id", "int"}
MCSources ==
  LET sources == Broken \cup UNION {[1..n -> Brackets] : n \in 0..5}
  IN  sources
============================================================================
