------------------------------ MODULE Syntax ------------------------------
(***************************************************************************)
(* The abstract syntax the parser builds (include/ast/expression.hpp,      *)
(* include/ast/statement.hpp) and the types it mentions (core/type).  A    *)
(* program is a table from nodes to node records; a node names its         *)
(* children, so a table is shared by every program built from it.  Every   *)
(* record has the same fields; the ones a kind has no use for are blank.   *)
(* The builtins are nodes too, outside every program.                      *)
(***************************************************************************)
EXTENDS Naturals, Sequences, FiniteSets

None == "none"  \* an absent optional child

---------------------------------------------------------------------------
(* A type (core/type) is a scalar or a struct by its name, in an array for *)
(* each of dims, the outermost first.  A struct type that has been given   *)
(* its fields also keeps the structs it was found inside: a field that     *)
(* leads back to one of them is left without a type.  They are no part of  *)
(* the type's identity.                                                    *)

Scalar == {"int", "double", "bool", "string"}

TypeSet == [base : STRING, dims : Seq(Nat), seen : SUBSET STRING]

Simple(base) == [base |-> base, dims |-> <<>>, seen |-> {}]
ArrayOf(type, size) == [type EXCEPT !.dims = <<size>> \o @]
Element(type) == [type EXCEPT !.dims = Tail(@)]
Unknown == Simple("unknown")

IsArray(type) == type.dims # <<>>
IsStruct(type) ==
  ~ IsArray(type) /\ type.base \notin Scalar \cup {"void", "unknown"}

(* Faulty: every scalar is numeric.                                        *)
IsScalar(type) == ~ IsArray(type) /\ type.base \in Scalar

IsNumeric(type) == ~ IsArray(type) /\ type.base \in {"int", "double"}
SameType(s, t) == s.base = t.base /\ s.dims = t.dims

---------------------------------------------------------------------------
(* Expressions.                                                            *)

Blank == [kind |-> None, name |-> None, op |-> None, kids |-> <<>>,
          value |-> None, type |-> None, params |-> <<>>]

Literal(value) == [Blank EXCEPT !.kind = "literal", !.value = value]
Variable(name) == [Blank EXCEPT !.kind = "variable", !.name = name]
Binary(left, op, right) ==
  [Blank EXCEPT !.kind = "binary", !.op = op, !.kids = <<left, right>>]
Assignment(target, op, value) ==
  [Blank EXCEPT !.kind = "assignment", !.op = op, !.kids = <<target, value>>]
Unary(op, operand) ==
  [Blank EXCEPT !.kind = "unary", !.op = op, !.kids = <<operand>>]
Postfix(operand, op) ==
  [Blank EXCEPT !.kind = "postfix", !.op = op, !.kids = <<operand>>]
Call(callee, args) ==
  [Blank EXCEPT !.kind = "call", !.name = callee, !.kids = args]
InitializerList(elements) ==
  [Blank EXCEPT !.kind = "list", !.kids = elements]
Index(object, index) ==
  [Blank EXCEPT !.kind = "index", !.kids = <<object, index>>]
MemberAccess(object, member) ==
  [Blank EXCEPT !.kind = "member", !.name = member, !.kids = <<object>>]

(* Statements.  A while is a loop without initializer and increment.       *)

ExpressionStmt(expr) ==
  [Blank EXCEPT !.kind = "expression", !.kids = <<expr>>]
VarDeclaration(type, name, initializer) ==
  [Blank EXCEPT !.kind = "var", !.type = type, !.name = name,
                !.kids = <<initializer>>]
Block(statements) == [Blank EXCEPT !.kind = "block", !.kids = statements]
For(initializer, condition, increment, block) ==
  [Blank EXCEPT !.kind = "for",
                !.kids = <<initializer, condition, increment, block>>]
While(condition, block) ==
  [Blank EXCEPT !.kind = "while", !.kids = <<None, condition, None, block>>]
If(condition, then_block, else_block) ==
  [Blank EXCEPT !.kind = "if", !.kids = <<condition, then_block, else_block>>]
Return(value) == [Blank EXCEPT !.kind = "return", !.kids = <<value>>]
(* Parameters and fields are sequences of [name, type].                    *)
Param(type, name) == [name |-> name, type |-> type]

FuncDeclaration(type, name, params, block) ==
  [Blank EXCEPT !.kind = "func", !.type = type, !.name = name,
                !.params = params, !.kids = <<block>>]
StructDeclaration(name, fields) ==
  [Blank EXCEPT !.kind = "struct", !.name = name, !.params = fields]
BuiltinDef(type, name, params) ==
  [Blank EXCEPT !.kind = "builtin", !.type = type, !.name = name,
                !.params = params]

---------------------------------------------------------------------------
(* What the parser guarantees of a table: each kind of node has the        *)
(* children that it should.  A body or branch is what statement() reads,   *)
(* which is no declaration.                                                *)

ExpressionKinds == {"literal", "variable", "binary", "assignment", "unary",
                    "postfix", "call", "list", "index", "member"}
BranchKinds == {"expression", "block", "while", "for", "if", "return"}
StatementKinds == BranchKinds \cup {"var", "func", "struct"}

OfKind(ast, kinds) == {n \in DOMAIN ast : ast[n].kind \in kinds}
Optional(nodes) == nodes \cup {None}

Children(ast, kind) ==
  LET Expr == OfKind(ast, ExpressionKinds)
      Branch == OfKind(ast, BranchKinds)
      First == OfKind(ast, BranchKinds \cup {"var"})
  IN CASE kind \in {"literal", "variable", "struct", "builtin"} -> {<<>>}
       [] kind \in {"unary", "postfix", "member", "expression"} -> [1 .. 1 -> Expr]
       [] kind \in {"binary", "assignment", "index"} -> Expr \X Expr
       [] kind \in {"call", "list"} -> Seq(Expr)
       [] kind \in {"var", "return"} -> [1 .. 1 -> Optional(Expr)]
       [] kind = "block" -> Seq(OfKind(ast, StatementKinds))
       [] kind = "while" -> {None} \X Expr \X {None} \X Branch
       [] kind = "for" ->
            Optional(First) \X Optional(Expr) \X Optional(Expr) \X Branch
       [] kind = "if" -> Expr \X Branch \X Optional(Branch)
       [] kind = "func" -> [1 .. 1 -> OfKind(ast, {"block"})]

(* A type as it is written: no struct has its fields yet.                  *)
WrittenTypes == [base : STRING \ {"unknown"}, dims : Seq(Nat), seen : {{}}]

WellFormed(ast) ==
  \A n \in DOMAIN ast :
     LET e == ast[n]
     IN /\ n # None
        /\ e.kind \in ExpressionKinds \cup StatementKinds \cup {"builtin"}
        /\ e.kids \in Children(ast, e.kind)
        /\ e.params \in Seq([name : STRING, type : WrittenTypes])
        /\ e.kind \in {"var", "func", "builtin"} => e.type \in WrittenTypes
        /\ e.kind = "struct" => e.name \in STRING \ (Scalar \cup {"void", "unknown"})
        /\ e.kind = "literal" => e.value.t \in Scalar
===========================================================================
