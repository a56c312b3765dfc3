---------------------------- MODULE TypeChecker ----------------------------
(***************************************************************************)
(* The type checker (semantics/type_check.cpp).  Expressions are typed by  *)
(* a recursive function over the node table; statements are a machine      *)
(* whose stack todo holds the check() calls and scope_guards that are      *)
(* still to run, the next one last.                                        *)
(***************************************************************************)
EXTENDS ScopeEntries, Types

CONSTANT Programs  \* sequences of top-level statements

ASSUME AstAssumption ==
  /\ WellFormed(Ast) /\ IsFiniteSet(DOMAIN Ast) /\ \A n \in DOMAIN Ast : IsTree(n)
  /\ Programs \subseteq Seq(OfKind(Ast, StatementKinds))
  /\ \A n \in Builtins : /\ n \in OfKind(Ast, {"builtin"})
                         /\ Ast[n].type.base \in Scalar \cup {"void"}

VARIABLES program, todo,
          symbols_, symbols_depth,  \* a scoped_map<type>
          curr_return_type_,        \* NoType outside a function
          sink

checker == <<todo, symbols_, symbols_depth, curr_return_type_>>
vars == <<program, registry_, checker, sink>>

NoType == Simple(None)

Check(n) == [do |-> "check", node |-> n]
ForHead(n) == [do |-> "head", node |-> n]
ScopeGuard == [do |-> "leave", node |-> None]

(* Tasks in the order they run, as a stack.                                *)
Tasks(nodes) == [i \in 1 .. Len(nodes) |-> Check(nodes[Len(nodes) + 1 - i])]

Started ==
  /\ todo = Tasks(program)
  /\ symbols_ = <<>> /\ symbols_depth = 0
  /\ curr_return_type_ = NoType

Init ==
  /\ program \in Programs /\ registry_ = RegistryOf(program)
  /\ Started /\ sink = <<>>

---------------------------------------------------------------------------
(* Types.                                                                  *)

Typed(type, reports) == [type |-> type, reports |-> reports]
Untyped(reports) == Typed(Unknown, reports)
IsUnknown(typed) == typed.type = Unknown

(* The type if the condition holds, a report if it does not.               *)
Require(ok, type, code) == IF ok THEN Typed(type, <<>>) ELSE Untyped(<<code>>)

IsInt(type) == type = Simple("int")
IsBool(type) == type = Simple("bool")

BinaryType(op, l, r) ==
  CASE op \in {"+", "-", "*", "/", "%"} ->
         Require(IsNumeric(l) /\ IsNumeric(r),
                 IF IsInt(l) /\ IsInt(r) THEN l ELSE Simple("double"),
                 "arithmetic_requires_numeric")
    [] op \in {"==", "!=", "<", "<=", ">", ">="} ->
         Require(IsNumeric(l) /\ IsNumeric(r), Simple("bool"),
                 "comparison_requires_numeric")
    [] op \in {"&", "|", "^", "<<", ">>"} ->
         Require(IsInt(l) /\ IsInt(r), l, "arithmetic_requires_numeric")
    [] OTHER -> Require(IsBool(l) /\ IsBool(r), l, "logical_requires_bool")

IsLvalue[n \in DOMAIN Ast] ==
  \/ Ast[n].kind = "variable"
  \/ Ast[n].kind \in {"index", "member"} /\ IsLvalue[Ast[n].kids[1]]

StepType(operand, type) ==
  CASE ~ IsNumeric(type) -> Untyped(<<"increment_requires_numeric">>)
    [] OTHER -> Require(IsLvalue[operand], type, "increment_requires_lvalue")

UnaryType(op, operand, type) ==
  CASE op = "-" -> Require(IsNumeric(type), type, "unary_minus_requires_numeric")
    [] op = "!" -> Require(IsBool(type), type, "not_requires_bool")
    [] op = "~" -> Require(IsInt(type), type, "arithmetic_requires_numeric")
    [] OTHER -> StepType(operand, type)

AssignmentType(op, target, t, v) ==
  CASE op = "=" -> Require(SameType(t, v) /\ IsLvalue[target], t, "type_mismatch_assignment")
    [] OTHER ->
         IF IsLvalue[target]
         THEN Require(IsNumeric(t) /\ IsNumeric(v), t, "compound_requires_numeric")
         ELSE Untyped(<<"compound_requires_lvalue">>)

IndexType(object, index) ==
  CASE ~ IsArray(object) -> Untyped(<<"indexing_non_array">>)
    [] OTHER -> Require(IsInt(index), Element(object), "index_must_be_integer")

(* A struct that cannot be resolved, or a field that was left without a    *)
(* type, gives an unknown type and no report.                              *)
MemberType(type, member) ==
  LET object == Resolved(type)
      i == FieldIndex(object, member)
  IN CASE object = Unknown -> Untyped(<<>>)
       [] object # Unknown /\ ~ IsStruct(object) -> Untyped(<<"not_a_struct">>)
       [] OTHER -> IF i = 0 THEN Untyped(<<"no_such_field">>)
                   ELSE Typed(FieldType(object, i), <<>>)

(* The reports of the operands in order; once one of them is unknown or    *)
(* wrong, the ones after it are not looked at.                             *)
InOrder(typed, wrong, code, type) ==
  LET bad == {i \in DOMAIN typed : IsUnknown(typed[i]) \/ i \in wrong}
  IN IF bad = {} THEN Typed(type, <<>>)
     ELSE LET i == Min(bad)
          IN Untyped(IF IsUnknown(typed[i]) THEN typed[i].reports ELSE <<code>>)

(* Faulty: a list has the type of its first element.                       *)
ListTypeOfFirst(typed) ==
  IF typed = <<>> THEN Untyped(<<"empty_initializer_list">>)
  ELSE InOrder(typed, {}, None, ArrayOf(typed[1].type, Len(typed)))

ListType(typed) ==
  IF typed = <<>> THEN Untyped(<<"empty_initializer_list">>)
  ELSE InOrder(typed,
               {i \in DOMAIN typed : ~ SameType(typed[i].type, typed[1].type)},
               "initializer_list_inconsistent_types",
               ArrayOf(typed[1].type, Len(typed)))

CallType(callee, typed) ==
  LET func == Ast[registry_[callee]]
      wrong == {i \in DOMAIN typed :
                  ~ SameType(typed[i].type, func.params[i].type)}
  IN CASE callee \notin DOMAIN registry_ -> Untyped(<<"undefined_function">>)
       [] HasStruct(callee) -> Untyped(<<"not_a_function">>)
       [] OTHER ->
            IF Len(func.params) # Len(typed)
            THEN Untyped(<<"argument_count_mismatch">>)
            ELSE InOrder(typed, wrong, "argument_type_mismatch", func.type)

(* Both operands are typed before either is looked at.                     *)
Both(a, b, typed) ==
  IF IsUnknown(a) \/ IsUnknown(b) THEN Untyped(a.reports \o b.reports) ELSE typed

(* get(): the innermost declaration in the text so far.                    *)
VariableType(name) ==
  LET i == FindEntry(symbols_, name)
  IN IF i = 0 THEN Untyped(<<"undefined_variable">>)
     ELSE Typed(symbols_[i].value, <<>>)

(* The type of n, given those of its children.                             *)
TypeFrom(T, n) ==
  LET e == Ast[n]
      kid(i) == T[e.kids[i]]
      kids == [i \in DOMAIN e.kids |-> T[e.kids[i]]]
      one(typed) == IF IsUnknown(kid(1)) THEN kid(1) ELSE typed
  IN CASE e.kind = "literal" -> Typed(Simple(e.value.t), <<>>)
       [] e.kind = "variable" -> VariableType(e.name)
       [] e.kind = "binary" ->
            Both(kid(1), kid(2), BinaryType(e.op, kid(1).type, kid(2).type))
       [] e.kind = "assignment" ->
            Both(kid(1), kid(2),
                 AssignmentType(e.op, e.kids[1], kid(1).type, kid(2).type))
       [] e.kind = "unary" -> one(UnaryType(e.op, e.kids[1], kid(1).type))
       [] e.kind = "postfix" -> one(StepType(e.kids[1], kid(1).type))
       [] e.kind = "call" -> CallType(e.name, kids)
       [] e.kind = "list" -> ListType(kids)
       [] e.kind = "index" ->
            Both(kid(1), kid(2), IndexType(kid(1).type, kid(2).type))
       [] e.kind = "member" -> one(MemberType(kid(1).type, e.name))
       [] OTHER -> Untyped(<<>>)  \* no expression

TypeOf(expr) == LET T[n \in DOMAIN Ast] == TypeFrom(T, n) IN T[expr]

---------------------------------------------------------------------------
(* Statements.                                                             *)

Task == Last(todo)
Node == Ast[Task.node]
Kid(i) == Node.kids[i]
Has(i) == Kid(i) # None
OnCheck(kind) == todo # <<>> /\ Task.do = "check" /\ Node.kind = kind

Continue(tasks) == todo' = Front(todo) \o tasks
Report(codes) == sink' = sink \o codes
SameScopes == UNCHANGED <<symbols_, symbols_depth>>
Enter == symbols_depth' = symbols_depth + 1
Declare(name, type) ==
  symbols_' = DefineEntry(symbols_, symbols_depth, name, type)

CheckExpression ==
  /\ OnCheck("expression")
  /\ Report(TypeOf(Kid(1)).reports) /\ Continue(<<>>)
  /\ SameScopes /\ UNCHANGED curr_return_type_

FieldTypes(type) == [i \in DOMAIN Fields(type.base) |-> FieldType(type, i)]

(* A list for a struct: its elements, which have been typed as a list      *)
(* before and are of one type, are typed again as the first fields.        *)
StructListResult(elements, type) ==
  IF Len(elements) > Len(FieldTypes(type)) THEN Untyped(<<"argument_count_mismatch">>)
  ELSE Require(\A i \in DOMAIN elements :
                  SameType(TypeOf(elements[i]).type, FieldTypes(type)[i]),
               type, "type_mismatch_initialization")

(* What a var declaration reports, and the type it gives the name, Unknown *)
(* when it gives none.                                                     *)
VarResult ==
  LET type == Resolved(Node.type)
      init == TypeOf(Kid(1))
      struct == IsStruct(type) /\ Ast[Kid(1)].kind = "list"
      unsized == IsArray(type) /\ Head(type.dims) = 0 /\ IsArray(init.type)
      inferred == ArrayOf(Element(Node.type), Head(init.type.dims))
  IN CASE type = Unknown ->
            Untyped(IF IsStruct(Node.type) THEN <<"undefined_type">> ELSE <<>>)
       [] type = Simple("void") -> Untyped(<<"void_variable">>)
       [] /\ type \notin {Unknown, Simple("void")}
          /\ DeclaredInCurrentScope(symbols_, symbols_depth, Node.name) ->
            Untyped(<<"redeclaration">>)
       [] OTHER ->
            CASE ~ Has(1) -> Typed(type, <<>>)
              [] Has(1) /\ IsUnknown(init) -> init
              [] Has(1) /\ ~ IsUnknown(init) /\ struct ->
                   StructListResult(Ast[Kid(1)].kids, type)
              [] Has(1) /\ ~ IsUnknown(init) /\ unsized ->
                   Require(SameType(Element(type), Element(init.type)), inferred,
                           "type_mismatch_initialization")
              [] OTHER -> Require(SameType(type, init.type), type,
                                  "type_mismatch_initialization")

CheckVar ==
  /\ OnCheck("var")
  /\ Report(VarResult.reports) /\ Continue(<<>>)
  /\ IF IsUnknown(VarResult) THEN UNCHANGED symbols_
     ELSE Declare(Node.name, VarResult.type)
  /\ UNCHANGED <<symbols_depth, curr_return_type_>>

HasDeclarations ==
  \E i \in DOMAIN Node.kids : Ast[Node.kids[i]].kind = "var"

BlockGuard == IF HasDeclarations THEN <<ScopeGuard>> ELSE <<>>

CheckBlock ==
  /\ OnCheck("block")
  /\ IF HasDeclarations THEN Enter ELSE UNCHANGED symbols_depth
  /\ Continue(BlockGuard \o Tasks(Node.kids))
  /\ UNCHANGED <<symbols_, curr_return_type_, sink>>

ConditionReports(n) ==
  LET cond == TypeOf(n)
  IN cond.reports \o (IF IsUnknown(cond) \/ IsBool(cond.type) THEN <<>>
                      ELSE <<"condition_not_bool">>)

CheckWhile ==
  /\ OnCheck("while")
  /\ Report(ConditionReports(Kid(2)))
  /\ Enter /\ Continue(<<ScopeGuard, Check(Kid(4))>>)
  /\ UNCHANGED <<symbols_, curr_return_type_>>

(* Faulty: the initializer is checked before the scope is opened.          *)
CheckForFlat ==
  /\ OnCheck("for")
  /\ Continue(<<ForHead(Task.node)>>
              \o (IF Has(1) THEN <<Check(Kid(1))>> ELSE <<>>))
  /\ UNCHANGED <<symbols_, symbols_depth, curr_return_type_, sink>>

CheckFor ==
  /\ OnCheck("for")
  /\ Enter
  /\ Continue(<<ScopeGuard, ForHead(Task.node)>>
              \o (IF Has(1) THEN <<Check(Kid(1))>> ELSE <<>>))
  /\ UNCHANGED <<symbols_, curr_return_type_, sink>>

(* Faulty: the loop is checked again after its body, as it runs.           *)
CheckForHeadAgain ==
  /\ todo # <<>> /\ Task.do = "head"
  /\ Report((IF Has(2) THEN ConditionReports(Kid(2)) ELSE <<>>)
            \o (IF Has(3) THEN TypeOf(Kid(3)).reports ELSE <<>>))
  /\ Continue(<<ForHead(Task.node), Check(Kid(4))>>)
  /\ SameScopes /\ UNCHANGED curr_return_type_

CheckForHead ==
  /\ todo # <<>> /\ Task.do = "head"
  /\ Report((IF Has(2) THEN ConditionReports(Kid(2)) ELSE <<>>)
            \o (IF Has(3) THEN TypeOf(Kid(3)).reports ELSE <<>>))
  /\ Continue(<<Check(Kid(4))>>)
  /\ SameScopes /\ UNCHANGED curr_return_type_

CheckIf ==
  /\ OnCheck("if")
  /\ Report(ConditionReports(Kid(1)))
  /\ Continue(Tasks(IF Has(3) THEN <<Kid(2), Kid(3)>> ELSE <<Kid(2)>>))
  /\ SameScopes /\ UNCHANGED curr_return_type_

ReturnReports ==
  LET value == TypeOf(Kid(1))
  IN CASE curr_return_type_ = NoType -> <<"return_outside_function">>
       [] curr_return_type_ # NoType /\ ~ Has(1) ->
            IF curr_return_type_ = Simple("void") THEN <<>>
            ELSE <<"return_missing_value">>
       [] OTHER ->
            IF IsUnknown(value) THEN value.reports
            ELSE IF SameType(value.type, curr_return_type_) THEN <<>>
                 ELSE <<"return_type_mismatch">>

CheckReturn ==
  /\ OnCheck("return")
  /\ Report(ReturnReports) /\ Continue(<<>>)
  /\ SameScopes /\ UNCHANGED curr_return_type_

(* prev_return_type is a reference to curr_return_type_ itself, so the     *)
(* assignment at the end of the function restores nothing.                 *)
CheckFunc ==
  /\ OnCheck("func")
  /\ Enter
  /\ symbols_' = symbols_ \o
       [i \in DOMAIN Node.params |->
          Entry(Node.params[i].name, Node.params[i].type, symbols_depth')]
  /\ curr_return_type_' = Node.type
  /\ Continue(<<ScopeGuard>> \o Tasks(Ast[Kid(1)].kids))
  /\ UNCHANGED sink

(* Duplicate fields stop the check; a field of a struct type that cannot   *)
(* be resolved is reported.                                                *)
StructReports ==
  LET fields == Node.params
      twice == {j \in DOMAIN fields : \E i \in 1 .. j - 1 :
                  fields[i].name = fields[j].name}
      upto == IF twice = {} THEN Len(fields) ELSE Min(twice) - 1
      undefined == {i \in 1 .. upto : /\ IsStruct(fields[i].type)
                                      /\ Resolved(fields[i].type) = Unknown}
  IN [i \in 1 .. Cardinality(undefined) |-> "undefined_type"]
     \o (IF twice = {} THEN <<>> ELSE <<"redeclaration">>)

CheckStruct ==
  /\ OnCheck("struct")
  /\ Report(StructReports) /\ Continue(<<>>)
  /\ SameScopes /\ UNCHANGED curr_return_type_

(* Faulty: the depth is lowered and the symbols are kept.                  *)
LeaveScopeKeepsSymbols ==
  /\ todo # <<>> /\ Task.do = "leave"
  /\ symbols_depth' = symbols_depth - 1
  /\ Continue(<<>>)
  /\ UNCHANGED <<symbols_, curr_return_type_, sink>>

LeaveScope ==
  /\ todo # <<>> /\ Task.do = "leave"
  /\ symbols_' = PopEntries(symbols_, symbols_depth)
  /\ symbols_depth' = symbols_depth - 1
  /\ Continue(<<>>)
  /\ UNCHANGED <<curr_return_type_, sink>>

Next ==
  /\ \/ CheckExpression \/ CheckVar \/ CheckBlock \/ CheckWhile \/ CheckFor
     \/ CheckForHead \/ CheckIf \/ CheckReturn \/ CheckFunc \/ CheckStruct
     \/ LeaveScope
  /\ UNCHANGED <<program, registry_>>

(* The checker goes on until it is done: WF_vars(Next), with its ENABLED   *)
(* spelled out, as in Pipeline.                                            *)
Checked == todo = <<>>
Spec ==
  /\ Init /\ [][Next \/ (Checked /\ UNCHANGED vars)]_vars
  /\ []<>Checked \/ []<><<Next>>_vars

---------------------------------------------------------------------------

(* Every scope that is open is closed by a scope_guard still to run, and   *)
(* nothing of a closed scope is left (type_check.cpp:101-161).             *)
GuardsBalanced ==
  /\ symbols_depth = Cardinality({i \in DOMAIN todo : todo[i].do = "leave"})
  /\ \A i \in DOMAIN symbols_ : symbols_[i].scope_depth <= symbols_depth

(* Only parameters repeat a name of their scope: whatever else is declared *)
(* twice is reported and left out (type_check.hpp:32; type_check.cpp:53,   *)
(* 150-161).                                                               *)
Repeats(i, j) ==
  /\ i < j /\ symbols_[i].name = symbols_[j].name
  /\ symbols_[i].scope_depth = symbols_[j].scope_depth
ParameterTwice(name) ==
  \E n \in DOMAIN Ast : \E i, j \in DOMAIN Ast[n].params :
     /\ Ast[n].kind = "func" /\ i < j
     /\ Ast[n].params[i].name = name /\ Ast[n].params[j].name = name

RepeatedNamesAreParameters ==
  \A i, j \in DOMAIN symbols_ : Repeats(i, j) => ParameterTwice(symbols_[j].name)

(* The free variables of a node, by the block structure of the text alone. *)
Declared(n) ==
  IF n # None /\ Ast[n].kind = "var" THEN {Ast[n].name} ELSE {}

FreeFrom(F, n) ==
  LET e == Ast[n]
      of(k) == IF k = None THEN {} ELSE F[k]
      inOrder(nodes) ==
        UNION {of(nodes[i]) \ UNION {Declared(nodes[j]) : j \in 1 .. i - 1} :
               i \in DOMAIN nodes}
  IN CASE e.kind = "variable" -> {e.name}
       [] e.kind \in {"block", "for", "while"} -> inOrder(e.kids)
       [] e.kind = "func" -> inOrder(Ast[e.kids[1]].kids)
                             \ {e.params[i].name : i \in DOMAIN e.params}
       [] OTHER -> UNION {of(e.kids[i]) : i \in DOMAIN e.kids}

Free[n \in DOMAIN Ast] == FreeFrom(Free, n)

Closed ==
  \A i \in DOMAIN program :
     Free[program[i]] \subseteq UNION {Declared(program[j]) : j \in 1 .. i - 1}

(* The types that are written in the program, by what they are made of;    *)
(* all known: every struct is declared, and none contains itself, not even *)
(* through an array.                                                       *)
Structs == {s \in DOMAIN registry_ : HasStruct(s)}
Mentioned ==
  {Ast[n].type.base : n \in Text(program) \cap OfKind(Ast, {"var", "func"})}
  \cup UNION {{p.type.base : p \in Range(Ast[n].params)} : n \in Text(program)}
KnownTypes ==
  /\ Mentioned \subseteq Scalar \cup {"void"} \cup Structs
  /\ \E rank \in [Structs -> 1 .. Cardinality(Structs)] :
        \A s \in Structs : \A p \in Range(Fields(s)) :
           p.type.base \in Structs => rank[p.type.base] < rank[s]

(* A call names a function and has as many arguments as it has parameters. *)
CallFits(n) ==
  Ast[n].kind = "call" =>
    /\ Ast[n].name \in DOMAIN registry_ /\ ~ HasStruct(Ast[n].name)
    /\ Len(Ast[registry_[Ast[n].name]].params) = Len(Ast[n].kids)

(* An accepted program whose types are known is closed: every use of a     *)
(* variable follows a declaration of it in an enclosing scope, and every   *)
(* call fits a declaration, although the checker does not look at what     *)
(* follows an operand without a type (type_check.cpp:36-99, 101-132,       *)
(* 150-161, 201-436).  An array of an undeclared struct is dropped without *)
(* a report, with its initializer unread (line 42), hence KnownTypes.      *)
AcceptedIsClosed ==
  todo = <<>> /\ sink = <<>> /\ KnownTypes =>
    Closed /\ \A n \in Text(program) : CallFits(n)

(* The checker goes on after an error: every check ends, having looked at  *)
(* the whole program (type_check.hpp:34-36).                               *)
ChecksEverything == <>Checked
===========================================================================
