---------------------------- MODULE Interpreter ----------------------------
(***************************************************************************)
(* The tree-walking interpreter (runtime/interpreter.cpp) as a small-step  *)
(* machine.  kont is the C++ call stack: a frame [at, node, i] is an       *)
(* active execute(), evaluate() or evaluate_lvalue() of a node, suspended  *)
(* at a point of its body, and temps holds the values and references its   *)
(* locals hold.  mode says whether the code runs, returns an               *)
(* execution_result, or unwinds with an exception.                         *)
(*                                                                         *)
(* A program is a sequence of top-level statements of the table Ast.       *)
(***************************************************************************)
EXTENDS ScopeEntries, Objects

CONSTANTS Programs,   \* sequences of top-level statements
          MAX_RECURSION_DEPTH

ASSUME DepthAssumption == MAX_RECURSION_DEPTH \in Nat

VARIABLES program, kont, mode, temps,
          entries_, current_depth_,  \* values_, a scoped_map<value>
          capacity_,                 \* of the vector in values_
          recursion_depth_,
          sink

machine == <<kont, mode, temps>>
scopes == <<entries_, current_depth_, capacity_>>
vars == <<program, registry_, machine, scopes, heap, recursion_depth_, sink>>

Frame(at, node) == [at |-> at, node |-> node, i |-> 0]

(* Where a for or while keeps its scope_guard alive, and a call its own.   *)
LoopPoints == {"condition", "decide", "enter", "increment", "again"}
CallPoints == {"arguments", "body"}

(* The parser sets has_declarations_ when a direct child declares a        *)
(* variable.                                                               *)
HasDeclarations(n) ==
  \E i \in DOMAIN Ast[n].kids : Ast[Ast[n].kids[i]].kind = "var"

HoldsScope(f) ==
  \/ f.at \in LoopPoints \cup {"body"}
  \/ f.at = "block" /\ HasDeclarations(f.node)
HoldsDepth(f) == f.at \in CallPoints

(* The interpreter, given a program and its registry.                      *)
Started ==
  /\ kont = <<Frame("interpret", None)>>
  /\ mode = "run"
  /\ temps = <<>>
  /\ entries_ = <<>> /\ current_depth_ = 0 /\ capacity_ = 0
  /\ heap = <<>>
  /\ recursion_depth_ = 0
  /\ sink = <<>>

Init == program \in Programs /\ registry_ = RegistryOf(program) /\ Started

---------------------------------------------------------------------------
(* The control stack.  The operators from Then to RaiseError are whole     *)
(* steps: they say what every variable but program becomes.                *)

Top == Last(kont)
Node == Ast[Top.node]
Kid(i) == Node.kids[i]
Has(i) == Kid(i) # None
Advanced == [Top EXCEPT !.i = @ + 1]

At(point) == mode = "run" /\ kont # <<>> /\ Top.at = point
Exec(kind) == At("exec") /\ Node.kind = kind
Eval(kind) == At("eval") /\ Node.kind = kind
Lval(kind) == At("lval") /\ Node.kind = kind

Finish == kont' = Front(kont)
Become(frame) == kont' = Append(Front(kont), frame)
BecomeThen(frame, callee) == kont' = Append(Append(Front(kont), frame), callee)

(* Operand k from the top, and the stack with k operands replaced.         *)
Temp(k) == temps[Len(temps) - k]
Replace(k, new) == temps' = SubSeq(temps, 1, Len(temps) - k) \o new

Stay == UNCHANGED <<scopes, heap, recursion_depth_, sink>>

(* Call for child k, or for a list of n nodes the next of them, and resume *)
(* at a later point of this handler.                                       *)
Then(how, k, point) ==
  /\ BecomeThen(Frame(point, Top.node), Frame(how, Kid(k)))
  /\ Stay /\ UNCHANGED <<mode, temps>>
ThenNext(how, nodes) ==
  /\ Top.i < Len(nodes)
  /\ BecomeThen(Advanced, Frame(how, nodes[Top.i + 1]))
  /\ Stay /\ UNCHANGED <<mode, temps>>

(* Consume k operands and go on at another point, or be done.              *)
Resume(k, frame) == Become(frame) /\ Replace(k, <<>>) /\ Stay /\ UNCHANGED mode
Done(k) == Finish /\ Replace(k, <<>>) /\ Stay /\ UNCHANGED mode

Raise(m) == mode' = m /\ Stay /\ UNCHANGED <<kont, temps>>
RaiseError(code) ==
  /\ mode' = "runtime_error" /\ sink' = Append(sink, code)
  /\ UNCHANGED <<kont, temps, scopes, heap, recursion_depth_>>

(* v, computed from k operands, is the value of this frame, or what it     *)
(* throws.  After a trap the process is gone.                              *)
Thrown(v) == Failed(v) \/ v = Trap
Throw(v) == Raise(IF v = Trap THEN "undefined" ELSE v.t)
Result(k, x) == Finish /\ Replace(k, <<x>>) /\ Stay /\ UNCHANGED mode
Yield(k, v) == IF Thrown(v) THEN Throw(v) ELSE Result(k, v)

---------------------------------------------------------------------------
(* Scopes and the growth of the vector.                                    *)

PushScope ==
  current_depth_' = current_depth_ + 1 /\ UNCHANGED <<entries_, capacity_>>

(* Faulty: the loops have no scope_guard; a scope_guard lowers the depth   *)
(* and keeps the variables, or lowers it before it removes them.           *)
EndsScopeButLoops == HoldsScope(Top) /\ Top.at \notin LoopPoints
PopScopeKeepsEntries ==
  current_depth_' = current_depth_ - 1 /\ UNCHANGED <<entries_, capacity_>>

PopScopeDepthFirst ==
  /\ current_depth_' = current_depth_ - 1
  /\ entries_' = PopEntries(entries_, current_depth_')
  /\ UNCHANGED capacity_

EndsScope == HoldsScope(Top)
EndsCall == HoldsDepth(Top)
PopScope ==
  /\ entries_' = PopEntries(entries_, current_depth_)
  /\ current_depth_' = current_depth_ - 1
  /\ UNCHANGED capacity_

(* Finish a frame and run its destructors.                                 *)
Leave ==
  /\ Finish
  /\ IF EndsScope THEN PopScope ELSE UNCHANGED scopes
  /\ recursion_depth_' = recursion_depth_ - (IF EndsCall THEN 1 ELSE 0)

(* push_back doubles the capacity when the vector is full.                 *)
Grown(n) ==
  IF n <= capacity_ THEN capacity_
  ELSE CHOOSE c \in {2 ^ k : k \in 0 .. n} : n <= c /\ c < 2 * n

(* Faulty: a variable of that name is overwritten, whatever its scope.     *)
DefinedOver(v) == DefineOver(entries_, current_depth_, Node.name, v)

Defined(v) == DefineEntry(entries_, current_depth_, Node.name, v)

(* The end of a var declaration whose initializer left k operands.         *)
Define(k, v) ==
  /\ entries_' = Defined(v)
  /\ capacity_' = Grown(Len(entries_) + 1)
  /\ Finish /\ Replace(k, <<>>)
  /\ UNCHANGED <<mode, current_depth_, recursion_depth_, sink>>

---------------------------------------------------------------------------
(* References: to an entry of values_, in the vector of that capacity, or  *)
(* to an element of an array or a field of a struct.                       *)

SlotRef(i) == [slot |-> TRUE, id |-> i, i |-> 0, cap |-> capacity_]
ElementRef(location, i) == [slot |-> FALSE, id |-> location, i |-> i, cap |-> 0]
IsRef(x) == "slot" \in DOMAIN x

LiveValues == {entries_[i].value : i \in DOMAIN entries_}
              \cup {temps[k] : k \in {j \in DOMAIN temps : ~ IsRef(temps[j])}}

(* The vector has moved since the reference was taken, or is gone.         *)
Stale(r) == IF r.slot THEN r.cap # capacity_ ELSE ~ Owned(r.id, LiveValues)

Load(r) == IF r.slot THEN entries_[r.id].value ELSE heap[r.id][r.i]

(* The heap after a value has been made.                                   *)
Keep(made) == heap' = heap \o made.vectors

(* Faulty: the copy of a struct shares its fields.                         *)
SharedWith(v) == Plain(v)

Copied(v) == Copy[<<v, Len(heap)>>]

(* What store leaves in a heap to which the vectors new are added.         *)
Store(r, v, new) ==
  IF r.slot
  THEN entries_' = [entries_ EXCEPT ![r.id].value = v] /\ heap' = heap \o new
  ELSE heap' = [heap EXCEPT ![r.id][r.i] = v] \o new /\ UNCHANGED entries_

(* Write new through the reference on top of k operands; the value of the  *)
(* expression is a copy of result.                                         *)
StoreYield(k, new, result) ==
  CASE Stale(Temp(0)) -> Raise("undefined")
    [] ~ Stale(Temp(0)) /\ Thrown(new) -> Throw(new)
    [] OTHER -> /\ Store(Temp(0), new, Copied(result).vectors)
                /\ Finish /\ Replace(k, <<Copied(result).v>>)
                /\ UNCHANGED <<mode, current_depth_, capacity_,
                               recursion_depth_, sink>>

---------------------------------------------------------------------------
(* Statements.                                                             *)

(* interpret(): every top-level statement but function declarations.       *)
Interpret ==
  /\ At("interpret")
  /\ \/ Top.i < Len(program) /\ Ast[program[Top.i + 1]].kind = "func"
          /\ Resume(0, Advanced)
     \/ Top.i < Len(program) /\ Ast[program[Top.i + 1]].kind # "func"
          /\ ThenNext("exec", program)
     \/ Top.i = Len(program)
          /\ Finish /\ mode' = "finished" /\ Stay /\ UNCHANGED temps

ExecuteExpression ==
  \/ Exec("expression") /\ Then("eval", 1, "discard")
  \/ At("discard") /\ Done(1)

(* Function and struct declarations do nothing when executed.              *)
ExecuteDeclaration == (Exec("func") \/ Exec("struct")) /\ Done(0)

VarType == Resolved(Node.type)
ListForStruct == Has(1) /\ Ast[Kid(1)].kind = "list" /\ IsStruct(VarType)
Default(type, filled) == DefaultValue[<<type, filled, Len(heap)>>]

(* The elements of a list for a struct go into the first fields of its     *)
(* default value.                                                          *)
WithFirst(n, made) ==
  [made EXCEPT !.vectors[Len(made.vectors)] =
     [j \in DOMAIN @ |-> IF j <= n THEN Temp(n - j) ELSE @[j]]]

ExecuteVar ==
  LET default == Default(VarType, TRUE)
      listed == WithFirst(Top.i, default)
  IN \/ Exec("var") /\ ListForStruct /\ Resume(0, Frame("fields", Top.node))
     \/ Exec("var") /\ Has(1) /\ ~ ListForStruct /\ Then("eval", 1, "define")
     \/ At("define") /\ Define(1, Temp(0)) /\ UNCHANGED heap
     \/ At("fields") /\ ThenNext("eval", Ast[Kid(1)].kids)
     \/ /\ At("fields") /\ Top.i = Len(Ast[Kid(1)].kids)
        /\ Define(Top.i, listed.v) /\ Keep(listed)
     \/ Exec("var") /\ ~ Has(1) /\ Define(0, default.v) /\ Keep(default)

ExecuteBlock ==
  \/ /\ Exec("block")
     /\ Become(Frame("block", Top.node))
     /\ IF HasDeclarations(Top.node) THEN PushScope ELSE UNCHANGED scopes
     /\ UNCHANGED <<mode, temps, heap, recursion_depth_, sink>>
  \/ At("block") /\ ThenNext("exec", Node.kids)
  \/ /\ At("block") /\ Top.i = Len(Node.kids)
     /\ Leave /\ UNCHANGED <<mode, temps, heap, sink>>

(* while and for hold one scope for the whole loop; the body, a block,     *)
(* opens its own in every iteration.                                       *)
ExecuteLoop ==
  /\ Exec("while") \/ Exec("for")
  /\ PushScope
  /\ IF Has(1)
     THEN BecomeThen(Frame("condition", Top.node), Frame("exec", Kid(1)))
     ELSE Become(Frame("condition", Top.node))
  /\ UNCHANGED <<mode, temps, heap, recursion_depth_, sink>>

LoopDecide ==
  LET cond == ToBool(Temp(0))
  IN /\ At("decide")
     /\ \/ Failed(cond) /\ Throw(cond)
        \/ /\ ~ Failed(cond) /\ IsTrue(cond)
           /\ Resume(1, Frame("enter", Top.node))
        \/ /\ ~ Failed(cond) /\ ~ IsTrue(cond)
           /\ Leave /\ Replace(1, <<>>) /\ UNCHANGED <<mode, heap, sink>>

HasIncrement == Has(3)

LoopNext ==
  \/ At("condition") /\ Has(2) /\ Then("eval", 2, "decide")
  \/ At("condition") /\ ~ Has(2) /\ Resume(0, Frame("enter", Top.node))
  \/ At("enter") /\ Then("exec", 4, "increment")
  \/ At("increment") /\ HasIncrement /\ Then("eval", 3, "again")
  \/ At("increment") /\ ~ HasIncrement /\ Resume(0, Frame("condition", Top.node))
  \/ At("again") /\ Resume(1, Frame("condition", Top.node))

ExecuteIf ==
  LET cond == ToBool(Temp(0))
      chosen == IF IsTrue(cond) THEN Kid(2) ELSE Kid(3)
  IN \/ Exec("if") /\ Then("eval", 1, "branch")
     \/ At("branch") /\ Failed(cond) /\ Throw(cond)
     \/ /\ At("branch") /\ ~ Failed(cond)
        /\ IF chosen = None THEN Done(1) ELSE Resume(1, Frame("exec", chosen))

ExecuteReturn ==
  \/ Exec("return") /\ Has(1) /\ Then("eval", 1, "return")
  \/ /\ Exec("return") /\ ~ Has(1)
     /\ Finish /\ mode' = "return" /\ Replace(0, <<Void>>) /\ Stay
  \/ At("return") /\ Finish /\ mode' = "return" /\ Stay /\ UNCHANGED temps

---------------------------------------------------------------------------
(* Expressions.                                                            *)

EvaluateLiteral == Eval("literal") /\ Result(0, Node.value)

(* Reading is copying what the reference evaluate_lvalue() gives refers to. *)
YieldCopy(k, v) ==
  /\ Finish /\ Replace(k, <<Copied(v).v>>) /\ Keep(Copied(v))
  /\ UNCHANGED <<mode, scopes, recursion_depth_, sink>>

EvaluateByReference ==
  \/ /\ Eval("variable") \/ Eval("index") \/ Eval("member")
     /\ BecomeThen(Frame("load", Top.node), Frame("lval", Top.node))
     /\ Stay /\ UNCHANGED <<mode, temps>>
  \/ At("load") /\ Stale(Temp(0)) /\ Raise("undefined")
  \/ At("load") /\ ~ Stale(Temp(0)) /\ YieldCopy(1, Load(Temp(0)))

(* && and || stop at a left operand that decides.  Only the last switch is *)
(* in a try block: its value_error is reported.                            *)
EvaluateBinary ==
  LET logical == Node.op \in {"&&", "||"}
      truth == ToBool(Temp(0))
      decides == logical /\ truth = Bool(Node.op = "||")
      result == Apply(Node.op, Temp(1), Temp(0))
  IN \/ Eval("binary") /\ Then("eval", 1, "right")
     \/ At("right") /\ logical /\ Failed(truth) /\ Throw(truth)
     \/ At("right") /\ decides /\ Yield(1, truth)
     \/ /\ At("right") /\ ~ decides /\ (logical => ~ Failed(truth))
        /\ Then("eval", 2, "apply")
     \/ At("apply") /\ logical /\ Yield(2, truth)
     \/ At("apply") /\ ~ logical /\ Failed(result) /\ RaiseError(result.t)
     \/ At("apply") /\ ~ logical /\ ~ Failed(result) /\ Yield(2, result)

(* The value first, then the target.  A compound operation is outside any  *)
(* try block; "~=" parses as one and the switch ignores it.                *)
EvaluateAssignment ==
  LET new == CASE Node.op = "=" -> Temp(1)
               [] Node.op = "~" -> Load(Temp(0))
               [] OTHER -> Apply(Node.op, Load(Temp(0)), Temp(1))
  IN \/ Eval("assignment") /\ Then("eval", 2, "target")
     \/ At("target") /\ Then("lval", 1, "store")
     \/ At("store") /\ StoreYield(2, new, new)

(* ++ and -- evaluate their operand as a value and then once more as a     *)
(* reference; the postfix forms only as a reference.                       *)
EvaluateUnary ==
  LET steps == Node.op \in {"++", "--"}
  IN \/ Eval("unary") /\ Then("eval", 1, "unary")
     \/ At("unary") /\ ~ steps /\ Yield(1, ApplyUnary(Node.op, Temp(0)))
     \/ At("unary") /\ steps /\ Resume(1, Frame("operand", Top.node))
     \/ At("operand") /\ Then("lval", 1, "bump")

EvaluatePostfix == Eval("postfix") /\ Then("lval", 1, "bump")

Bump ==
  LET old == Load(Temp(0))
      new == Bumped(old, IF Node.op = "++" THEN 1 ELSE -1)
  IN At("bump") /\ StoreYield(1, new, IF Node.kind = "postfix" THEN old ELSE new)

EvaluateList ==
  \/ Eval("list") /\ Resume(0, Frame("elements", Top.node))
  \/ At("elements") /\ ThenNext("eval", Node.kids)
  \/ /\ At("elements") /\ Top.i = Len(Node.kids)
     /\ heap' = Append(heap, SubSeq(temps, Len(temps) - Top.i + 1, Len(temps)))
     /\ Finish /\ Replace(Top.i, <<Array(Len(heap) + 1)>>)
     /\ UNCHANGED <<mode, scopes, recursion_depth_, sink>>

(* values_.get() finds the innermost variable of that name, whichever      *)
(* function declared it; nothing checks that it found one.                 *)
LvalueVariable ==
  LET slot == FindEntry(entries_, Node.name)
  IN /\ Lval("variable")
     /\ IF slot = 0 THEN Raise("undefined") ELSE Result(0, SlotRef(slot))

(* Faulty: an index equal to the size passes.                              *)
InBoundsInclusive(i, elements) == i \in 0 .. Len(elements)

InBounds(i, elements) == i \in 0 .. Len(elements) - 1

(* The object's reference is taken before the index is evaluated and used  *)
(* after it.                                                               *)
LvalueIndex ==
  LET index == ToInt(Temp(0))
      array == Load(Temp(1))
  IN \/ Lval("index") /\ Then("lval", 1, "index")
     \/ At("index") /\ Then("eval", 2, "element")
     \/ /\ At("element")
        /\ CASE Failed(index) -> Throw(index)
             [] ~ Failed(index) /\ Stale(Temp(1)) -> Raise("undefined")
             [] ~ Failed(index) /\ ~ Stale(Temp(1)) /\ array.t # "array" ->
                  Raise("invalid_conversion")
             [] OTHER ->
                  IF InBounds(index.n, heap[array.n])
                  THEN Result(2, ElementRef(array.n, index.n + 1))
                  ELSE RaiseError("index_out_of_bounds")

(* field_index() is dereferenced unchecked: a struct whose type was never  *)
(* resolved has no fields.                                                 *)
LvalueMember ==
  LET v == Load(Temp(0))
      field == FieldIndex(Simple(v.s), Node.name)
  IN \/ Lval("member") /\ Then("lval", 1, "member")
     \/ /\ At("member")
        /\ CASE Stale(Temp(0)) -> Raise("undefined")
             [] ~ Stale(Temp(0)) /\ v.t # "struct" -> Raise("invalid_conversion")
             [] OTHER -> IF field \in DOMAIN heap[v.n]
                         THEN Result(1, ElementRef(v.n, field))
                         ELSE Raise("undefined")

(* Any other expression has no reference: the run ends with no report.     *)
LvalueOther ==
  /\ At("lval") /\ Node.kind \notin {"variable", "index", "member"}
  /\ Raise("runtime_error")

---------------------------------------------------------------------------
(* Calls.                                                                  *)

Callee == Ast[registry_[Node.name]]
Invoke(kind) ==
  At("arguments") /\ Top.i = Len(Node.kids) /\ Callee.kind = kind

(* Faulty: the limit itself is let through.                                *)
OneTooDeep == recursion_depth_ > MAX_RECURSION_DEPTH

TooDeep == recursion_depth_ >= MAX_RECURSION_DEPTH

(* Faulty: a call at the limit is left out, and the program goes on.       *)
CallSkipped == Result(0, Void)

Overflow == RaiseError("stack_overflow")

EvaluateCall ==
  \/ Eval("call") /\ TooDeep /\ Overflow
  \/ /\ Eval("call") /\ ~ TooDeep
     /\ recursion_depth_' = recursion_depth_ + 1
     /\ Become(Frame("arguments", Top.node))
     /\ UNCHANGED <<mode, temps, scopes, heap, sink>>
  \/ At("arguments") /\ ThenNext("eval", Node.kids)

(* What the distributions of <random> may give.  An empty range of         *)
(* integers is undefined; in the build it wraps around.                    *)
Drawn(a, b) == IF a <= b THEN a .. b ELSE (IntMin .. IntMax) \ (b + 1 .. a - 1)
Between(a, b) == IF a = b THEN {a} ELSE ((a .. b) \cup (b .. a)) \ {b}

(* The values a library function may give, or what it throws.  Texts and   *)
(* numbers that only a library knows are one of two.                       *)
BuiltinResults(name) ==
  LET arg == Temp(Top.i - 1)
  IN CASE name \in {"dtoi", "stoi"} -> {ToInt(arg)}
       [] name \in {"itod", "stod"} -> {ToDouble(arg)}
       [] name \in {"print_int", "srand"} -> {Lift(ToInt(arg), ToInt(arg), Void)}
       [] name = "print_dbl" -> {Lift(ToDouble(arg), ToDouble(arg), Void)}
       [] name \in {"print_bool", "print_str"} -> {Void}
       [] name = "input" -> {String(0), String(NotANumber)}
       [] name \in {"sqrt", "sin", "exp"} ->
            {Lift(ToDouble(arg), ToDouble(arg), Double(d)) : d \in {0, 1}}
       [] name = "rand_int" -> {Lift(ToInt(arg), ToInt(Temp(0)), Integer(n)) :
                                  n \in Drawn(ToInt(arg).n, ToInt(Temp(0)).n)}
       [] name = "rand_dbl" -> {Lift(ToDouble(arg), ToDouble(Temp(0)), Double(d)) :
                                  d \in Between(ToDouble(arg).n, ToDouble(Temp(0)).n)}

CallBuiltin ==
  /\ Invoke("builtin")
  /\ \E result \in BuiltinResults(Node.name) :
       \/ Failed(result) /\ RaiseError(result.t)
       \/ /\ ~ Failed(result)
          /\ Leave /\ Replace(Top.i, <<result>>) /\ UNCHANGED <<mode, heap, sink>>

(* The parameters are defined in the scope the call opens, as copies of    *)
(* the arguments, which stay until the call ends.                          *)
CopyOfArgument(j, at) == Copy[<<Temp(Top.i - j), at>>]
Arguments == InVector(Top.i, CopyOfArgument, Array, Len(heap))

(* Falling off the end gives the default of the return type as written.    *)
CallUser ==
  LET statements == Ast[Callee.kids[1]].kids
      arguments == Last(Arguments.vectors)
      default == Default(Callee.type, FALSE)
  IN \/ /\ Invoke("func")
        /\ current_depth_' = current_depth_ + 1
        /\ entries_' = entries_ \o
             [j \in 1 .. Top.i |->
                Entry(Callee.params[j].name, arguments[j], current_depth_')]
        /\ capacity_' = Grown(Len(entries_) + Top.i)
        /\ Become(Frame("body", Top.node))
        /\ heap' = heap \o Front(Arguments.vectors)
        /\ UNCHANGED <<mode, temps, recursion_depth_, sink>>
     \/ At("body") /\ ThenNext("exec", statements)
     \/ /\ At("body") /\ Top.i = Len(statements)
        /\ Leave /\ Replace(Len(Node.kids), <<default.v>>) /\ Keep(default)
        /\ UNCHANGED <<mode, sink>>

---------------------------------------------------------------------------
(* Ways out.                                                               *)

(* Faulty: a return at the top level ends the program.                     *)
ReturnEndsProgram == mode' = "finished" /\ Finish

(* A return at the top level has no effect, and none in the initializer of *)
(* a for, the one statement whose loop is at "condition": the result of    *)
(* both is dropped.                                                        *)
DropsResult == Top.at \in {"interpret", "condition"}
ReturnIgnored == mode' = "run" /\ UNCHANGED kont

(* A return leaves blocks and loops up to its call, whose value it is.     *)
Returning ==
  \/ /\ mode = "return" /\ ~ DropsResult
     /\ Leave
     /\ IF Top.at = "body"
        THEN mode' = "run" /\ Replace(Len(Node.kids) + 1, <<Temp(0)>>)
        ELSE UNCHANGED <<mode, temps>>
     /\ UNCHANGED <<heap, sink>>
  \/ /\ mode = "return" /\ DropsResult
     /\ ReturnIgnored /\ Replace(1, <<>>) /\ Stay

InFlight == mode \in ValueError \cup {"runtime_error"}

(* Faulty: every call on the way out reports again.                        *)
ReportsAnything == Top.at = "body"

ReportsError == Top.at = "body" /\ mode \in ValueError

(* An exception runs the destructors of every frame it leaves; a call      *)
(* turns a value_error of its body into a report.                          *)
Unwind ==
  /\ InFlight /\ Top.at # "interpret"
  /\ Leave
  /\ IF ReportsError
     THEN mode' = "runtime_error" /\ sink' = Append(sink, mode)
     ELSE UNCHANGED <<mode, sink>>
  /\ UNCHANGED <<temps, heap>>

(* interpret() swallows a runtime_error and lets a value_error through.    *)
Escape ==
  /\ InFlight /\ Top.at = "interpret"
  /\ mode' = IF mode = "runtime_error" THEN "stopped" ELSE "escaped"
  /\ Finish /\ temps' = <<>> /\ Stay

Statement ==
  \/ Interpret \/ ExecuteExpression \/ ExecuteDeclaration \/ ExecuteVar
  \/ ExecuteBlock \/ ExecuteLoop \/ LoopDecide \/ LoopNext \/ ExecuteIf
  \/ ExecuteReturn

Expression ==
  \/ EvaluateLiteral \/ EvaluateByReference \/ EvaluateBinary
  \/ EvaluateAssignment \/ EvaluateUnary \/ EvaluatePostfix \/ Bump
  \/ EvaluateList \/ LvalueVariable \/ LvalueIndex \/ LvalueMember
  \/ LvalueOther

CallStep == EvaluateCall \/ CallBuiltin \/ CallUser

Next ==
  /\ Statement \/ Expression \/ CallStep \/ Returning \/ Unwind \/ Escape
  /\ UNCHANGED <<program, registry_>>

Spec == Init /\ [][Next]_vars /\ WF_vars(Next)

---------------------------------------------------------------------------

Points == {"interpret", "exec", "eval", "lval", "discard", "define", "fields",
           "block", "branch", "return", "load", "right", "apply", "target",
           "store", "unary", "operand", "bump", "elements", "index", "element",
           "member"} \cup LoopPoints \cup CallPoints
FrameSet == [at : Points, node : DOMAIN Ast \cup {None}, i : Nat]
Modes == {"run", "return", "runtime_error", "finished", "stopped", "escaped",
          "undefined"} \cup ValueError

TypeOK ==
  /\ kont \in Seq(FrameSet)
  /\ mode \in Modes
  /\ current_depth_ \in Nat /\ capacity_ \in Nat
  /\ recursion_depth_ \in 0 .. MAX_RECURSION_DEPTH
  /\ sink \in Seq(STRING)

Count(Holds(_)) == Cardinality({i \in DOMAIN kont : Holds(kont[i])})

(* Every scope that is open belongs to an active block, loop or call, and  *)
(* every unit of recursion depth to an active call: a return from inside   *)
(* loops, and an exception from anywhere, close exactly what they leave    *)
(* (scope_guard and depth_guard, interpreter.cpp:112, 122, 134, 319, 346). *)
DepthsBalanced ==
  current_depth_ = Count(HoldsScope) /\ recursion_depth_ = Count(HoldsDepth)

(* The variables' table keeps outer scopes first and holds nothing of a    *)
(* closed scope, on every path out of a scope (interpreter.cpp:111-147).   *)
TableSorted ==
  /\ \A i \in DOMAIN entries_ : entries_[i].scope_depth <= current_depth_
  /\ \A i, j \in DOMAIN entries_ :
        i <= j => entries_[i].scope_depth <= entries_[j].scope_depth

(* What an entry stands for never changes while it is there: the table     *)
(* only grows and shrinks at its end, so a reference that survives a call  *)
(* still means the same variable (interpreter.cpp:185-199).                *)
SlotsKeepIdentity ==
  [][\A i \in DOMAIN entries_ \cap DOMAIN entries_' :
        /\ entries_'[i].name = entries_[i].name
        /\ entries_'[i].scope_depth = entries_[i].scope_depth]_entries_

(* Where a handler uses a reference it finds one, to a variable that is    *)
(* still there.  The object of an index expression is held while the index *)
(* runs (interpreter.cpp:190-191); every other reference is used before    *)
(* the vector can move (interpreter.cpp:203, 209-215, 258-279, 291-302).   *)
Refers(r) == IsRef(r) /\ (r.slot => r.id \in DOMAIN entries_)
ReferencesFresh ==
  mode = "run" /\ kont # <<>> =>
    /\ Top.at = "element" => Refers(Temp(1))
    /\ Top.at \in {"load", "store", "bump", "member"} =>
         Refers(Temp(0)) /\ (Temp(0).slot => Temp(0).cap = capacity_)

(* A reference held by an active evaluation points at a variable that is   *)
(* still in the table, or inside the array it was taken from, and that is  *)
(* gone only when an index runs meanwhile (interpreter.cpp:189-206).       *)
ReferencesInside ==
  mode \in {"run", "return"} => \A k \in DOMAIN temps : IsRef(temps[k]) =>
     /\ IF temps[k].slot THEN temps[k].id \in DOMAIN entries_
        ELSE temps[k].i \in DOMAIN heap[temps[k].id]
     /\ Stale(temps[k]) => \E j \in DOMAIN kont : kont[j].at = "element"

(* interpreter.hpp:58 names runtime_error as what interpret() throws: a    *)
(* value_error gets out of it too (interpreter.cpp:255-276).               *)
NoValueErrorEscapes == mode # "escaped"
===========================================================================
