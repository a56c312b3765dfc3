------------------------------- MODULE Parser -------------------------------
(***************************************************************************)
(* The recursive-descent parser (parser.hpp, parser.cpp) as a pushdown     *)
(* machine.  `todo` is the C++ stack: the calls still to make and the      *)
(* tokens still to consume, the next one first; a handler that is called   *)
(* replaces itself by what it does.  `built` holds the nodes under         *)
(* construction.  A parse_error unwinds to the innermost declaration().    *)
(***************************************************************************)
EXTENDS Integers, FiniteSetsExt, SequencesExt

CONSTANTS
  Sources,     \* sequences of tokens, without END_OF_FILE
  MaxReports   \* bound: a parser that reports more than this stops

ASSUME ParserAssumption ==
  /\ MaxReports \in Nat
  /\ \A text \in Sources : text \in Seq(STRING \ {"eof", "outside"})

VARIABLES tokens_, current_, todo, built, sink, mode

vars == <<tokens_, current_, todo, built, sink, mode>>

(* A token is its type.  NUMBERs are of three sorts: "num", "zero", and    *)
(* "huge" for a lexeme that value::from_string() refuses; STRINGs are      *)
(* "str", or "bad_str" with an escape sequence that is not known.          *)
TypeKeywords == {"int", "double", "bool", "string", "void"}
IsTypeStart(type) == type \in TypeKeywords \cup {"struct"}
CanStartStatement == TypeKeywords \cup {"struct", "if", "while", "for", "return"}
Numbers == {"num", "zero", "huge"}

Node(kind, op, kids) == [kind |-> kind, op |-> op, kids |-> kids]
Leaf(kind, op) == Node(kind, op, <<>>)
Open(kind) == Leaf(kind, "")
NullOpt == Open("nullopt")  \* what declaration() returns after an error
Absent == Open("absent")    \* an optional child that is not there

(* Tasks: call a handler, consume(type, code), the loop of                 *)
(* parse_expression(n), the rest of a comma-separated list of items, and   *)
(* the catch of a declaration() entered with n nodes under construction.   *)
Task(do, item, type, code, n) ==
  [do |-> do, item |-> item, type |-> type, code |-> code, n |-> n]
Do(handler) == Task(handler, "", "", "", 0)
Consume(type, code) == Task("consume", "", type, code, 0)
InfixLoop(precedence) == Task("infix", "", "", "", precedence)
MoreItems(item, close, code) == Task("more", item, close, code, 0)
Catch(height) == Task("catch", "", "", "", height)

Identifier == Consume("id", "expected_identifier")
Semicolon == Consume(";", "expected_semicolon")
RightParen == Consume(")", "expected_right_paren")
RightBrace == Consume("}", "expected_right_brace")
Items(item, close, code) == Task("items", item, close, code, 0)

Start(text) ==
  /\ tokens_ = Append(text, "eof")
  /\ current_ = 1
  /\ todo = <<Do("parse")>>
  /\ built = <<Open("program")>>
  /\ sink = <<>> /\ mode = "parsing"

Init == \E text \in Sources : Start(text)

---------------------------------------------------------------------------
(* Reading tokens.  "outside" would be a read outside the span.            *)

TokenAt(i) == IF i \in DOMAIN tokens_ THEN tokens_[i] ELSE "outside"
Peek == TokenAt(current_)
IsAtEnd == Peek = "eof"
After(i) == IF TokenAt(i) = "eof" THEN i ELSE i + 1

Step == mode = "parsing" /\ todo # <<>>
At(handler) == Step /\ Head(todo).do = handler

(* The handler in front goes on as `tasks`, n tokens further on.           *)
Proceed(n, tasks) ==
  /\ current_' = current_ + n
  /\ todo' = tasks \o Tail(todo)
  /\ UNCHANGED <<tokens_, sink, mode>>

Push(node) == built' = Append(built, node)
Wrap(kind, op) == built' = Append(Front(built), Node(kind, op, <<Last(built)>>))
AddKid(parent, kid) ==
  IF kid.kind = "nullopt" THEN parent ELSE [parent EXCEPT !.kids = Append(@, kid)]

---------------------------------------------------------------------------
(* Errors.                                                                 *)

(* synchronize(): past the token that it finds in any case, then on to a   *)
(* boundary of statements outside the braces that it skips, or over the    *)
(* brace that closes the block it is in.                                   *)
Braces(brace, from, i) == Cardinality({j \in from .. i - 1 : TokenAt(j) = brace})

(* Faulty: the braces on the way are not counted.                          *)
BracesNotCounted(from, i) == TRUE

Opened(from, i) == Braces("{", from, i)
Closed(from, i) == Braces("}", from, i)
OutsideBraces(from, i) == Opened(from, i) = Closed(from, i)

(* A semicolon is one only before another token than a brace: "; {" skips  *)
(* the block, and "; }" leaves the one the error is in.                    *)
AtBoundary(i) ==
  /\ TokenAt(i) \notin {"{", "}"}
  /\ \/ TokenAt(i - 1) = ";"
     \/ TokenAt(i - 1) = "}" /\ TokenAt(i) \in CanStartStatement

SkipTo(from) ==
  LET stops(i) ==
        \/ TokenAt(i) = "eof"
        \/ OutsideBraces(from, i) /\ (TokenAt(i) = "}" \/ AtBoundary(i))
      stop == Min({i \in from .. Len(tokens_) : stops(i)})
  IN  IF TokenAt(stop) = "}" THEN stop + 1 ELSE stop

SynchronizeInPlace(from) == SkipTo(from)
SynchronizePastTheEnd(from) ==
  IF TokenAt(from) = "eof" THEN from + 1 ELSE SkipTo(from + 1)
Synchronize(from) == SkipTo(After(from))

NotReported(at, code) == sink
Reported(at, code) == Append(sink, [at |-> at, code |-> code])

(* raise_error() for token `at`, with the parser at token `from`; then the *)
(* catch of the innermost declaration().                                   *)
Raise(at, from, code) ==
  LET catch == Min({i \in DOMAIN todo : todo[i].do = "catch"})
  IN  /\ Len(sink) < MaxReports
      /\ sink' = Reported(at, code)
      /\ current_' = Synchronize(from)
      /\ built' = Append(SubSeq(built, 1, todo[catch].n), NullOpt)
      /\ todo' = SubSeq(todo, catch + 1, Len(todo))
      /\ UNCHANGED <<tokens_, mode>>

(* A value_error is no parse_error: it leaves parse().                     *)
Escape ==
  /\ mode' = "escaped"
  /\ todo' = <<>>
  /\ UNCHANGED <<tokens_, current_, built, sink>>

ConsumeToken ==
  /\ At("consume")
  /\ IF Peek = Head(todo).type
     THEN Proceed(1, <<>>) /\ UNCHANGED built
     ELSE Raise(current_, current_, Head(todo).code)

(* The node on top is complete: it becomes the last child of the one       *)
(* below.  An absent statement is not added.                               *)
Add ==
  /\ At("add")
  /\ LET parent == built[Len(built) - 1]
     IN  built' = Append(SubSeq(built, 1, Len(built) - 2), AddKid(parent, Last(built)))
  /\ Proceed(0, <<>>)

---------------------------------------------------------------------------
(* Declarations.                                                           *)

Parse ==
  /\ At("parse") /\ UNCHANGED built
  /\ IF IsAtEnd
     THEN /\ mode' = "parsed" /\ todo' = <<>>
          /\ UNCHANGED <<tokens_, current_, sink>>
     ELSE Proceed(0, <<Do("declaration"), Do("add"), Do("parse")>>)

(* Catch(n) is under the body until the body returns.                      *)
Declaration ==
  /\ At("declaration") /\ UNCHANGED built
  /\ LET Body(n, tasks) == Proceed(n, tasks \o <<Catch(Len(built))>>)
     IN  CASE Peek = "struct" -> Body(1, <<Identifier, Do("struct_or_variable")>>)
           [] Peek \in TypeKeywords ->
                Body(0, <<Do("type"), Identifier, Do("declarator")>>)
           [] OTHER -> Body(0, <<Do("statement")>>)

LeaveDeclaration == At("catch") /\ Proceed(0, <<>>) /\ UNCHANGED built

StructOrVariable ==
  /\ At("struct_or_variable")
  /\ IF Peek = "{"
     THEN Push(Open("struct")) /\ Proceed(1, <<Do("fields")>>)
     ELSE Push(Leaf("type", "struct")) /\ Proceed(0, <<Identifier, Do("declarator")>>)

StructFields ==
  /\ At("fields") /\ UNCHANGED built
  /\ IF Peek = "}" \/ IsAtEnd
     THEN Proceed(0, <<RightBrace, Semicolon>>)
     ELSE Proceed(0, <<Do("type"), Identifier, Do("dimensions"), Semicolon,
                       Do("add"), Do("fields")>>)

Declarator ==
  /\ At("declarator")
  /\ IF Peek = "("
     THEN /\ Wrap("func", "")
          /\ Proceed(1, <<Items("parameter", ")", "expected_right_paren"),
                          Consume("{", "expected_left_brace"),
                          Do("open_block"), Do("add")>>)
     ELSE UNCHANGED built /\ Proceed(0, <<Do("dimensions"), Do("initializer")>>)

Parameter ==
  /\ At("parameter") /\ UNCHANGED built
  /\ Proceed(0, <<Do("type"), Identifier, Do("dimensions")>>)

Initializer ==
  /\ At("initializer")
  /\ Wrap("var", "")
  /\ IF Peek = "=" THEN Proceed(1, <<Do("element"), Do("add"), Semicolon>>)
     ELSE Proceed(0, <<Semicolon>>)

ParseType ==
  /\ At("type")
  /\ CASE Peek = "struct" -> Push(Leaf("type", "struct")) /\ Proceed(1, <<Identifier>>)
       [] Peek \in TypeKeywords -> Push(Leaf("type", Peek)) /\ Proceed(1, <<>>)
       [] OTHER -> Raise(current_, current_, "expected_type")

(* The sizes are gathered first; the last one is the innermost.            *)
ArrayType(base, sizes) ==
  FoldRight(LAMBDA size, type : Node("array", size.op, <<type>>), sizes, base)

Dimensions ==
  /\ At("dimensions")
  /\ IF Peek = "[" THEN Push(Open("sizes")) /\ Proceed(0, <<Do("size")>>)
     ELSE UNCHANGED built /\ Proceed(0, <<>>)

ArraySize ==
  /\ At("size")
  /\ LET size == TokenAt(current_ + 1)
         Sized(op) == built' = Append(Front(built), AddKid(Last(built), Leaf("size", op)))
         types == Front(built)
         close == Consume("]", "expected_right_bracket")
     IN  CASE Peek # "[" ->
                /\ built' = Append(Front(types), ArrayType(Last(types), Last(built).kids))
                /\ Proceed(0, <<>>)
           [] Peek = "[" /\ size = "num" -> Sized("num") /\ Proceed(2, <<close, Do("size")>>)
           [] Peek = "[" /\ size \in Numbers \ {"num"} ->
                Raise(current_ + 1, current_ + 2, "unexpected_token")
           [] Peek = "[" /\ size \notin Numbers ->
                Sized("") /\ Proceed(1, <<close, Do("size")>>)

---------------------------------------------------------------------------
(* Statements.                                                             *)

Condition(code) ==
  <<Consume("(", code), Do("assignment"), Do("add"),
    Consume(")", "expected_right_paren_condition"), Do("statement"), Do("add")>>

Statement ==
  /\ At("statement")
  /\ CASE Peek = "while" ->
            Push(Open("while")) /\ Proceed(1, Condition("expected_left_paren_while"))
       [] Peek = "for" ->
            /\ Push(Open("for"))
            /\ Proceed(1, <<Consume("(", "expected_left_paren_for"), Do("for_initializer"),
                            Do("for_condition"), Do("for_increment"),
                            Do("statement"), Do("add")>>)
       [] Peek = "if" ->
            /\ Push(Open("if"))
            /\ Proceed(1, Condition("expected_left_paren_if") \o <<Do("else")>>)
       [] Peek = "return" -> Push(Open("return")) /\ Proceed(1, <<Do("return_value")>>)
       [] Peek = "{" -> UNCHANGED built /\ Proceed(1, <<Do("open_block")>>)
       [] OTHER ->
            /\ Push(Open("expression"))
            /\ Proceed(0, <<Do("assignment"), Do("add"), Semicolon>>)

AddAbsent == built' = Append(Front(built), AddKid(Last(built), Absent))

ForInitializer ==
  /\ At("for_initializer")
  /\ CASE Peek = ";" -> AddAbsent /\ Proceed(1, <<>>)
       [] IsTypeStart(Peek) ->
            /\ UNCHANGED built
            /\ Proceed(0, <<Do("type"), Identifier, Do("dimensions"),
                            Do("initializer"), Do("add")>>)
       [] OTHER -> UNCHANGED built /\ Proceed(0, <<Do("statement"), Do("add")>>)

(* An optional expression, up to the token `end`.                          *)
Optional(end) ==
  IF Peek = end.type THEN AddAbsent /\ Proceed(0, <<end>>)
  ELSE UNCHANGED built /\ Proceed(0, <<Do("assignment"), Do("add"), end>>)

ForCondition == At("for_condition") /\ Optional(Semicolon)
ForIncrement == At("for_increment") /\ Optional(RightParen)
ReturnValue == At("return_value") /\ Optional(Semicolon)

ElseBranch ==
  /\ At("else") /\ UNCHANGED built
  /\ IF Peek = "else" THEN Proceed(1, <<Do("statement"), Do("add")>>)
     ELSE Proceed(0, <<>>)

OpenBlock ==
  /\ At("open_block")
  /\ Push(Open("block"))
  /\ Proceed(0, <<Do("block")>>)

BlockNeverEnds ==
  /\ At("block") /\ UNCHANGED built
  /\ IF Peek = "}" THEN Proceed(0, <<RightBrace>>)
     ELSE Proceed(0, <<Do("declaration"), Do("add"), Do("block")>>)
BlockStatement ==
  /\ At("block") /\ UNCHANGED built
  /\ IF Peek = "}" \/ IsAtEnd THEN Proceed(0, <<RightBrace>>)
     ELSE Proceed(0, <<Do("declaration"), Do("add"), Do("block")>>)

---------------------------------------------------------------------------
(* Expressions.                                                            *)

AssignmentOperators ==
  {"=", "+=", "-=", "*=", "/=", "%=", "&=", "|=", "~=", "^=", "<<=", ">>="}
PrefixOperators == {"!", "-", "++", "--", "~"}

InfixOperators ==
  {"||", "&&", "|", "^", "&", "==", "!=", "<", "<=", ">", ">=", "<<", ">>",
   "+", "-", "*", "/", "%"}
InfixTable ==
  [op \in InfixOperators |->
     CASE op = "||" -> 2 [] op = "&&" -> 3 [] op = "|" -> 4 [] op = "^" -> 5 [] op = "&" -> 6
       [] op \in {"==", "!="} -> 7 [] op \in {"<", "<=", ">", ">="} -> 8
       [] op \in {"<<", ">>"} -> 9 [] op \in {"+", "-"} -> 10 [] op \in {"*", "/", "%"} -> 11]

Assignment ==
  /\ At("assignment") /\ UNCHANGED built
  /\ Proceed(0, <<Do("unary"), InfixLoop(0), Do("assign")>>)

AssignmentTail ==
  /\ At("assign")
  /\ IF Peek \in AssignmentOperators
     THEN Wrap("assignment", Peek) /\ Proceed(1, <<Do("assignment"), Do("add")>>)
     ELSE UNCHANGED built /\ Proceed(0, <<>>)

RightOperandSamePrecedence(op) == InfixTable[op]
RightOperand(op) == InfixTable[op] + 1

ParseExpression ==
  /\ At("infix")
  /\ IF Peek \in DOMAIN InfixTable /\ InfixTable[Peek] >= Head(todo).n
     THEN /\ Wrap("binary", Peek)
          /\ Proceed(1, <<Do("unary"), InfixLoop(RightOperand(Peek)), Do("add"), Head(todo)>>)
     ELSE UNCHANGED built /\ Proceed(0, <<>>)

Unary ==
  /\ At("unary")
  /\ IF Peek \in PrefixOperators
     THEN Push(Leaf("unary", Peek)) /\ Proceed(1, <<Do("unary"), Do("add")>>)
     ELSE UNCHANGED built /\ Proceed(0, <<Do("primary"), Do("postfix")>>)

Postfix ==
  /\ At("postfix")
  /\ CASE Peek = "[" ->
            /\ Wrap("index", "")
            /\ Proceed(1, <<Do("assignment"), Do("add"),
                            Consume("]", "expected_right_bracket"), Do("postfix")>>)
       [] Peek = "." -> Wrap("member", "") /\ Proceed(1, <<Identifier, Do("postfix")>>)
       [] Peek \in {"++", "--"} -> Wrap("postfix", Peek) /\ Proceed(1, <<Do("postfix")>>)
       [] OTHER -> UNCHANGED built /\ Proceed(0, <<>>)

(* Items up to a closing token, with a comma between two of them: the      *)
(* arguments, the parameters, the elements of an initializer list.         *)
ItemList ==
  /\ At("items") /\ UNCHANGED built
  /\ LET list == Head(todo)
     IN  IF Peek = list.type THEN Proceed(0, <<Consume(list.type, list.code)>>)
         ELSE Proceed(0, <<Do(list.item), Do("add"),
                           MoreItems(list.item, list.type, list.code)>>)

NextItem ==
  /\ At("more") /\ UNCHANGED built
  /\ LET list == Head(todo)
     IN  IF Peek = "," THEN Proceed(1, <<Do(list.item), Do("add"), list>>)
         ELSE Proceed(0, <<Consume(list.type, list.code)>>)

OpenList ==
  /\ Push(Open("list"))
  /\ Proceed(1, <<Items("element", "}", "expected_right_brace")>>)

(* An element of a list, and the initializer of a variable.                *)
Element ==
  /\ At("element")
  /\ IF Peek = "{" THEN OpenList
     ELSE UNCHANGED built /\ Proceed(0, <<Do("assignment")>>)

Primary ==
  /\ At("primary")
  /\ CASE Peek \in {"num", "zero", "str", "true", "false"} ->
            Push(Leaf("literal", Peek)) /\ Proceed(1, <<>>)
       [] Peek = "huge" -> Escape
       [] Peek = "bad_str" -> Raise(current_, current_ + 1, "unexpected_character")
       [] Peek = "id" /\ TokenAt(current_ + 1) = "(" ->
            /\ Push(Open("call"))
            /\ Proceed(2, <<Items("assignment", ")", "expected_right_paren")>>)
       [] Peek = "id" /\ TokenAt(current_ + 1) # "(" ->
            Push(Open("variable")) /\ Proceed(1, <<>>)
       [] Peek = "(" -> UNCHANGED built /\ Proceed(1, <<Do("assignment"), RightParen>>)
       [] Peek = "{" -> OpenList
       [] OTHER -> Raise(current_, current_, "expected_expression")

Next ==
  \/ ConsumeToken \/ Add
  \/ Parse \/ Declaration \/ LeaveDeclaration \/ StructOrVariable \/ StructFields
  \/ Declarator \/ Parameter \/ Initializer \/ ParseType \/ Dimensions \/ ArraySize
  \/ Statement \/ ForInitializer \/ ForCondition \/ ForIncrement \/ ReturnValue
  \/ ElseBranch \/ OpenBlock \/ BlockStatement
  \/ Assignment \/ AssignmentTail \/ ParseExpression \/ Unary \/ Postfix
  \/ ItemList \/ NextItem \/ Element \/ Primary

Spec == Init /\ [][Next]_vars /\ WF_vars(Next)

---------------------------------------------------------------------------

(* The parser stays inside the span of tokens, which it can read only up   *)
(* to END_OF_FILE, and a parse_error always finds a declaration() to catch *)
(* it, with the nodes that declaration() found (parser.cpp:104-131).       *)
TypeOK ==
  /\ current_ \in DOMAIN tokens_
  /\ mode \in {"parsing", "parsed", "escaped"}
  /\ mode = "parsing" => todo # <<>> /\ Last(todo) = Do("parse")
  /\ mode = "parsed" => IsAtEnd /\ Len(built) = 1
  /\ \A i \in DOMAIN sink : sink[i].at \in 1 .. current_
  /\ \A i \in DOMAIN todo : todo[i].do = "catch" => todo[i].n \in DOMAIN built
  /\ Step /\ Head(todo).do \notin {"parse", "declaration", "add"} =>
       \E i \in DOMAIN todo : todo[i].do = "catch"

(* No token but the end is reported twice, and reports come in the order   *)
(* of the source: recovery goes past what was reported                     *)
(* (parser.cpp:466, the first advance() of synchronize()).                 *)
ReportsAdvance ==
  \A i \in 2 .. Len(sink) :
    sink[i - 1].at < sink[i].at \/ TokenAt(sink[i].at) = "eof"

(* How far the parser has read when a handler raises: past a string that   *)
(* it could not take and past a size that is none.                         *)
RaisedAt ==
  CASE At("size") -> current_ + 2
    [] At("primary") /\ Peek = "bad_str" -> current_ + 1
    [] OTHER -> current_

(* Recovery keeps the nesting: behind the token that it drops in any case, *)
(* it passes blocks as a whole, and never goes on inside one that it       *)
(* entered; it leaves no block but the one it is in, by the brace on which *)
(* it stops (parser.cpp:468-487, parser.hpp:354).                          *)
Nesting(from, i) == Opened(from, i) - Closed(from, i)
RecoveryKeepsNesting ==
  [][sink' # sink =>
       LET from == After(RaisedAt)
       IN  /\ \A i \in from .. current_' - 1 : Nesting(from, i) >= 0
           /\ TokenAt(current_') = "eof" \/ Nesting(from, current_') <= 0]_vars

(* Whatever the tokens are, parse() ends: each error makes progress, and   *)
(* each loop stops at END_OF_FILE (parser.cpp:76, 195, 299, 470).          *)
ParsingEnds == <>(mode # "parsing")
============================================================================
