------------------------------ MODULE Grammar ------------------------------
(***************************************************************************)
(* What the parser promises: it is the inverse of writing a tree down.     *)
(* Unparse gives the tokens of a tree with the parentheses that the        *)
(* operators' levels require and no others; the levels are those of C, in  *)
(* order, and not the numbers of the parser's table.                       *)
(***************************************************************************)
EXTENDS Parser

CONSTANT Programs  \* trees of well-formed programs

VARIABLE written  \* the tree that was written down, if the text is one of those

reading == <<vars, written>>

Levels ==
  << {"assignment"}, {"||"}, {"&&"}, {"|"}, {"^"}, {"&"}, {"==", "!="},
     {"<", "<=", ">", ">="}, {"<<", ">>"}, {"+", "-"}, {"*", "/", "%"},
     {"unary"}, {"postfix"} >>
Level(e) ==
  LET name == CASE e.kind = "binary" -> e.op
                [] e.kind \in {"assignment", "unary"} -> e.kind
                [] OTHER -> "postfix"
  IN  CHOOSE n \in DOMAIN Levels : name \in Levels[n]

Joined(parts, separator) ==
  FoldLeftDomain(LAMBDA text, i : text \o (IF i = 1 THEN <<>> ELSE separator) \o parts[i],
                 <<>>, parts)

RECURSIVE Unparse(_)

Operand(e, level) ==
  IF Level(e) < level THEN <<"(">> \o Unparse(e) \o <<")">> ELSE Unparse(e)
Body(nodes) == Joined([i \in DOMAIN nodes |-> Unparse(nodes[i])], <<>>)

(* A declared name with its type: the sizes of an array follow the name,   *)
(* the outermost first.                                                    *)
RECURSIVE Base(_), Sizes(_)
Base(type) == IF type.kind = "array" THEN Base(type.kids[1])
              ELSE IF type.op = "struct" THEN <<"struct", "id">> ELSE <<type.op>>
Sizes(type) ==
  IF type.kind # "array" THEN <<>>
  ELSE (IF type.op = "" THEN <<"[", "]">> ELSE <<"[", type.op, "]">>) \o Sizes(type.kids[1])
Named(type) == Base(type) \o <<"id">> \o Sizes(type)
Nameds(types) == [i \in DOMAIN types |-> Named(types[i])]

Unparse(t) ==
  LET kid(i) == t.kids[i]
      optional(i) == IF kid(i).kind = "absent" THEN <<>> ELSE Unparse(kid(i))
      items == Joined([i \in DOMAIN t.kids |-> Unparse(t.kids[i])], <<",">>)
      last == Len(t.kids)
      level == Level(t)
  IN  CASE t.kind = "program" -> Body(t.kids)
        [] t.kind = "block" -> <<"{">> \o Body(t.kids) \o <<"}">>
        [] t.kind = "expression" -> Unparse(kid(1)) \o <<";">>
        [] t.kind = "var" ->
             Named(kid(1)) \o (IF last = 2 THEN <<"=">> \o Unparse(kid(2)) ELSE <<>>) \o <<";">>
        [] t.kind = "func" ->
             Named(kid(1)) \o <<"(">> \o Joined(Nameds(SubSeq(t.kids, 2, last - 1)), <<",">>)
               \o <<")">> \o Unparse(kid(last))
        [] t.kind = "struct" ->
             <<"struct", "id", "{">>
               \o Joined([i \in DOMAIN t.kids |-> Named(kid(i)) \o <<";">>], <<>>)
               \o <<"}", ";">>
        [] t.kind = "while" ->
             <<"while", "(">> \o Unparse(kid(1)) \o <<")">> \o Unparse(kid(2))
        [] t.kind = "for" ->
             <<"for", "(">> \o (IF kid(1).kind = "absent" THEN <<";">> ELSE Unparse(kid(1)))
               \o optional(2) \o <<";">> \o optional(3) \o <<")">> \o Unparse(kid(4))
        [] t.kind = "if" ->
             <<"if", "(">> \o Unparse(kid(1)) \o <<")">> \o Unparse(kid(2))
               \o (IF last = 3 THEN <<"else">> \o Unparse(kid(3)) ELSE <<>>)
        [] t.kind = "return" -> <<"return">> \o optional(1) \o <<";">>
        [] t.kind = "literal" -> <<t.op>>
        [] t.kind = "variable" -> <<"id">>
        [] t.kind = "call" -> <<"id", "(">> \o items \o <<")">>
        [] t.kind = "list" -> <<"{">> \o items \o <<"}">>
        [] t.kind = "assignment" -> Operand(kid(1), level + 1) \o <<t.op>> \o Operand(kid(2), level)
        [] t.kind = "binary" -> Operand(kid(1), level) \o <<t.op>> \o Operand(kid(2), level + 1)
        [] t.kind = "unary" -> <<t.op>> \o Operand(kid(1), level)
        [] t.kind = "postfix" -> Operand(kid(1), level) \o <<t.op>>
        [] t.kind = "index" -> Operand(kid(1), level) \o <<"[">> \o Unparse(kid(2)) \o <<"]">>
        [] t.kind = "member" -> Operand(kid(1), level) \o <<".", "id">>

---------------------------------------------------------------------------

ReadInit ==
  \/ \E program \in Programs : Start(Unparse(program)) /\ written = program
  \/ Init /\ written = NullOpt
ReadNext == Next /\ UNCHANGED written
ReadSpec == ReadInit /\ [][ReadNext]_reading /\ WF_reading(ReadNext)

(* A program that is written down is read back as it was, without a        *)
(* report: operators bind as their levels say, to the left, assignments to *)
(* the right, prefix operators tighter than any infix one, an else to the  *)
(* nearest if, and the first size of an array is the outermost             *)
(* (parser.cpp:31-55, 153, 282, 310-365).                                  *)
ReadsWhatIsWritten ==
  mode # "parsing" /\ written # NullOpt =>
    sink = <<>> /\ mode = "parsed" /\ built = <<written>>

(* A text that gets no report is a program: the tree has every token of it *)
(* in its place.  Nothing that was skipped, by recovery or by a handler    *)
(* that forgets a part, goes unreported; only parentheses leave no node    *)
(* (parser.cpp:128-131, 436-440).                                          *)
Unparenthesized(text) == SelectSeq(text, LAMBDA t : t \notin {"(", ")"})
NothingIgnored ==
  mode = "parsed" /\ sink = <<>> =>
    Unparenthesized(Unparse(built[1])) = Unparenthesized(Front(tokens_))
============================================================================
