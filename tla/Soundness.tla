----------------------------- MODULE Soundness -----------------------------
(***************************************************************************)
(* What the type checker's verdict is worth at run time: properties that   *)
(* relate the types of a program's text to the values of its run.          *)
(***************************************************************************)
EXTENDS Pipeline

(* What the names of a program are declared as.                            *)
Declared ==
  LET text == Text(program)
      of(kind) == {n \in text : Ast[n].kind = kind}
  IN  {Param(Ast[n].type, Ast[n].name) : n \in of("var")}
      \cup UNION {Range(Ast[n].params) : n \in of("func")}

SameButSize(s, t) ==
  /\ s.base = t.base /\ Len(s.dims) = Len(t.dims)
  /\ IsArray(s) => Tail(s.dims) = Tail(t.dims)

(* A program of known types in which a name means things of one type,      *)
(* wherever it is looked up.                                               *)
Regular ==
  LET declared == Declared
  IN /\ Checker!KnownTypes
     /\ \A d, e \in declared : e.name = d.name => SameButSize(e.type, d.type)

HasType[x \in ValueSet \X TypeSet] ==
  LET v == x[1]  type == x[2]  parts == heap[v.n]
      each(Part(_)) == \A i \in DOMAIN parts : HasType[<<parts[i], Part(i)>>]
  IN CASE IsArray(type) -> /\ v.t = "array"
                           /\ Head(type.dims) \in {0, Len(parts)}
                           /\ each(LAMBDA i : Element(type))
       [] IsStruct(type) -> /\ v.t = "struct" /\ v.s = type.base
                            /\ Len(parts) \in {0, Len(Fields(type.base))}
                            /\ each(LAMBDA i : FieldType(type, i))
       [] OTHER -> v.t = type.base \/ {v.t, type.base} = {"int", "double"}

---------------------------------------------------------------------------

(* In an accepted program where a name has one type, a variable holds a    *)
(* value of its type all the way down, whatever assignments, calls and     *)
(* defaults made it: every element, every field.  A compound assignment    *)
(* may turn an int into a double or back, and a struct that came from the  *)
(* end of a function has no fields (type_check.cpp:258-282, 355-389;       *)
(* interpreter.cpp:75-101, 255-276, 344-364).                              *)
VariablesKeepTheirTypes ==
  stage = "running" =>
    \/ LET declared == Declared
       IN \A i \in DOMAIN entries_ : \E d \in declared : 
            /\ d.name = entries_[i].name
            /\ HasType[<<entries_[i].value, Resolved(d.type)>>]
    \/ ~ Regular

(* In such a program a conversion fails only when a text spells no number: *)
(* operators, conditions and indices get values they can convert           *)
(* (type_check.cpp:107-132, 201-336, 412-426; value.cpp:69-98).            *)
ConversionsFailOnTextsOnly ==
  [][stage = "running" /\ mode = "run"
     /\ (mode' = "invalid_conversion" \/ sink' = Append(sink, "invalid_conversion"))
       => \/ Invoke("builtin") /\ Node.name \in {"stoi", "stod"}
          \/ ~ Regular]_pipeline

(* Every place that holds a value of the run: variables, operands, and the *)
(* elements of arrays and fields of structs that are still in use.         *)
Places ==
  {<<"entry", i, 0>> : i \in DOMAIN entries_}
  \cup {<<"temp", k, 0>> : k \in {j \in DOMAIN temps : ~ IsRef(temps[j])}}
  \cup LET live == LiveValues
       IN  UNION {{<<"heap", l, i>> : i \in DOMAIN heap[l]} :
                  l \in {m \in DOMAIN heap : Owned(m, live)}}
ValueAt(p) == CASE p[1] = "entry" -> entries_[p[2]].value
                [] p[1] = "temp" -> temps[p[2]]
                [] p[1] = "heap" -> heap[p[2]][p[3]]

(* A struct is a value: no two places share its vector of fields, however  *)
(* structs are passed, returned, initialized and nested, so no field       *)
(* written through one name changes under another.  An array in a field is *)
(* shared, as arrays are (value.hpp:181-184; interpreter.cpp:94, 276, 348).*)
StructsAreNotShared ==
  stage = "running" =>
    LET structs == {p \in Places : ValueAt(p).t = "struct"}
    IN  Cardinality({ValueAt(p).n : p \in structs}) = Cardinality(structs)

---------------------------------------------------------------------------
(* What the operators compute, in terms of arithmetic without overflow.    *)

Congruent(m, n) == (m - n) % (2 ^ IntBits) = 0
Sign(n) == IF n = 0 THEN 0 ELSE IF n < 0 THEN -1 ELSE 1

(* r is what is left of a after a multiple of b, toward zero.              *)
IsRest(r, a, b) ==
  /\ Magnitude(r) < Magnitude(b) /\ Sign(r) \in {0, Sign(a)}
  /\ \E q \in -(2 * IntMax) .. 2 * IntMax : a = b * q + r

Unrepresentable(a, b) == a = IntMin /\ b = -1

IntegerLaw(op, a, b, r) ==
  LET power == 2 ^ (b % IntBits)
      is(o) == IsTrue(Apply(o, Integer(a), Integer(b)))
      bits(o) == BitResult(o, a, b)
  IN CASE op \in {"+", "-", "*"} ->
            Congruent(r.n, CASE op = "+" -> a + b [] op = "-" -> a - b [] op = "*" -> a * b)
       [] op \in {"/", "%"} /\ b = 0 -> Failed(r)
       [] op \in {"/", "%"} /\ Unrepresentable(a, b) -> r = Trap
       [] op \in {"/", "%"} /\ b # 0 /\ ~ Unrepresentable(a, b) ->
            IsRest(IF op = "%" THEN r.n ELSE a - b * r.n, a, b)
       [] op \in {"&", "|", "^"} -> /\ bits("&") + bits("|") = a + b
                                    /\ bits("|") - bits("&") = bits("^")
                                    /\ bits("^") = BitResult("^", -a - 1, -b - 1)
       [] op = "<<" -> Congruent(r.n, a * power)
       [] op = ">>" -> a - r.n * power \in 0 .. power - 1
       [] OTHER -> /\ Cardinality({o \in {"<", "==", ">"} : is(o)}) = 1
                   /\ is("<=") # is(">") /\ is(">=") # is("<") /\ is("!=") # is("==")

(* An operator gives a value of the type the checker gives the expression, *)
(* but % an int for doubles too; and on integers it gives an integer that  *)
(* the laws of arithmetic modulo 2^IntBits leave no choice about: quotient *)
(* and remainder belong together, of <, == and > one holds, and shifts     *)
(* scale by a power of two (operations.cpp:11-128, type_check.cpp:201-256).*)
(* A right operand of && or || is there only if the left one decides       *)
(* nothing (interpreter.cpp:221-229).                                      *)
OperatorsObeyArithmetic ==
  LET x == Temp(1)  y == Temp(0)
      r == Apply(Node.op, x, y)
      type == Checker!BinaryType(Node.op, Simple(x.t), Simple(y.t)).type
      logical == Node.op \in {"&&", "||"}
  IN At("apply") =>
     \/ logical /\ ToBool(x) = Bool(Node.op = "&&")
     \/ /\ ~ logical
        /\ type = Unknown \/ Thrown(r) \/ r.t = type.base \/ (r.t = "int" /\ Node.op = "%")
        /\ r.t = "int" => r.n \in IntMin .. IntMax
        /\ BothInt(x, y) => IntegerLaw(Node.op, x.n, y.n, r)
============================================================================
