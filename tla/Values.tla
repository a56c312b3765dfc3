------------------------------ MODULE Values ------------------------------
(***************************************************************************)
(* core::value (core/value/value.cpp) and the operations on it             *)
(* (core/value/operations.cpp).  A value is [t, n, s]: its alternative, a  *)
(* number, and the name of a struct.                                       *)
(*   int     n, a two's complement number of IntBits bits (64 in the code) *)
(*   double  n halves: enough to tell a truncated from an exact conversion *)
(*   bool    n = 0 or 1                                                    *)
(*   string  n, the number the text spells, or NotANumber                  *)
(*   array   n, the location of the vector it shares                       *)
(*   struct  n, the location of the vector of its fields, which it owns    *)
(*   void                                                                  *)
(* An operation that throws value_error{code} gives Fail(code).            *)
(***************************************************************************)
EXTENDS FiniteSetsExt, Integers, Sequences

CONSTANT IntBits

ASSUME IntBitsAssumption == IntBits \in Nat \ {0, 1}

IntMin == -(2 ^ (IntBits - 1))
IntMax == (2 ^ (IntBits - 1)) - 1
NotANumber == IntMax + 1

ValueSet == [t : STRING, n : Int, s : STRING]
Value(t, n) == [t |-> t, n |-> n, s |-> ""]
Integer(n) == Value("int", n)
Double(halves) == Value("double", halves)
Bool(b) == Value("bool", IF b THEN 1 ELSE 0)
String(n) == Value("string", n)
Array(location) == Value("array", location)
Void == Value("void", 0)
Struct(name, location) == [t |-> "struct", n |-> location, s |-> name]

ValueError == {"invalid_conversion", "division_by_zero", "modulo_by_zero"}
Fail(code) == Value(code, 0)
Failed(v) == v.t \in ValueError

(* The processor's trap on the one quotient that has no representation.    *)
Trap == Value("trap", 0)

---------------------------------------------------------------------------

Magnitude(n) == IF n < 0 THEN -n ELSE n

(* C++ division truncates toward zero; the remainder has a's sign.         *)
Quotient(a, b) ==
  (IF (a < 0) = (b < 0) THEN 1 ELSE -1) * (Magnitude(a) \div Magnitude(b))

(* Faulty: the remainder of arithmetic.                                    *)
RemainderOfFloor(a, b) == a % Magnitude(b)

Remainder(a, b) == a - b * Quotient(a, b)

(* Signed overflow, as the build's add, sub and imul leave it.             *)
Wrap(n) == ((n - IntMin) % (2 ^ IntBits)) + IntMin

(* cvttsd2si gives IntMin for a double that is out of range.               *)
Truncate(halves) ==
  LET n == Quotient(halves, 2)
  IN IF n \in IntMin .. IntMax THEN n ELSE IntMin

(* An integer with two's complement bits in P.                             *)
Bit(n, i) == ((n - IntMin) \div (2 ^ i)) % 2 # (IF i = IntBits - 1 THEN 1 ELSE 0)
Bits(P(_)) ==
  Wrap(MapThenSumSet(LAMBDA i : 2 ^ i, {i \in 0 .. IntBits - 1 : P(i)}))

(* The shift instructions use the count's low bits only.                   *)
ShiftCount(n) == n % IntBits

---------------------------------------------------------------------------
(* Conversions.                                                            *)

ToInt(v) ==
  CASE v.t \in {"int", "bool"} -> Integer(v.n)
    [] v.t = "double" -> Integer(Truncate(v.n))
    [] v.t = "string" /\ v.n # NotANumber -> Integer(v.n)
    [] OTHER -> Fail("invalid_conversion")

ToDouble(v) ==
  CASE v.t = "int" -> Double(2 * v.n)
    [] v.t = "double" -> v
    [] v.t = "string" /\ v.n # NotANumber -> Double(2 * v.n)
    [] OTHER -> Fail("invalid_conversion")

ToBool(v) ==
  IF v.t \in {"int", "double", "bool"} THEN Bool(v.n # 0)
  ELSE Fail("invalid_conversion")

IsTrue(v) == v.n # 0

---------------------------------------------------------------------------
(* Operations.  Lift evaluates its operands left to right, as invoke does. *)

Lift(x, y, result) ==
  IF Failed(x) THEN x ELSE IF Failed(y) THEN y ELSE result

IntResult(op, a, b) ==
  CASE op = "+" -> Integer(Wrap(a + b))
    [] op = "-" -> Integer(Wrap(a - b))
    [] op = "*" -> Integer(Wrap(a * b))
    [] op = "/" /\ b = 0 -> Fail("division_by_zero")
    [] op = "/" /\ a = IntMin /\ b = -1 -> Trap
    [] op = "/" -> Integer(Quotient(a, b))

(* Products and quotients are rounded to a half.                           *)
DoubleResult(op, a, b) ==
  CASE op = "+" -> Double(a + b)
    [] op = "-" -> Double(a - b)
    [] op = "*" -> Double(Quotient(a * b, 2))
    [] op = "/" /\ b = 0 -> Fail("division_by_zero")
    [] op = "/" -> Double(Quotient(2 * a, b))

Ordered(op, a, b) ==
  CASE op = "<" -> a < b
    [] op = "<=" -> a <= b
    [] op = ">" -> a > b
    [] op = ">=" -> a >= b

BothInt(x, y) == x.t = "int" /\ y.t = "int"

Arithmetic(op, x, y) ==
  IF BothInt(x, y) THEN IntResult(op, x.n, y.n)
  ELSE Lift(ToDouble(x), ToDouble(y),
            DoubleResult(op, ToDouble(x).n, ToDouble(y).n))

Comparison(op, x, y) ==
  IF BothInt(x, y) THEN Bool(Ordered(op, x.n, y.n))
  ELSE Lift(ToDouble(x), ToDouble(y),
            Bool(Ordered(op, ToDouble(x).n, ToDouble(y).n)))

(* mod() converts and tests the divisor first, and always gives an int.    *)
Mod(x, y) ==
  LET a == ToInt(x) b == ToInt(y)
  IN CASE Failed(b) -> b
       [] b.n = 0 -> Fail("modulo_by_zero")
       [] Failed(a) -> a
       [] a.n = IntMin /\ b.n = -1 -> Trap
       [] OTHER -> Integer(Remainder(a.n, b.n))

(* eq(): different kinds of value are unequal, except int and double.      *)
Equal(x, y) ==
  IF {x.t, y.t} = {"int", "double"} THEN ToDouble(x).n = ToDouble(y).n
  ELSE x.t = y.t /\ x.t \in {"int", "double", "bool", "string"} /\ x.n = y.n

BitResult(op, a, b) ==
  CASE op = "&" -> Bits(LAMBDA i : Bit(a, i) /\ Bit(b, i))
    [] op = "|" -> Bits(LAMBDA i : Bit(a, i) \/ Bit(b, i))
    [] op = "^" -> Bits(LAMBDA i : Bit(a, i) # Bit(b, i))
    [] op = "<<" -> Wrap(a * (2 ^ ShiftCount(b)))
    [] op = ">>" -> a \div (2 ^ ShiftCount(b))

BitOperation(op, x, y) ==
  Lift(ToInt(x), ToInt(y), Integer(BitResult(op, ToInt(x).n, ToInt(y).n)))

(* The switch shared by binary and compound operators.                     *)
Apply(op, x, y) ==
  CASE op \in {"+", "-", "*", "/"} -> Arithmetic(op, x, y)
    [] op = "%" -> Mod(x, y)
    [] op = "==" -> Bool(Equal(x, y))
    [] op = "!=" -> Bool(~ Equal(x, y))
    [] op \in {"<", "<=", ">", ">="} -> Comparison(op, x, y)
    [] OTHER -> BitOperation(op, x, y)

Negate(v) ==
  IF v.t = "int" THEN Integer(Wrap(-v.n))
  ELSE Lift(ToDouble(v), ToDouble(v), Double(-(ToDouble(v).n)))
Not(v) == Lift(ToBool(v), ToBool(v), Bool(~ IsTrue(v)))
Complement(v) == Lift(ToInt(v), ToInt(v), Integer(-(ToInt(v).n) - 1))

ApplyUnary(op, v) ==
  CASE op = "-" -> Negate(v)
    [] op = "!" -> Not(v)
    [] op = "~" -> Complement(v)

(* increment(), decrement(): d is 1 or -1; only numbers have a successor.  *)
Bumped(v, d) ==
  CASE v.t = "int" -> Integer(Wrap(v.n + d))
    [] v.t = "double" -> Double(v.n + 2 * d)
    [] OTHER -> Fail("invalid_conversion")
===========================================================================
