------------------------------ MODULE Objects ------------------------------
(***************************************************************************)
(* Values made of several: the vectors that core::value (core/value) keeps *)
(* the elements of an array and the fields of a struct in.  heap is every  *)
(* vector made so far, by location.  An array value shares its vector with *)
(* its copies; a struct value is the only owner of its own.                *)
(***************************************************************************)
EXTENDS Types, Values

VARIABLE heap

(* What a value is made of: the new vectors go to the end of the heap,     *)
(* which has the length at, and those of the parts come before the whole.  *)
Plain(v) == [v |-> v, vectors |-> <<>>]

InVector(n, Part(_, _), Whole(_), at) ==
  LET put(done, i) ==
        LET part == Part(i, at + Len(done.vectors))
        IN [parts |-> Append(done.parts, part.v),
            vectors |-> done.vectors \o part.vectors]
      all == FoldLeft(put, [parts |-> <<>>, vectors |-> <<>>], [i \in 1 .. n |-> i])
  IN [v |-> Whole(at + Len(all.vectors) + 1),
      vectors |-> Append(all.vectors, all.parts)]

DefaultScalar(base) ==
  CASE base = "string" -> String(NotANumber)
    [] base \in Scalar \ {"string"} -> Value(base, 0)
    [] OTHER -> Void

(* default_value() of the type x[1]; x[2] says whether resolve_type() has  *)
(* given its structs their fields.                                         *)
DefaultValue[x \in TypeSet \X BOOLEAN \X Nat] ==
  LET type == x[1]  filled == x[2]
      element(i, at) == DefaultValue[<<Element(type), filled, at>>]
      field(i, at) == DefaultValue[<<FieldType(type, i), TRUE, at>>]
      fields == IF filled THEN Len(Fields(type.base)) ELSE 0
  IN CASE IsArray(type) -> InVector(Head(type.dims), element, Array, x[3])
       [] IsStruct(type) ->
            InVector(fields, field, LAMBDA at : Struct(type.base, at), x[3])
       [] OTHER -> Plain(DefaultScalar(type.base))

(* The copy constructor of value.                                          *)
Copy[x \in ValueSet \X Nat] ==
  LET field(i, at) == Copy[<<heap[x[1].n][i], at>>]
  IN IF x[1].t # "struct" THEN Plain(x[1])
     ELSE InVector(Len(heap[x[1].n]), field, LAMBDA at : Struct(x[1].s, at), x[2])

(* Whether one of the values, or a part of one, is the vector loc.         *)
PointsTo(v, loc) == v.t \in {"array", "struct"} /\ v.n = loc
Owned(loc, values) ==
  LET O[x \in Nat \X SUBSET Nat] ==
        \/ \E v \in values : PointsTo(v, x[1])
        \/ \E l \in DOMAIN heap \ x[2] :
              /\ \E i \in DOMAIN heap[l] : PointsTo(heap[l][i], x[1])
              /\ O[<<l, x[2] \cup {l}>>]
  IN O[<<loc, {loc}>>]
============================================================================
