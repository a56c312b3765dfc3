--------------------------- MODULE ScopeEntries ---------------------------
(***************************************************************************)
(* The representation of core::scoped_map<T> (scoped_map.hpp): one vector  *)
(* of entries [name, value, scope_depth], outermost scope first, and the   *)
(* operations on it as operators.  ScopedMap is the state machine of the   *)
(* class itself; Interpreter (T = core::value) and TypeChecker (T =        *)
(* core::type) use the same operators on tables of their own.              *)
(***************************************************************************)
EXTENDS SequencesExt

Entry(name, value, depth) ==
  [name |-> name, value |-> value, scope_depth |-> depth]

---------------------------------------------------------------------------
(* Faulty variants of the definitions below.                               *)

PopOneEntry(es, d) ==
  IF es # <<>> /\ Last(es).scope_depth = d THEN Front(es) ELSE es
DefineOver(es, d, name, value) ==
  LET i == SelectLastInSeq(es, LAMBDA e : e.name = name)
  IN IF i = 0 THEN Append(es, Entry(name, value, d))
     ELSE [es EXCEPT ![i] = Entry(name, value, d)]
DeclaredLast(es, d, name) ==
  es # <<>> /\ Last(es).scope_depth >= d /\ Last(es).name = name
FindOutermost(es, name) == SelectInSeq(es, LAMBDA e : e.name = name)

---------------------------------------------------------------------------

(* pop(): the loop removes entries from the back while they have depth d,  *)
(* so it stops at the last entry of another depth.                         *)
PopEntries(es, d) ==
  SubSeq(es, 1, SelectLastInSeq(es, LAMBDA e : e.scope_depth # d))

(* define(): no check for a redeclaration.                                 *)
DefineEntry(es, d, name, value) == Append(es, Entry(name, value, d))

(* get(): the position of the innermost entry called name; 0 is nullptr.   *)
FindEntry(es, name) == SelectLastInSeq(es, LAMBDA e : e.name = name)

(* contains_in_current_scope()                                             *)
DeclaredInCurrentScope(es, d, name) ==
  \E i \in DOMAIN es : es[i].scope_depth >= d /\ es[i].name = name

===========================================================================
