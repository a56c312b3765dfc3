---------------------------- MODULE ScopeStack ----------------------------
(***************************************************************************)
(* What scoped_map promises its clients: nested scopes, each a mapping     *)
(* from names to values, in which an inner declaration shadows an outer    *)
(* one and closing a scope brings the outer ones back unchanged.  answer   *)
(* is what the last operation returned.                                    *)
(***************************************************************************)
EXTENDS SequencesExt

CONSTANTS Name, Value, Absent

VARIABLES scopes,   \* stack of scopes, the global one first
          answer    \* result of the last operation, Absent if it has none

vars == <<scopes, answer>>

EmptyScope == [n \in {} |-> Absent]

(* The innermost scope that declares name; 0 when none does.               *)
Innermost(name) == SelectLastInSeq(scopes, LAMBDA s : name \in DOMAIN s)

Init == scopes = <<EmptyScope>> /\ answer = Absent

Enter == scopes' = Append(scopes, EmptyScope) /\ answer' = Absent

Leave ==
  /\ Len(scopes) > 1
  /\ scopes' = Front(scopes)
  /\ answer' = Absent

(* Declaring again in the same scope hides the earlier value.              *)
Declare(name, value) ==
  /\ scopes' = [scopes EXCEPT ![Len(scopes)] =
                  [n \in DOMAIN @ \cup {name} |->
                     IF n = name THEN value ELSE @[n]]]
  /\ answer' = Absent

Lookup(name) ==
  /\ answer' = IF Innermost(name) = 0 THEN Absent
               ELSE scopes[Innermost(name)][name]
  /\ UNCHANGED scopes

Store(name, value) ==
  /\ Innermost(name) # 0
  /\ scopes' = [scopes EXCEPT ![Innermost(name)][name] = value]
  /\ answer' = Absent

AskDeclared(name) ==
  /\ answer' = (name \in DOMAIN Last(scopes))
  /\ UNCHANGED scopes

Next ==
  \/ Enter
  \/ Leave
  \/ \E n \in Name : Lookup(n) \/ AskDeclared(n)
  \/ \E n \in Name, v \in Value : Declare(n, v) \/ Store(n, v)

Spec == Init /\ [][Next]_vars
===========================================================================
