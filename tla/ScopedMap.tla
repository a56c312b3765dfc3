----------------------------- MODULE ScopedMap -----------------------------
(***************************************************************************)
(* core::scoped_map<T> with scope_guard as its only caller of push/pop     *)
(* (scoped_map.hpp).  One action per member function, and one for a client *)
(* that writes through the pointer get() returned, as the interpreter does.*)
(***************************************************************************)
EXTENDS ScopeEntries

CONSTANTS Name, Value,
          Absent,       \* "no answer": a void result or the null pointer
          MaxDepth,     \* bound on nesting, for model checking
          MaxEntries    \* bound on the vector, for model checking

ASSUME BoundsAssumption == MaxDepth \in Nat /\ MaxEntries \in Nat
ASSUME AbsentAssumption == Absent \notin Value

VARIABLES entries_,        \* the vector of entries
          current_depth_,  \* 0 is the global scope
          answer           \* result of the last operation

vars == <<entries_, current_depth_, answer>>

EntrySet == [name : Name, value : Value, scope_depth : Nat]

TypeOK ==
  /\ entries_ \in Seq(EntrySet)
  /\ current_depth_ \in 0 .. MaxDepth
  /\ answer \in Value \cup {Absent} \cup BOOLEAN

Init == entries_ = <<>> /\ current_depth_ = 0 /\ answer = Absent

Push ==
  /\ current_depth_ < MaxDepth
  /\ current_depth_' = current_depth_ + 1
  /\ answer' = Absent
  /\ UNCHANGED entries_

---------------------------------------------------------------------------
(* Faulty variants.                                                        *)

PopUnguarded ==
  /\ entries_' = PopEntries(entries_, current_depth_)
  /\ current_depth_' = current_depth_ - 1
  /\ answer' = Absent
PopKeepsEntries ==
  /\ current_depth_ > 0
  /\ current_depth_' = current_depth_ - 1
  /\ answer' = Absent
  /\ UNCHANGED entries_
---------------------------------------------------------------------------

(* Only ~scope_guard() calls pop(), so a pop always closes a pushed scope. *)
Pop ==
  /\ current_depth_ > 0
  /\ entries_' = PopEntries(entries_, current_depth_)
  /\ current_depth_' = current_depth_ - 1
  /\ answer' = Absent

Define(name, value) ==
  /\ Len(entries_) < MaxEntries
  /\ entries_' = DefineEntry(entries_, current_depth_, name, value)
  /\ answer' = Absent
  /\ UNCHANGED current_depth_

Get(name) ==
  /\ answer' = IF FindEntry(entries_, name) = 0 THEN Absent
               ELSE entries_[FindEntry(entries_, name)].value
  /\ UNCHANGED <<entries_, current_depth_>>

(* *get(name) = value                                                      *)
Assign(name, value) ==
  /\ FindEntry(entries_, name) # 0
  /\ entries_' = [entries_ EXCEPT ![FindEntry(entries_, name)].value = value]
  /\ answer' = Absent
  /\ UNCHANGED current_depth_

ContainsInCurrentScope(name) ==
  /\ answer' = DeclaredInCurrentScope(entries_, current_depth_, name)
  /\ UNCHANGED <<entries_, current_depth_>>

Next ==
  \/ Push
  \/ Pop
  \/ \E n \in Name : Get(n) \/ ContainsInCurrentScope(n)
  \/ \E n \in Name, v \in Value : Define(n, v) \/ Assign(n, v)

Spec == Init /\ [][Next]_vars

---------------------------------------------------------------------------

(* The vector keeps outer scopes before inner ones and holds no entry of a *)
(* scope that is closed.  get(), which scans backwards for the name alone, *)
(* and pop(), which stops at the first entry of another depth, are correct *)
(* only because of it (scoped_map.hpp:58-61, 83-87).                       *)
EntriesSorted ==
  /\ \A i \in DOMAIN entries_ : entries_[i].scope_depth <= current_depth_
  /\ \A i, j \in DOMAIN entries_ :
        i <= j => entries_[i].scope_depth <= entries_[j].scope_depth

(* Closing a scope is exact: what is left is the prefix of the vector that *)
(* the outer scopes own, nothing of theirs is lost and nothing of the      *)
(* closed scope stays (the note of pop(), scoped_map.hpp:51-57).           *)
PopIsExact ==
  [][current_depth_' < current_depth_ =>
       /\ IsPrefix(entries_', entries_)
       /\ \A i \in DOMAIN entries_ :
            i \in DOMAIN entries_' <=> entries_[i].scope_depth < current_depth_]_vars

(* The scopes a vector of entries stands for.                              *)
ScopeAt(d) ==
  LET mine == {i \in DOMAIN entries_ : entries_[i].scope_depth = d}
  IN [n \in {entries_[i].name : i \in mine} |->
        entries_[Max({i \in mine : entries_[i].name = n})].value]

Abstract == INSTANCE ScopeStack WITH
  scopes <- [k \in 1 .. current_depth_ + 1 |-> ScopeAt(k - 1)]

(* The vector with depth markers implements the stack of scopes: every     *)
(* answer get() and contains_in_current_scope() give is the answer nested  *)
(* scopes would give (scoped_map.hpp:19-36).                               *)
ImplementsScopeStack == Abstract!Spec
===========================================================================
