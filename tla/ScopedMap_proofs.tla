-------------------------- MODULE ScopedMap_proofs --------------------------
(***************************************************************************)
(* Theorems about scoped_map for every set of names and values and every   *)
(* bound on nesting and size.  The argument: EntriesSorted is inductive    *)
(* together with the types, because define() appends at the current depth, *)
(* which no entry exceeds, and pop() removes exactly the entries of that   *)
(* depth, which sortedness puts at the end of the vector.                  *)
(***************************************************************************)
EXTENDS ScopedMap, ScopeEntries_proofs

LEMMA EntryFields ==
  ASSUME NEW e \in EntrySet
  PROVE  e.name \in Name /\ e.value \in Value /\ e.scope_depth \in Nat
BY DEF EntrySet

LEMMA EntryUpdate ==
  ASSUME NEW e \in EntrySet, NEW v \in Value
  PROVE  LET u == [e EXCEPT !.value = v]
         IN  /\ u \in EntrySet
             /\ u.name = e.name /\ u.scope_depth = e.scope_depth /\ u.value = v
BY DEF EntrySet

(* Writing through the pointer of get() changes one value and no name,     *)
(* depth or position.                                                      *)
LEMMA AssignEffect ==
  ASSUME entries_ \in Seq(EntrySet), NEW n, NEW v \in Value, Assign(n, v)
  PROVE  /\ entries_' \in Seq(EntrySet)
         /\ Len(entries_') = Len(entries_)
         /\ DOMAIN entries_' = DOMAIN entries_
         /\ \A i \in DOMAIN entries_ :
              /\ entries_'[i].name = entries_[i].name
              /\ entries_'[i].scope_depth = entries_[i].scope_depth
              /\ entries_'[i].value = IF i = FindEntry(entries_, n)
                                        THEN v ELSE entries_[i].value
<1> DEFINE f == FindEntry(entries_, n)
<1>1. f \in 1 .. Len(entries_)
  <2>1. f \in 0 .. Len(entries_)
    BY FindEntryProperties
  <2> QED BY <2>1 DEF Assign
<1>2. entries_' = [entries_ EXCEPT ![f] = [@ EXCEPT !.value = v]]
  BY DEF Assign
<1> HIDE DEF f
<1> DEFINE u == [entries_[f] EXCEPT !.value = v]
<1>3. /\ u \in EntrySet
      /\ u.name = entries_[f].name
      /\ u.scope_depth = entries_[f].scope_depth
      /\ u.value = v
  <2>1. entries_[f] \in EntrySet
    BY <1>1, ElementOfSeq
  <2> QED BY <2>1, EntryUpdate
<1> HIDE DEF u
<1>4. /\ entries_' \in Seq(EntrySet)
      /\ Len(entries_') = Len(entries_)
      /\ \A i \in 1 .. Len(entries_) :
           entries_'[i] = IF i = f THEN u ELSE entries_[i]
  BY <1>1, <1>2, <1>3, ExceptSeq DEF u
<1>5. DOMAIN entries_' = 1 .. Len(entries_) /\ DOMAIN entries_ = 1 .. Len(entries_)
  BY <1>4
<1> QED BY <1>3, <1>4, <1>5 DEF f

---------------------------------------------------------------------------

(* Types hold in every reachable state; none of the operations relies on   *)
(* the order of the entries for that.                                      *)
THEOREM ScopedMapTypeCorrect == Spec => []TypeOK
<1>1. Init => TypeOK
  BY BoundsAssumption DEF Init, TypeOK
<1>2. TypeOK /\ [Next]_vars => TypeOK'
  <2> SUFFICES ASSUME TypeOK, [Next]_vars PROVE TypeOK'
    OBVIOUS
  <2>0. entries_ \in Seq(EntrySet) /\ current_depth_ \in Nat
    BY BoundsAssumption DEF TypeOK
  <2>1. CASE Push
    BY <2>1, BoundsAssumption DEF Push, TypeOK
  <2>2. CASE Pop
    <3>1. PopEntries(entries_, current_depth_) \in Seq(EntrySet)
      BY <2>0, PopEntriesProperties
    <3> QED BY <2>2, <3>1, BoundsAssumption DEF Pop, TypeOK
  <2>3. ASSUME NEW n \in Name, Get(n) PROVE TypeOK'
    <3>1. FindEntry(entries_, n) \in 0 .. Len(entries_)
      BY <2>0, FindEntryProperties
    <3>2. ASSUME FindEntry(entries_, n) # 0
          PROVE  entries_[FindEntry(entries_, n)].value \in Value
      <4>1. entries_[FindEntry(entries_, n)] \in EntrySet
        BY <2>0, <3>1, <3>2
      <4> QED BY <4>1 DEF EntrySet
    <3>3. answer' \in Value \cup {Absent}
      BY <2>3, <3>2 DEF Get
    <3> QED BY <2>3, <3>3 DEF Get, TypeOK
  <2>4. ASSUME NEW n \in Name, ContainsInCurrentScope(n) PROVE TypeOK'
    BY <2>4 DEF ContainsInCurrentScope, DeclaredInCurrentScope, TypeOK
  <2>5. ASSUME NEW n \in Name, NEW v \in Value, Define(n, v) PROVE TypeOK'
    <3>1. Entry(n, v, current_depth_) \in EntrySet
      BY <2>0 DEF Entry, EntrySet
    <3>2. entries_' \in Seq(EntrySet)
      BY <2>0, <2>5, <3>1, AppendProperties DEF Define, DefineEntry
    <3> QED BY <2>5, <3>2 DEF Define, TypeOK
  <2>6. ASSUME NEW n \in Name, NEW v \in Value, Assign(n, v) PROVE TypeOK'
    <3>1. entries_' \in Seq(EntrySet)
      BY <2>0, <2>6, AssignEffect
    <3> QED BY <2>6, <3>1 DEF Assign, TypeOK
  <2>7. CASE UNCHANGED vars
    BY <2>7 DEF vars, TypeOK
  <2> QED BY <2>1, <2>2, <2>3, <2>4, <2>5, <2>6, <2>7 DEF Next
<1> QED BY <1>1, <1>2, PTL DEF Spec

(* One step preserves the order.  define() appends at the current depth,   *)
(* which bounds every other; pop() removes every entry of the depth it     *)
(* leaves; writing through get()'s pointer moves no entry.                 *)
LEMMA SortedStep ==
  ASSUME TypeOK, EntriesSorted, [Next]_vars
  PROVE  EntriesSorted'
<1>0. current_depth_ \in Nat /\ entries_ \in Seq(EntrySet)
  BY BoundsAssumption DEF TypeOK
<1>1. IsTable(entries_) /\ Sorted(entries_, current_depth_)
  BY <1>0 DEF IsTable, EntrySet, EntriesOver, EntriesSorted, Sorted
<1>2. SUFFICES Sorted(entries_', current_depth_')
  BY DEF EntriesSorted, Sorted
<1>3. CASE Push
  BY <1>0, <1>1, <1>3, TableFacts DEF Push, Sorted
<1>4. CASE Pop
  BY <1>0, <1>1, <1>4, PopTable DEF Pop
<1>5. CASE \E n \in Name : Get(n) \/ ContainsInCurrentScope(n)
  BY <1>1, <1>5 DEF Get, ContainsInCurrentScope
<1>6. ASSUME NEW n \in Name, NEW v \in Value, Define(n, v)
      PROVE  Sorted(entries_', current_depth_')
  BY <1>0, <1>1, <1>6, DefineTable DEF Define
<1>7. ASSUME NEW n \in Name, NEW v \in Value, Assign(n, v)
      PROVE  Sorted(entries_', current_depth_')
  BY <1>0, <1>1, <1>7, StoreTable DEF Assign
<1>8. CASE UNCHANGED vars
  BY <1>1, <1>8 DEF vars
<1> QED BY <1>3, <1>4, <1>5, <1>6, <1>7, <1>8 DEF Next

(* The order of the vector, which get() and pop() rely on, always holds.   *)
THEOREM ScopedMapSorted == Spec => []EntriesSorted
<1>1. Init => EntriesSorted
  BY DEF Init, EntriesSorted
<1>2. TypeOK /\ EntriesSorted /\ [Next]_vars => EntriesSorted'
  BY SortedStep
<1> QED BY <1>1, <1>2, ScopedMapTypeCorrect, PTL DEF Spec

(* pop() removes the entries of the scope it closes and no other.          *)
THEOREM ScopedMapPopIsExact == Spec => PopIsExact
<1> DEFINE Exact == /\ IsPrefix(entries_', entries_)
                    /\ \A i \in DOMAIN entries_ :
                         i \in DOMAIN entries_' <=>
                           entries_[i].scope_depth < current_depth_
<1>1. ASSUME TypeOK, EntriesSorted, [Next]_vars, current_depth_' < current_depth_
      PROVE  Exact
  <2>0. entries_ \in Seq(EntrySet) /\ current_depth_ \in Nat
    BY <1>1, BoundsAssumption DEF TypeOK
  <2>a. \A i \in 1 .. Len(entries_) : entries_[i].scope_depth \in Nat
    BY <2>0, ElementOfSeq, EntryFields
  <2>1. Pop
    BY <1>1, <2>0 DEF Next, vars, Push, Get, ContainsInCurrentScope, Define, Assign
  <2>b. entries_' = PopEntries(entries_, current_depth_)
    BY <2>1 DEF Pop
  <2>c. PICK k \in 0 .. Len(entries_) :
          /\ PopEntries(entries_, current_depth_) = SubSeq(entries_, 1, k)
          /\ PopEntries(entries_, current_depth_) \in Seq(EntrySet)
          /\ Len(PopEntries(entries_, current_depth_)) = k
          /\ \A i \in 1 .. k :
               PopEntries(entries_, current_depth_)[i] = entries_[i]
          /\ k # 0 => entries_[k].scope_depth # current_depth_
          /\ \A i \in 1 .. Len(entries_) :
               i > k => entries_[i].scope_depth = current_depth_
    <3> DEFINE es == entries_
    <3>1. es \in Seq(EntrySet)
      BY <2>0
    <3> HIDE DEF es
    <3>2. \E k \in 0 .. Len(es) :
          /\ PopEntries(es, current_depth_) = SubSeq(es, 1, k)
          /\ PopEntries(es, current_depth_) \in Seq(EntrySet)
          /\ Len(PopEntries(es, current_depth_)) = k
          /\ \A i \in 1 .. k : PopEntries(es, current_depth_)[i] = es[i]
          /\ k # 0 => es[k].scope_depth # current_depth_
          /\ \A i \in 1 .. Len(es) :
               i > k => es[i].scope_depth = current_depth_
      BY <3>1, PopEntriesProperties
    <3> QED BY <3>2 DEF es
  <2>2. /\ entries_' = SubSeq(entries_, 1, k)
        /\ entries_' \in Seq(EntrySet)
        /\ Len(entries_') = k
        /\ k # 0 => entries_[k].scope_depth # current_depth_
        /\ \A i \in 1 .. Len(entries_) :
             i > k => entries_[i].scope_depth = current_depth_
    BY <2>b, <2>c
  <2>3. \A i \in 1 .. k : entries_[i].scope_depth < current_depth_
    BY <1>1, <2>0, <2>a, <2>2 DEF EntriesSorted
  <2>4. SubSeq(entries_', 1, k) = entries_'
    BY <2>2, SubSeqFull
  <2>5. IsPrefix(entries_', entries_)
    BY <2>0, <2>2, <2>4 DEF IsPrefix
  <2>6. DOMAIN entries_' = 1 .. k /\ DOMAIN entries_ = 1 .. Len(entries_)
    BY <2>0, <2>2
  <2> QED BY <2>0, <2>2, <2>3, <2>5, <2>6
<1>2. TypeOK /\ EntriesSorted /\ [Next]_vars
        => [current_depth_' < current_depth_ => Exact]_vars
  BY <1>1
<1> QED BY <1>2, ScopedMapTypeCorrect, ScopedMapSorted, PTL DEF Spec, PopIsExact

---------------------------------------------------------------------------
(* The vector implements a stack of scopes.  Each depth of the vector is   *)
(* one scope; the entries get() can reach in it are the last ones of their *)
(* names (IsLast), and a step of the vector changes the scopes exactly as  *)
(* the step of the stack does.                                             *)

ScopeOf(es, d) ==
  LET mine == {i \in DOMAIN es : es[i].scope_depth = d}
  IN [n \in {es[i].name : i \in mine} |->
        es[Max({i \in mine : es[i].name = n})].value]
Scopes(es, d) == [k \in 1 .. d + 1 |-> ScopeOf(es, k - 1)]

(* The entry get() would find if it looked at one scope only.              *)
IsLast(es, i, d) ==
  /\ i \in DOMAIN es /\ es[i].scope_depth = d
  /\ \A j \in DOMAIN es :
       j > i /\ es[j].scope_depth = d => es[j].name # es[i].name

(* A scope holds its last entry of each name, and nothing else.            *)
LEMMA ScopeFacts ==
  ASSUME NEW es, IsTable(es), NEW d
  PROVE  /\ \A n \in DOMAIN ScopeOf(es, d) :
              \E i : /\ IsLast(es, i, d) /\ es[i].name = n
                     /\ ScopeOf(es, d)[n] = es[i].value
         /\ \A i : IsLast(es, i, d) =>
              /\ es[i].name \in DOMAIN ScopeOf(es, d)
              /\ ScopeOf(es, d)[es[i].name] = es[i].value
<1> DEFINE mine == {i \in DOMAIN es : es[i].scope_depth = d}
           of(n) == {i \in mine : es[i].name = n}
<1>1. DOMAIN es = 1 .. Len(es) /\ Len(es) \in Nat
  BY TableFacts
<1>2. /\ DOMAIN ScopeOf(es, d) = {es[i].name : i \in mine}
      /\ \A n \in DOMAIN ScopeOf(es, d) : ScopeOf(es, d)[n] = es[Max(of(n))].value
  BY DEF ScopeOf
<1>3. ASSUME NEW n \in DOMAIN ScopeOf(es, d)
      PROVE  IsLast(es, Max(of(n)), d) /\ es[Max(of(n))].name = n
  <2>1. of(n) \in SUBSET (1 .. Len(es)) /\ of(n) # {}
    BY <1>1, <1>2
  <2>2. Max(of(n)) \in of(n) /\ \A y \in of(n) : Max(of(n)) >= y
    <3> HIDE DEF of
    <3> QED BY <1>1, <2>1, MaxOfBounded
  <2>3. ASSUME NEW j \in DOMAIN es, j > Max(of(n)), es[j].scope_depth = d
        PROVE  es[j].name # n
    <3> DEFINE m == Max(of(n))
    <3>1. m \in 1 .. Len(es) /\ (\A y \in of(n) : m >= y) /\ j \in 1 .. Len(es) /\ j > m
      BY <1>1, <2>1, <2>2, <2>3
    <3> HIDE DEF m, of
    <3>2. j \notin of(n)
      BY <1>1, <3>1
    <3>3. j \in mine
      BY <2>3
    <3> QED BY <3>2, <3>3 DEF of
  <2> QED BY <2>2, <2>3 DEF IsLast
<1>4. ASSUME NEW i, IsLast(es, i, d)
      PROVE  /\ es[i].name \in DOMAIN ScopeOf(es, d)
             /\ ScopeOf(es, d)[es[i].name] = es[i].value
  <2>1. es[i].name \in DOMAIN ScopeOf(es, d) /\ i \in of(es[i].name)
    BY <1>2, <1>4 DEF IsLast
  <2> DEFINE m == Max(of(es[i].name))
  <2>2. IsLast(es, m, d) /\ es[m].name = es[i].name
    BY <1>3, <2>1
  <2> HIDE DEF m
  <2>3. m = i
    BY <1>1, <1>4, <2>2 DEF IsLast
  <2> QED BY <1>2, <2>1, <2>3 DEF m
<1> HIDE DEF of
<1> QED BY <1>2, <1>3, <1>4

(* A scope is its last entries of each name.                               *)
LEMMA SameScope ==
  ASSUME NEW es, IsTable(es), NEW fs, IsTable(fs), NEW d,
         \A i : IsLast(es, i, d) =>
           IsLast(fs, i, d) /\ fs[i].name = es[i].name /\ fs[i].value = es[i].value,
         \A i : IsLast(fs, i, d) => IsLast(es, i, d)
  PROVE  ScopeOf(fs, d) = ScopeOf(es, d)
<1>a. /\ \A n \in DOMAIN ScopeOf(es, d) :
           \E i : /\ IsLast(es, i, d) /\ es[i].name = n
                  /\ ScopeOf(es, d)[n] = es[i].value
      /\ \A i : IsLast(es, i, d) =>
           /\ es[i].name \in DOMAIN ScopeOf(es, d)
           /\ ScopeOf(es, d)[es[i].name] = es[i].value
  BY ScopeFacts
<1>b. /\ \A n \in DOMAIN ScopeOf(fs, d) :
           \E i : /\ IsLast(fs, i, d) /\ fs[i].name = n
                  /\ ScopeOf(fs, d)[n] = fs[i].value
      /\ \A i : IsLast(fs, i, d) =>
           /\ fs[i].name \in DOMAIN ScopeOf(fs, d)
           /\ ScopeOf(fs, d)[fs[i].name] = fs[i].value
  BY ScopeFacts
<1>c. DOMAIN ScopeOf(fs, d) \subseteq DOMAIN ScopeOf(es, d)
  BY <1>a, <1>b
<1>d. DOMAIN ScopeOf(es, d) \subseteq DOMAIN ScopeOf(fs, d)
  BY <1>a, <1>b
<1>1. DOMAIN ScopeOf(fs, d) = DOMAIN ScopeOf(es, d)
  BY <1>c, <1>d
<1>2. \A n \in DOMAIN ScopeOf(es, d) : ScopeOf(fs, d)[n] = ScopeOf(es, d)[n]
  BY <1>a, <1>b
<1>3. ScopeOf(es, d) = [n \in DOMAIN ScopeOf(es, d) |-> ScopeOf(es, d)[n]]
  BY DEF ScopeOf
<1>4. ScopeOf(fs, d) = [n \in DOMAIN ScopeOf(fs, d) |-> ScopeOf(fs, d)[n]]
  BY DEF ScopeOf
<1> QED BY <1>1, <1>2, <1>3, <1>4

(* A depth without entries is an empty scope.                              *)
LEMMA EmptyScopeOf ==
  ASSUME NEW es, NEW d, \A i \in DOMAIN es : es[i].scope_depth # d
  PROVE  ScopeOf(es, d) = [n \in {} |-> Absent]
<1>1. {i \in DOMAIN es : es[i].scope_depth = d} = {}
  OBVIOUS
<1>2. DOMAIN ScopeOf(es, d) = {}
  BY <1>1 DEF ScopeOf
<1>3. ScopeOf(es, d) = [n \in DOMAIN ScopeOf(es, d) |-> ScopeOf(es, d)[n]]
  BY DEF ScopeOf
<1> QED BY <1>2, <1>3

(* pop() leaves a prefix, and what it removes is of its depth.             *)
LEMMA PopPrefix ==
  ASSUME NEW es, IsTable(es), NEW d
  PROVE  \E m \in 0 .. Len(es) :
           /\ Len(PopEntries(es, d)) = m
           /\ \A i \in 1 .. m : PopEntries(es, d)[i] = es[i]
           /\ \A i \in 1 .. Len(es) : i > m => es[i].scope_depth = d
<1>1. PICK N, V : es \in Seq(EntriesOver(N, V))
  BY DEF IsTable
<1> QED BY <1>1, PopEntriesProperties

(* Closing a scope leaves the outer scopes as they are.                    *)
LEMMA PopScopes ==
  ASSUME NEW es, IsTable(es), NEW d \in Nat \ {0}, Sorted(es, d),
         NEW k \in 0 .. d - 1
  PROVE  ScopeOf(PopEntries(es, d), k) = ScopeOf(es, k)
<1> DEFINE fs == PopEntries(es, d)
<1>2. PICK m \in 0 .. Len(es) :
        /\ Len(fs) = m
        /\ \A i \in 1 .. m : fs[i] = es[i]
        /\ \A i \in 1 .. Len(es) : i > m => es[i].scope_depth = d
  BY PopPrefix DEF fs
<1>3. IsTable(fs)
  BY PopTable
<1>4. DOMAIN es = 1 .. Len(es) /\ DOMAIN fs = 1 .. m /\ Len(es) \in Nat
  BY <1>2, <1>3, TableFacts
<1> HIDE DEF fs
<1>5. ASSUME NEW i, IsLast(es, i, k)
      PROVE  IsLast(fs, i, k) /\ fs[i].name = es[i].name /\ fs[i].value = es[i].value
  <2>1. i \in 1 .. m
    BY <1>2, <1>4, <1>5 DEF IsLast
  <2> QED BY <2>1, <1>2, <1>4, <1>5 DEF IsLast
<1>6. ASSUME NEW i, IsLast(fs, i, k) PROVE IsLast(es, i, k)
  <2>1. i \in 1 .. m /\ i \in DOMAIN es /\ es[i] = fs[i]
    BY <1>2, <1>4, <1>6 DEF IsLast
  <2>2. ASSUME NEW j \in DOMAIN es, j > i, es[j].scope_depth = k
        PROVE  es[j].name # es[i].name
    <3>1. j \in 1 .. m
      BY <1>2, <1>4, <2>2
    <3> QED BY <3>1, <2>1, <2>2, <1>2, <1>4, <1>6 DEF IsLast
  <2> QED BY <2>1, <2>2, <1>6 DEF IsLast
<1> QED BY <1>3, <1>5, <1>6, SameScope DEF fs

(* Declaring a name changes the innermost scope alone, at that name alone. *)
LEMMA DefineScopes ==
  ASSUME NEW es, IsTable(es), NEW d \in Nat, Sorted(es, d), NEW name, NEW value
  PROVE  LET fs == DefineEntry(es, d, name, value)
         IN  /\ \A k : k # d => ScopeOf(fs, k) = ScopeOf(es, k)
             /\ ScopeOf(fs, d) = [n \in DOMAIN ScopeOf(es, d) \cup {name} |->
                                    IF n = name THEN value ELSE ScopeOf(es, d)[n]]
<1> DEFINE fs == DefineEntry(es, d, name, value)
           z == Len(es) + 1
<1>1. PICK N, V : es \in Seq(EntriesOver(N, V))
  BY DEF IsTable
<1>2. /\ DOMAIN es = 1 .. Len(es) /\ Len(es) \in Nat
      /\ DOMAIN fs = 1 .. z
      /\ \A i \in DOMAIN es : fs[i] = es[i]
      /\ fs[z] = Entry(name, value, d)
  BY <1>1 DEF DefineEntry
<1>3. IsTable(fs)
  BY DefineTable
<1>4. fs[z].name = name /\ fs[z].value = value /\ fs[z].scope_depth = d
  BY <1>2 DEF Entry
<1> HIDE DEF fs
<1>5. ASSUME NEW k, k # d PROVE ScopeOf(fs, k) = ScopeOf(es, k)
  <2>1. ASSUME NEW i, IsLast(es, i, k)
        PROVE  IsLast(fs, i, k) /\ fs[i].name = es[i].name /\ fs[i].value = es[i].value
    BY <1>2, <1>4, <1>5, <2>1 DEF IsLast
  <2>2. ASSUME NEW i, IsLast(fs, i, k) PROVE IsLast(es, i, k)
    BY <1>2, <1>4, <1>5, <2>2 DEF IsLast
  <2> QED BY <1>3, <2>1, <2>2, SameScope
<1>6. IsLast(fs, z, d)
  BY <1>2, <1>4 DEF IsLast
<1>7. ASSUME NEW i PROVE  IsLast(fs, i, d) <=> i = z \/ (IsLast(es, i, d) /\ es[i].name # name)
  <2>1. ASSUME IsLast(fs, i, d) PROVE i = z \/ (IsLast(es, i, d) /\ es[i].name # name)
    BY <1>2, <1>4, <2>1 DEF IsLast
  <2>2. ASSUME IsLast(es, i, d), es[i].name # name PROVE IsLast(fs, i, d)
    BY <1>2, <1>4, <2>2 DEF IsLast
  <2> QED BY <1>6, <2>1, <2>2
<1>a. /\ \A n \in DOMAIN ScopeOf(es, d) :
           \E i : /\ IsLast(es, i, d) /\ es[i].name = n
                  /\ ScopeOf(es, d)[n] = es[i].value
      /\ \A i : IsLast(es, i, d) =>
           /\ es[i].name \in DOMAIN ScopeOf(es, d)
           /\ ScopeOf(es, d)[es[i].name] = es[i].value
  BY ScopeFacts
<1>b. /\ \A n \in DOMAIN ScopeOf(fs, d) :
           \E i : /\ IsLast(fs, i, d) /\ fs[i].name = n
                  /\ ScopeOf(fs, d)[n] = fs[i].value
      /\ \A i : IsLast(fs, i, d) =>
           /\ fs[i].name \in DOMAIN ScopeOf(fs, d)
           /\ ScopeOf(fs, d)[fs[i].name] = fs[i].value
  BY <1>3, ScopeFacts
<1>c. ASSUME NEW i, IsLast(es, i, d) PROVE i \in DOMAIN es /\ fs[i] = es[i]
  BY <1>2, <1>c DEF IsLast
<1>8. DOMAIN ScopeOf(fs, d) \subseteq DOMAIN ScopeOf(es, d) \cup {name}
  BY <1>a, <1>b, <1>c, <1>4, <1>7
<1>9. name \in DOMAIN ScopeOf(fs, d) /\ ScopeOf(fs, d)[name] = value
  BY <1>b, <1>4, <1>6
<1>10. ASSUME NEW n \in DOMAIN ScopeOf(es, d), n # name
       PROVE  n \in DOMAIN ScopeOf(fs, d) /\ ScopeOf(fs, d)[n] = ScopeOf(es, d)[n]
  BY <1>a, <1>b, <1>c, <1>7, <1>10
<1>11. ScopeOf(fs, d) = [n \in DOMAIN ScopeOf(fs, d) |-> ScopeOf(fs, d)[n]]
  BY DEF ScopeOf
<1>12. DOMAIN ScopeOf(fs, d) = DOMAIN ScopeOf(es, d) \cup {name}
  BY <1>8, <1>9, <1>10
<1>13. \A n \in DOMAIN ScopeOf(fs, d) :
         ScopeOf(fs, d)[n] = IF n = name THEN value ELSE ScopeOf(es, d)[n]
  BY <1>9, <1>10, <1>12
<1>14. ScopeOf(fs, d) = [n \in DOMAIN ScopeOf(es, d) \cup {name} |->
                          IF n = name THEN value ELSE ScopeOf(es, d)[n]]
  BY <1>11, <1>12, <1>13
<1> QED BY <1>5, <1>14 DEF fs

(* get() finds what the innermost scope that has the name holds for it.    *)
LEMMA FoundScope ==
  ASSUME NEW es, IsTable(es), NEW d \in Nat, Sorted(es, d), NEW name
  PROVE  LET f == FindEntry(es, name)
         IN  /\ f = 0 => \A k : name \notin DOMAIN ScopeOf(es, k)
             /\ f # 0 => /\ f \in DOMAIN es /\ es[f].name = name
                         /\ es[f].scope_depth \in 0 .. d
                         /\ IsLast(es, f, es[f].scope_depth)
                         /\ name \in DOMAIN ScopeOf(es, es[f].scope_depth)
                         /\ ScopeOf(es, es[f].scope_depth)[name] = es[f].value
                         /\ \A k \in Nat : k > es[f].scope_depth =>
                              name \notin DOMAIN ScopeOf(es, k)
<1> DEFINE f == FindEntry(es, name)
<1>1. PICK N, V : es \in Seq(EntriesOver(N, V))
  BY DEF IsTable
<1>2. /\ f \in 0 .. Len(es)
      /\ f # 0 => es[f].name = name
      /\ \A i \in 1 .. Len(es) : i > f => es[i].name # name
  BY <1>1, FindEntryProperties
<1>3. /\ DOMAIN es = 1 .. Len(es) /\ Len(es) \in Nat
      /\ \A i \in DOMAIN es : es[i].scope_depth \in Nat
  BY TableFacts
<1> HIDE DEF f
<1>4. \A k : \A n \in DOMAIN ScopeOf(es, k) :
         \E i : IsLast(es, i, k) /\ es[i].name = n
  BY ScopeFacts
<1>5. ASSUME f = 0, NEW k PROVE name \notin DOMAIN ScopeOf(es, k)
  BY <1>2, <1>3, <1>4, <1>5 DEF IsLast
<1>6. ASSUME f # 0
      PROVE  /\ f \in DOMAIN es /\ es[f].name = name
             /\ es[f].scope_depth \in 0 .. d
             /\ IsLast(es, f, es[f].scope_depth)
  BY <1>2, <1>3, <1>6 DEF IsLast, Sorted
<1>7. ASSUME f # 0
      PROVE  /\ name \in DOMAIN ScopeOf(es, es[f].scope_depth)
             /\ ScopeOf(es, es[f].scope_depth)[name] = es[f].value
  BY <1>6, <1>7, ScopeFacts
<1>8. ASSUME f # 0, NEW k \in Nat, k > es[f].scope_depth
      PROVE  name \notin DOMAIN ScopeOf(es, k)
  <2>1. SUFFICES ASSUME NEW i, IsLast(es, i, k), es[i].name = name PROVE FALSE
    BY <1>4
  <2>2. i \in 1 .. Len(es) /\ i <= f /\ es[i].scope_depth = k
    BY <1>2, <1>3, <2>1 DEF IsLast
  <2>3. es[i].scope_depth <= es[f].scope_depth
    BY <1>3, <1>6, <1>8, <2>2 DEF Sorted
  <2> QED BY <1>3, <1>6, <1>8, <2>2, <2>3
<1> QED BY <1>5, <1>6, <1>7, <1>8 DEF f

(* Writing through the pointer changes that scope, at that name, alone.    *)
Stored(es, f, value) == [es EXCEPT ![f].value = value]
Changed(scope, name, value) == [scope EXCEPT ![name] = value]

LEMMA StoreScopes ==
  ASSUME NEW es, IsTable(es), NEW d \in Nat, Sorted(es, d), NEW name, NEW value,
         FindEntry(es, name) # 0
  PROVE  LET f == FindEntry(es, name)
             fs == Stored(es, f, value)
             s == es[f].scope_depth
         IN  /\ \A k : k # s => ScopeOf(fs, k) = ScopeOf(es, k)
             /\ ScopeOf(fs, s) = Changed(ScopeOf(es, s), name, value)
<1> DEFINE f == FindEntry(es, name)
           fs == Stored(es, f, value)
           s == es[f].scope_depth
<1>1. PICK N, V : es \in Seq(EntriesOver(N, V))
  BY DEF IsTable
<1>2. /\ f \in DOMAIN es /\ es[f].name = name
      /\ IsLast(es, f, s)
      /\ name \in DOMAIN ScopeOf(es, s)
  BY FoundScope
<1>3. DOMAIN es = 1 .. Len(es) /\ Len(es) \in Nat
  BY TableFacts
<1>4. IsTable(fs)
  BY StoreTable DEF Stored
<1> HIDE DEF f
<1>5. /\ DOMAIN fs = DOMAIN es
      /\ \A i \in DOMAIN es :
           /\ fs[i].name = es[i].name
           /\ fs[i].scope_depth = es[i].scope_depth
           /\ fs[i].value = IF i = f THEN value ELSE es[i].value
  <2>1. \A i \in DOMAIN es : es[i] \in EntriesOver(N, V)
    BY <1>1, <1>3, ElementOfSeq
  <2> QED BY <1>2, <2>1 DEF EntriesOver, Stored
<1> HIDE DEF fs, s
<1>6. \A i, k : IsLast(fs, i, k) <=> IsLast(es, i, k)
  BY <1>5 DEF IsLast
<1>7. ASSUME NEW k, k # s PROVE ScopeOf(fs, k) = ScopeOf(es, k)
  <2>1. ASSUME NEW i, IsLast(es, i, k)
        PROVE  IsLast(fs, i, k) /\ fs[i].name = es[i].name /\ fs[i].value = es[i].value
    BY <1>2, <1>5, <1>6, <1>7, <2>1 DEF IsLast
  <2> QED BY <1>4, <1>6, <2>1, SameScope
<1>a. /\ \A n \in DOMAIN ScopeOf(es, s) :
           \E i : /\ IsLast(es, i, s) /\ es[i].name = n
                  /\ ScopeOf(es, s)[n] = es[i].value
      /\ \A i : IsLast(es, i, s) =>
           /\ es[i].name \in DOMAIN ScopeOf(es, s)
           /\ ScopeOf(es, s)[es[i].name] = es[i].value
  BY ScopeFacts
<1>b. /\ \A n \in DOMAIN ScopeOf(fs, s) :
           \E i : /\ IsLast(fs, i, s) /\ fs[i].name = n
                  /\ ScopeOf(fs, s)[n] = fs[i].value
      /\ \A i : IsLast(fs, i, s) =>
           /\ fs[i].name \in DOMAIN ScopeOf(fs, s)
           /\ ScopeOf(fs, s)[fs[i].name] = fs[i].value
  BY <1>4, ScopeFacts
<1>c. ASSUME NEW i, IsLast(es, i, s) PROVE i \in DOMAIN es
  BY <1>c DEF IsLast
<1>8. DOMAIN ScopeOf(fs, s) \subseteq DOMAIN ScopeOf(es, s)
  BY <1>a, <1>b, <1>c, <1>5, <1>6
<1>9. DOMAIN ScopeOf(es, s) \subseteq DOMAIN ScopeOf(fs, s)
  BY <1>a, <1>b, <1>c, <1>5, <1>6
<1>10. ScopeOf(fs, s)[name] = value
  BY <1>b, <1>2, <1>5, <1>6
<1>11. ASSUME NEW n \in DOMAIN ScopeOf(es, s), n # name
       PROVE  ScopeOf(fs, s)[n] = ScopeOf(es, s)[n]
  <2>1. PICK i : IsLast(es, i, s) /\ es[i].name = n /\ ScopeOf(es, s)[n] = es[i].value
    BY <1>a, <1>11
  <2>2. /\ i \in DOMAIN es /\ i # f
        /\ fs[i].name = n /\ fs[i].value = es[i].value /\ IsLast(fs, i, s)
    BY <1>c, <1>2, <1>5, <1>6, <1>11, <2>1
  <2> QED BY <1>b, <2>1, <2>2
<1>12. /\ ScopeOf(fs, s) = [n \in DOMAIN ScopeOf(fs, s) |-> ScopeOf(fs, s)[n]]
       /\ ScopeOf(es, s) = [n \in DOMAIN ScopeOf(es, s) |-> ScopeOf(es, s)[n]]
  BY DEF ScopeOf
<1>13. ScopeOf(fs, s) = Changed(ScopeOf(es, s), name, value)
  BY <1>2, <1>8, <1>9, <1>10, <1>11, <1>12 DEF Changed
<1> QED BY <1>7, <1>13 DEF f, fs, s

---------------------------------------------------------------------------
(* The refinement.                                                         *)

(* The refinement mapping is the scopes of the vector, before and after a  *)
(* step.                                                                   *)
LEMMA ScopesOfEntries ==
  /\ [k \in 1 .. current_depth_ + 1 |-> ScopeAt(k - 1)] =
       Scopes(entries_, current_depth_)
  /\ [k \in 1 .. current_depth_' + 1 |-> ScopeAt(k - 1)'] =
       Scopes(entries_', current_depth_')
BY DEF ScopeAt, ScopeOf, Scopes

(* The scopes of a vector are a stack with one scope per depth.            *)
LEMMA ScopesSeq ==
  ASSUME NEW es, NEW d \in Nat
  PROVE  /\ Scopes(es, d) \in Seq({ScopeOf(es, k) : k \in 0 .. d})
         /\ Len(Scopes(es, d)) = d + 1
         /\ DOMAIN Scopes(es, d) = 1 .. d + 1
         /\ \A k \in 1 .. d + 1 : Scopes(es, d)[k] = ScopeOf(es, k - 1)
<1>1. \A k \in 1 .. d + 1 : ScopeOf(es, k - 1) \in {ScopeOf(es, j) : j \in 0 .. d}
  <2>1. \A k \in 1 .. d + 1 : k - 1 \in 0 .. d
    OBVIOUS
  <2> QED BY <2>1
<1>2. Scopes(es, d) \in Seq({ScopeOf(es, k) : k \in 0 .. d})
  BY <1>1, IsASeq DEF Scopes
<1> QED BY <1>2 DEF Scopes

(* An empty vector is the stack with the empty global scope alone.         *)
LEMMA RefInit == Init => Abstract!Init
<1> SUFFICES ASSUME Init PROVE Abstract!Init
  OBVIOUS
<1>1. ScopeAt(0) = [n \in {} |-> Absent]
  BY EmptyScopeOf DEF Init, ScopeAt, ScopeOf
<1>2. [k \in 1 .. current_depth_ + 1 |-> ScopeAt(k - 1)] = <<ScopeAt(0)>>
  BY DEF Init
<1> QED BY <1>1, <1>2 DEF Init, Abstract!Init, Abstract!EmptyScope

(* The scope a name is looked up in, by the vector and by the stack.       *)
LEMMA InnermostScope ==
  ASSUME IsTable(entries_), current_depth_ \in Nat,
         Sorted(entries_, current_depth_), NEW name
  PROVE  LET f == FindEntry(entries_, name)
         IN  Abstract!Innermost(name) =
               IF f = 0 THEN 0 ELSE entries_[f].scope_depth + 1
<1> DEFINE f == FindEntry(entries_, name)
           s == [k \in 1 .. current_depth_ + 1 |-> ScopeAt(k - 1)]
           I == {i \in 1 .. Len(s) : name \in DOMAIN s[i]}
<1>1. /\ Len(s) = current_depth_ + 1
      /\ \A i \in 1 .. current_depth_ + 1 : s[i] = ScopeOf(entries_, i - 1)
  BY ScopesOfEntries, ScopesSeq
<1>2. Abstract!Innermost(name) = IF I # {} THEN Max(I) ELSE 0
  BY DEF Abstract!Innermost, Abstract!SelectLastInSeq, Abstract!Max, Max
<1> HIDE DEF s
<1>3. I \in SUBSET (1 .. current_depth_ + 1)
  BY <1>1
<1> HIDE DEF I
<1> DEFINE k == Abstract!Innermost(name)
<1>4. /\ k \in 0 .. current_depth_ + 1
      /\ k # 0 => k \in I
      /\ \A i \in 1 .. current_depth_ + 1 : i > k => i \notin I
  <2>1. current_depth_ + 1 \in Nat
    OBVIOUS
  <2> QED BY <1>2, <1>3, <2>1, LastWhere
<1>5. \A i \in 1 .. current_depth_ + 1 :
         i \in I <=> name \in DOMAIN ScopeOf(entries_, i - 1)
  BY <1>1 DEF I
<1> HIDE DEF k
<1>6. /\ f = 0 => \A j : name \notin DOMAIN ScopeOf(entries_, j)
      /\ f # 0 => /\ entries_[f].scope_depth \in 0 .. current_depth_
                  /\ name \in DOMAIN ScopeOf(entries_, entries_[f].scope_depth)
                  /\ \A j \in Nat : j > entries_[f].scope_depth =>
                       name \notin DOMAIN ScopeOf(entries_, j)
  BY FoundScope
<1> HIDE DEF f
<1>7. CASE f = 0
  BY <1>4, <1>5, <1>6, <1>7 DEF k, f
<1>8. CASE f # 0
  <2> DEFINE m == entries_[f].scope_depth
  <2>1. m \in 0 .. current_depth_ /\ m + 1 \in I
    <3>1. (m + 1) - 1 = m /\ m + 1 \in 1 .. current_depth_ + 1
      BY <1>6, <1>8
    <3> QED BY <1>5, <1>6, <1>8, <3>1
  <2>2. k >= m + 1
    BY <1>4, <2>1
  <2>3. k \in I /\ k - 1 \in Nat /\ name \in DOMAIN ScopeOf(entries_, k - 1)
    BY <1>4, <1>5, <2>1, <2>2
  <2>4. ~(k - 1 > m)
    BY <1>6, <1>8, <2>3
  <2>5. k = m + 1
    BY <1>4, <2>1, <2>2, <2>4
  <2> QED BY <1>8, <2>5 DEF k, f
<1> QED BY <1>7, <1>8

(* A longer sequence, element by element.                                  *)
LEMMA AppendAsFunction ==
  ASSUME NEW S, NEW q \in Seq(S), NEW e
  PROVE  Append(q, e) =
           [k \in 1 .. Len(q) + 1 |-> IF k = Len(q) + 1 THEN e ELSE q[k]]
<1> DEFINE a == Append(q, e)
<1>1. /\ a \in Seq(S \cup {e})
      /\ Len(a) = Len(q) + 1
      /\ \A i \in 1 .. Len(q) : a[i] = q[i]
      /\ a[Len(q) + 1] = e
  OBVIOUS
<1> HIDE DEF a
<1>2. a = [k \in 1 .. Len(q) + 1 |-> a[k]]
  BY <1>1
<1> QED BY <1>1, <1>2 DEF a

(* Every step of the vector is a step of the stack of scopes.              *)
LEMMA RefStep ==
  ASSUME TypeOK, EntriesSorted, [Next]_vars
  PROVE  [Abstract!Next]_(Abstract!vars)
<1> DEFINE es == entries_
           d == current_depth_
           s == [k \in 1 .. current_depth_ + 1 |-> ScopeAt(k - 1)]
           t == [k \in 1 .. current_depth_' + 1 |-> ScopeAt(k - 1)']
<1>0. current_depth_ \in Nat /\ entries_ \in Seq(EntrySet)
  BY BoundsAssumption DEF TypeOK
<1>1. d \in Nat /\ IsTable(es) /\ Sorted(es, d)
  BY <1>0 DEF IsTable, EntrySet, EntriesOver, EntriesSorted, Sorted
<1>2. s = Scopes(es, d) /\ t = Scopes(entries_', current_depth_')
  BY ScopesOfEntries
<1>3. /\ s \in Seq({ScopeOf(es, k) : k \in 0 .. d})
      /\ Len(s) = d + 1 /\ DOMAIN s = 1 .. d + 1
      /\ \A k \in 1 .. d + 1 : s[k] = ScopeOf(es, k - 1)
  BY <1>1, <1>2, ScopesSeq
<1>4. s = [k \in 1 .. d + 1 |-> ScopeOf(es, k - 1)]
  BY <1>2 DEF Scopes
<1>5. t = [k \in 1 .. current_depth_' + 1 |-> ScopeOf(entries_', k - 1)]
  BY <1>2 DEF Scopes
<1> HIDE DEF s, t
<1>6. ASSUME entries_' = es, current_depth_' = d PROVE t = s
  BY <1>4, <1>5, <1>6
<1>7. CASE Push
  <2>1. ScopeOf(es, d + 1) = [n \in {} |-> Absent]
    <3>1. \A i \in DOMAIN es : es[i].scope_depth # d + 1
      BY <1>1, TableFacts DEF Sorted
    <3> QED BY <3>1, EmptyScopeOf
  <2>2. t = Append(s, [n \in {} |-> Absent])
    <3>1. t = [k \in 1 .. (d + 1) + 1 |-> ScopeOf(es, k - 1)]
      BY <1>5, <1>7 DEF Push
    <3>2. Append(s, [n \in {} |-> Absent])
            = [k \in 1 .. (d + 1) + 1 |-> IF k = (d + 1) + 1 THEN [n \in {} |-> Absent] ELSE s[k]]
      BY <1>3, AppendAsFunction
    <3>3. \A k \in 1 .. (d + 1) + 1 :
            ScopeOf(es, k - 1) = IF k = (d + 1) + 1 THEN [n \in {} |-> Absent] ELSE s[k]
      <4>1. ((d + 1) + 1) - 1 = d + 1
        BY <1>1
      <4>2. \A k \in 1 .. (d + 1) + 1 : k # (d + 1) + 1 => k \in 1 .. d + 1
        BY <1>1
      <4> QED BY <1>3, <2>1, <4>1, <4>2
    <3> QED BY <3>1, <3>2, <3>3
  <2>3. Abstract!Enter
    BY <1>7, <2>2 DEF s, t, Push, Abstract!Enter, Abstract!EmptyScope
  <2> QED BY <2>3 DEF Abstract!Next
<1>8. CASE Pop
  <2>1. d \in Nat \ {0} /\ current_depth_' = d - 1 /\ entries_' = PopEntries(es, d)
    BY <1>1, <1>8 DEF Pop
  <2>2. \A k \in 1 .. d : ScopeOf(entries_', k - 1) = ScopeOf(es, k - 1)
    <3>1. \A k \in 1 .. d : k - 1 \in 0 .. d - 1
      BY <2>1
    <3> QED BY <1>1, <2>1, <3>1, PopScopes
  <2>3. t = [k \in 1 .. d |-> ScopeOf(es, k - 1)]
    <3>1. (d - 1) + 1 = d
      BY <2>1
    <3> QED BY <1>5, <2>1, <2>2, <3>1
  <2>4. t = SubSeq(s, 1, Len(s) - 1)
    <3>1. Len(s) - 1 = d
      BY <1>1, <1>3
    <3>2. SubSeq(s, 1, d) = [k \in 1 .. d |-> s[k]]
      BY <1>1, <1>3
    <3>3. \A k \in 1 .. d : s[k] = ScopeOf(es, k - 1)
      BY <1>1, <1>3
    <3> QED BY <2>3, <3>1, <3>2, <3>3
  <2>5. Len(s) > 1
    BY <1>3, <2>1
  <2>6. Abstract!Leave
    BY <1>8, <2>4, <2>5 DEF s, t, Pop, Abstract!Leave, Abstract!Front
  <2> QED BY <2>6 DEF Abstract!Next
<1>9. ASSUME NEW n \in Name, Get(n) PROVE Abstract!Next
  <2> DEFINE f == FindEntry(es, n)
  <2>1. Abstract!Innermost(n) = IF f = 0 THEN 0 ELSE es[f].scope_depth + 1
    BY <1>1, InnermostScope
  <2>2. f # 0 => /\ es[f].scope_depth \in 0 .. d
                 /\ ScopeOf(es, es[f].scope_depth)[n] = es[f].value
    BY <1>1, FoundScope
  <2> DEFINE in == Abstract!Innermost(n)
  <2> HIDE DEF f, in
  <2>3. f # 0 => s[in][n] = es[f].value
    <3>1. \A m \in 0 .. d : m + 1 \in 1 .. d + 1 /\ (m + 1) - 1 = m
      BY <1>1
    <3> QED BY <1>3, <2>1, <2>2, <3>1 DEF in
  <2>4. f # 0 => in # 0
    BY <1>1, <2>1, <2>2 DEF in
  <2>5. answer' = IF in = 0 THEN Absent ELSE s[in][n]
    BY <1>9, <2>1, <2>3, <2>4 DEF Get, f, in
  <2>6. t = s
    BY <1>6, <1>9 DEF Get
  <2>7. Abstract!Lookup(n)
    BY <2>5, <2>6 DEF s, t, in, Abstract!Lookup
  <2> QED BY <2>7 DEF Abstract!Next
<1>10. ASSUME NEW n \in Name, ContainsInCurrentScope(n) PROVE Abstract!Next
  <2>1. Abstract!Last(s) = ScopeOf(es, d)
    <3>1. d + 1 \in 1 .. d + 1 /\ (d + 1) - 1 = d
      BY <1>1
    <3> QED BY <1>3, <3>1 DEF Abstract!Last
  <2>2. DeclaredInCurrentScope(es, d, n) <=> n \in DOMAIN ScopeOf(es, d)
    <3>1. \A i \in DOMAIN es : es[i].scope_depth >= d <=> es[i].scope_depth = d
      BY <1>1, TableFacts DEF Sorted
    <3>2. DOMAIN ScopeOf(es, d)
            = {es[i].name : i \in {j \in DOMAIN es : es[j].scope_depth = d}}
      BY DEF ScopeOf
    <3> QED BY <3>1, <3>2 DEF DeclaredInCurrentScope
  <2>3. t = s
    BY <1>6, <1>10 DEF ContainsInCurrentScope
  <2>4. answer' = (n \in DOMAIN Abstract!Last(s))
    <3>1. DeclaredInCurrentScope(es, d, n) \in BOOLEAN
      BY DEF DeclaredInCurrentScope
    <3>2. answer' = DeclaredInCurrentScope(es, d, n)
      BY <1>10 DEF ContainsInCurrentScope
    <3>3. CASE n \in DOMAIN ScopeOf(es, d)
      BY <2>1, <2>2, <3>1, <3>2, <3>3
    <3>4. CASE n \notin DOMAIN ScopeOf(es, d)
      BY <2>1, <2>2, <3>1, <3>2, <3>4
    <3> QED BY <3>3, <3>4
  <2>5. Abstract!AskDeclared(n)
    BY <2>3, <2>4 DEF s, t, Abstract!AskDeclared
  <2> QED BY <2>5 DEF Abstract!Next
<1>11. ASSUME NEW n \in Name, NEW v \in Value, Define(n, v) PROVE Abstract!Next
  <2>1. entries_' = DefineEntry(es, d, n, v) /\ current_depth_' = d /\ answer' = Absent
    BY <1>11 DEF Define
  <2> DEFINE new == [m \in DOMAIN s[d + 1] \cup {n} |-> IF m = n THEN v ELSE s[d + 1][m]]
  <2>2. s[d + 1] = ScopeOf(es, d)
    <3>1. d + 1 \in 1 .. d + 1 /\ (d + 1) - 1 = d
      BY <1>1
    <3> QED BY <1>3, <3>1
  <2>3. /\ \A k : k # d => ScopeOf(entries_', k) = ScopeOf(es, k)
        /\ ScopeOf(entries_', d) = new
    <3>1. /\ \A k : k # d => ScopeOf(DefineEntry(es, d, n, v), k) = ScopeOf(es, k)
          /\ ScopeOf(DefineEntry(es, d, n, v), d) =
               [m \in DOMAIN ScopeOf(es, d) \cup {n} |->
                  IF m = n THEN v ELSE ScopeOf(es, d)[m]]
      BY <1>1, DefineScopes
    <3> QED BY <2>1, <2>2, <3>1
  <2> HIDE DEF new
  <2>4. \A k \in 1 .. d + 1 :
          ScopeOf(entries_', k - 1) = IF k = d + 1 THEN new ELSE s[k]
    <3>1. \A k \in 1 .. d + 1 : k # d + 1 => k - 1 # d
      BY <1>1
    <3>2. (d + 1) - 1 = d
      BY <1>1
    <3> QED BY <1>3, <2>3, <3>1, <3>2
  <2>5. t = [s EXCEPT ![d + 1] = new]
    BY <1>3, <1>4, <1>5, <2>1, <2>4
  <2>6. Abstract!Declare(n, v)
    BY <1>3, <2>1, <2>5 DEF s, t, new, Abstract!Declare
  <2> QED BY <2>6 DEF Abstract!Next
<1>12. ASSUME NEW n \in Name, NEW v \in Value, Assign(n, v) PROVE Abstract!Next
  <2> DEFINE f == FindEntry(es, n)
             m == es[f].scope_depth
             in == Abstract!Innermost(n)
             new == [s[in] EXCEPT ![n] = v]
  <2>1. /\ f # 0 /\ entries_' = [es EXCEPT ![f].value = v]
        /\ current_depth_' = d /\ answer' = Absent
    BY <1>12 DEF Assign
  <2>2. in = m + 1 /\ m \in 0 .. d
    BY <1>1, <2>1, InnermostScope, FoundScope
  <2>3. s[in] = ScopeOf(es, m)
    <3>1. m + 1 \in 1 .. d + 1 /\ (m + 1) - 1 = m
      BY <1>1, <2>2
    <3> QED BY <1>3, <2>2, <3>1
  <2>a. FindEntry(es, n) # 0
    BY <2>1
  <2>b. entries_' = [es EXCEPT ![FindEntry(es, n)].value = v]
    BY <2>1
  <2> HIDE DEF new, f, m, in
  <2>4. /\ \A k : k # m => ScopeOf(entries_', k) = ScopeOf(es, k)
        /\ ScopeOf(entries_', m) = new
    <3> DEFINE fs == Stored(es, FindEntry(es, n), v)
               k0 == es[FindEntry(es, n)].scope_depth
    <3>1. /\ \A k : k # k0 => ScopeOf(fs, k) = ScopeOf(es, k)
          /\ ScopeOf(fs, k0) = Changed(ScopeOf(es, k0), n, v)
      BY <1>1, <2>a, StoreScopes
    <3>2. k0 = m
      BY DEF m, f
    <3>3. fs = entries_'
      BY <2>b DEF Stored
    <3> HIDE DEF fs, k0
    <3>4. Changed(ScopeOf(es, k0), n, v) = new
      BY <2>3, <3>2 DEF new, Changed
    <3> QED BY <3>1, <3>2, <3>3, <3>4
  <2>5. \A k \in 1 .. d + 1 :
          ScopeOf(entries_', k - 1) = IF k = in THEN new ELSE s[k]
    <3>1. \A k \in 1 .. d + 1 : k # in => k - 1 # m
      BY <1>1, <2>2
    <3>2. in - 1 = m
      BY <1>1, <2>2
    <3> QED BY <1>3, <2>4, <3>1, <3>2
  <2>6. t = [s EXCEPT ![in] = new]
    BY <1>3, <1>4, <1>5, <2>1, <2>5
  <2>7. Abstract!Store(n, v)
    <3>1. in # 0
      BY <1>1, <2>2
    <3> QED BY <2>1, <2>6, <3>1 DEF s, t, in, new, Abstract!Store
  <2> QED BY <2>7 DEF Abstract!Next
<1>13. CASE UNCHANGED vars
  <2>1. t = s /\ answer' = answer
    BY <1>6, <1>13 DEF vars
  <2> QED BY <2>1 DEF s, t, Abstract!vars
<1> QED BY <1>7, <1>8, <1>9, <1>10, <1>11, <1>12, <1>13 DEF Next

(* The vector with its depths answers every client as nested scopes do     *)
(* (scoped_map.hpp:19-36).                                                 *)
THEOREM ScopedMapImplementsScopes == Spec => ImplementsScopeStack
<1>1. Init => Abstract!Init
  BY RefInit
<1>2. TypeOK /\ EntriesSorted /\ [Next]_vars => [Abstract!Next]_(Abstract!vars)
  BY RefStep
<1> QED BY <1>1, <1>2, ScopedMapTypeCorrect, ScopedMapSorted, PTL
        DEF Spec, ImplementsScopeStack, Abstract!Spec
=============================================================================
