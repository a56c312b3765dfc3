------------------------ MODULE ScopeEntries_proofs ------------------------
(***************************************************************************)
(* Facts about the operations of ScopeEntries, for tables of any names and *)
(* values: the ones of ScopedMap, of the checker and of the interpreter.   *)
(* Also what the proofs about the machine need of sequences: counting the  *)
(* elements with a property, and the last one with it.                     *)
(* They rest on the order of the vector (Sorted): define() appends at the  *)
(* current depth, which no entry exceeds, and pop() removes exactly the    *)
(* entries of that depth, which order puts at the end.                     *)
(***************************************************************************)
EXTENDS ScopeEntries, SequenceTheorems, FiniteSetTheorems,
        WellFoundedInduction, TLAPS

(* "<" on the natural numbers, as a relation.                              *)
LessThan == {p \in Nat \X Nat : p[1] < p[2]}

LEMMA LessThanWellFounded == IsWellFoundedOn(LessThan, Nat)
<1>1. LessThan = OpToRel(<, Nat)
  BY Zenon DEF LessThan, OpToRel
<1> QED BY <1>1, NatLessThanWellFounded, Zenon

(* A non-empty set of numbers up to n has a largest element.               *)
LEMMA MaxOfBounded ==
  ASSUME NEW n \in Nat, NEW S \in SUBSET (1 .. n), S # {}
  PROVE  /\ Max(S) \in S
         /\ \A y \in S : Max(S) >= y
<1> DEFINE T == {k \in Nat : n - k \in S}
<1>1. T \subseteq Nat /\ T # {}
  <2>1. PICK i \in S : TRUE
    OBVIOUS
  <2>2. n - i \in Nat /\ n - (n - i) = i
    BY <2>1
  <2> QED BY <2>2
<1>2. PICK m \in T : \A y \in T : ~ (<<y, m>> \in LessThan)
  <2> HIDE DEF T
  <2> QED BY <1>1, LessThanWellFounded, WFMin
<1>3. n - m \in S /\ m \in Nat
  BY <1>2
<1>4. ASSUME NEW y \in S PROVE n - m >= y
  <2>1. n - y \in Nat /\ n - (n - y) = y
    OBVIOUS
  <2>2. n - y \in T
    BY <2>1
  <2>3. ~ (n - y < m)
    BY <1>2, <1>3, <2>1, <2>2 DEF LessThan
  <2> QED BY <2>1, <2>3, <1>3
<1> QED BY <1>3, <1>4 DEF Max

(* What SelectLastInSeq computes, I being the positions that pass its test.*)
LEMMA LastWhere ==
  ASSUME NEW n \in Nat, NEW I \in SUBSET (1 .. n), NEW k,
         k = IF I # {} THEN Max(I) ELSE 0
  PROVE  /\ k \in 0 .. n
         /\ k # 0 => k \in I
         /\ \A i \in 1 .. n : i > k => i \notin I
<1>1. CASE I = {}
  BY <1>1
<1>2. CASE I # {}
  <2>1. k \in I /\ \A y \in I : k >= y
    BY <1>2, MaxOfBounded
  <2> QED BY <2>1
<1> QED BY <1>1, <1>2

---------------------------------------------------------------------------
(* Counting the members of F in a sequence.                                *)

CountIn(s, F) == Cardinality({i \in DOMAIN s : s[i] \in F})

LEMMA CountType ==
  ASSUME NEW S, NEW s \in Seq(S), NEW F
  PROVE  /\ IsFiniteSet({i \in DOMAIN s : s[i] \in F})
         /\ CountIn(s, F) \in Nat
<1>1. DOMAIN s = 1 .. Len(s) /\ Len(s) \in Nat
  OBVIOUS
<1>2. IsFiniteSet(1 .. Len(s))
  BY <1>1, FS_Interval
<1>3. {i \in DOMAIN s : s[i] \in F} \in SUBSET (1 .. Len(s))
  BY <1>1
<1>4. IsFiniteSet({i \in DOMAIN s : s[i] \in F})
  BY <1>2, <1>3, FS_Subset
<1> QED BY <1>4, FS_CardinalityType DEF CountIn

LEMMA CountEmpty == ASSUME NEW F PROVE CountIn(<<>>, F) = 0
<1>1. {i \in DOMAIN <<>> : <<>>[i] \in F} = {}
  OBVIOUS
<1> QED BY <1>1, FS_EmptySet DEF CountIn

LEMMA CountAppend ==
  ASSUME NEW S, NEW s \in Seq(S), NEW e \in S, NEW F
  PROVE  CountIn(Append(s, e), F) = CountIn(s, F) + (IF e \in F THEN 1 ELSE 0)
<1> DEFINE T == {i \in DOMAIN s : s[i] \in F}
           U == {i \in DOMAIN Append(s, e) : Append(s, e)[i] \in F}
           n == Len(s) + 1
<1>1. DOMAIN s = 1 .. Len(s) /\ DOMAIN Append(s, e) = 1 .. n /\ Len(s) \in Nat
  OBVIOUS
<1>2. \A i \in 1 .. Len(s) : Append(s, e)[i] = s[i]
  OBVIOUS
<1>3. Append(s, e)[n] = e
  OBVIOUS
<1>4. n \notin T
  BY <1>1
<1>5. IsFiniteSet(T) /\ Cardinality(T) \in Nat
  BY CountType DEF CountIn
<1>6. CASE e \in F
  <2>1. U = T \cup {n}
    BY <1>1, <1>2, <1>3, <1>6
  <2>2. Cardinality(T \cup {n}) = Cardinality(T) + 1
    BY <1>4, <1>5, FS_AddElement
  <2> HIDE DEF n
  <2>3. Cardinality(U) = Cardinality(T) + 1
    BY <2>1, <2>2
  <2> QED BY <1>6, <2>3 DEF CountIn
<1>7. CASE e \notin F
  <2>1. U = T
    BY <1>1, <1>2, <1>3, <1>7
  <2> HIDE DEF T, U
  <2>2. Cardinality(U) = Cardinality(T) + 0
    BY <1>5, <2>1
  <2> USE DEF T, U
  <2> QED BY <1>7, <2>2 DEF CountIn
<1> QED BY <1>6, <1>7

(* A concatenation has the members of both parts: those of the second at   *)
(* positions moved by the length of the first.                             *)
LEMMA CountConcat ==
  ASSUME NEW S, NEW s \in Seq(S), NEW t \in Seq(S), NEW F
  PROVE  CountIn(s \o t, F) = CountIn(s, F) + CountIn(t, F)
<1> DEFINE n == Len(s)
           A == {i \in DOMAIN s : s[i] \in F}
           B == {i \in DOMAIN t : t[i] \in F}
           C == {i \in DOMAIN (s \o t) : (s \o t)[i] \in F}
           moved == {i + n : i \in B}
           f == [i \in B |-> i + n]
<1>1. /\ DOMAIN s = 1 .. n /\ DOMAIN t = 1 .. Len(t) /\ n \in Nat /\ Len(t) \in Nat
      /\ DOMAIN (s \o t) = 1 .. n + Len(t)
      /\ \A i \in 1 .. n : (s \o t)[i] = s[i]
      /\ \A i \in n + 1 .. n + Len(t) : (s \o t)[i] = t[i - n]
  OBVIOUS
<1>2. IsFiniteSet(A) /\ IsFiniteSet(B) /\ Cardinality(A) \in Nat
  BY CountType DEF CountIn
<1>3. IsFiniteSet(moved) /\ Cardinality(moved) = Cardinality(B)
  <2>1. B \subseteq Nat
    BY <1>1
  <2>2. f \in Bijection(B, moved)
    <3> HIDE DEF B
    <3>1. f \in Surjection(B, moved)
      BY DEF Surjection
    <3>2. f \in Injection(B, moved)
      <4>1. f \in [B -> moved]
        OBVIOUS
      <4>2. \A i, j \in B : f[i] = f[j] => i = j
        BY <1>1, <2>1
      <4> QED BY <4>1, <4>2 DEF Injection, IsInjective
    <3> QED BY <3>1, <3>2 DEF Bijection
  <2>3. ExistsBijection(B, moved)
    BY <2>2 DEF ExistsBijection
  <2> HIDE DEF B, moved
  <2> QED BY <1>2, <2>3, FS_Bijection
<1>4. C = A \cup moved /\ A \cap moved = {}
  <2>1. ASSUME NEW i \in C PROVE i \in A \cup moved
    <3>1. CASE i <= n
      BY <1>1, <2>1, <3>1
    <3>2. CASE i > n
      <4>1. i - n \in B /\ i = (i - n) + n
        BY <1>1, <2>1, <3>2
      <4> QED BY <4>1
    <3> QED BY <1>1, <2>1, <3>1, <3>2
  <2>2. A \subseteq C
    BY <1>1
  <2>3. \A j \in B : j + n \in C /\ j + n \notin A
    BY <1>1
  <2> QED BY <2>1, <2>2, <2>3
<1>5. Cardinality(C) = Cardinality(A) + Cardinality(moved) - Cardinality({})
  <2> HIDE DEF A, C, moved
  <2> QED BY <1>2, <1>3, <1>4, FS_Union
<1>6. Cardinality({}) = 0
  BY FS_EmptySet
<1>7. Cardinality(B) \in Nat
  BY CountType DEF CountIn
<1>8. Cardinality(C) = Cardinality(A) + Cardinality(B)
  <2> HIDE DEF A, B, C, moved
  <2> QED BY <1>2, <1>3, <1>5, <1>6, <1>7
<1> QED BY <1>8 DEF CountIn

LEMMA FrontLast ==
  ASSUME NEW S, NEW s \in Seq(S), s # <<>>
  PROVE  /\ Front(s) \in Seq(S) /\ Last(s) \in S
         /\ s = Append(Front(s), Last(s))
         /\ Len(Front(s)) = Len(s) - 1
         /\ Last(s) = s[Len(s)]
         /\ \A i \in 1 .. Len(s) - 1 : Front(s)[i] = s[i]
<1>1. Len(s) \in Nat /\ Len(s) # 0
  BY EmptySeq
<1>2. Front(s) \in Seq(S) /\ Len(Front(s)) = Len(s) - 1
  <2> DEFINE n == Len(s) - 1
             r == SubSeq(s, 1, n)
  <2>1. n \in Nat
    BY <1>1
  <2>2. \A i \in 1 .. n : s[i] \in S
    BY <1>1, ElementOfSeq
  <2>3. Front(s) = r
    BY DEF Front
  <2> HIDE DEF n
  <2>4. r \in Seq(S) /\ Len(r) = IF 1 <= n THEN n - 1 + 1 ELSE 0
    BY <2>1, <2>2, SubSeqProperties
  <2> HIDE DEF r
  <2>5. Len(r) = n
    <3>1. CASE 1 <= n
      BY <2>1, <2>4, <3>1
    <3>2. CASE n = 0
      BY <2>4, <3>2
    <3> QED BY <2>1, <3>1, <3>2
  <2> QED BY <2>3, <2>4, <2>5 DEF n
<1>3. \A i \in 1 .. Len(s) - 1 : Front(s)[i] = s[i]
  BY <1>1 DEF Front
<1>4. Last(s) = s[Len(s)] /\ Last(s) \in S
  BY <1>1 DEF Last
<1>5. s = Append(Front(s), Last(s))
  <2>1. Append(Front(s), Last(s)) \in Seq(S)
    BY <1>2, <1>4
  <2>2. Len(Append(Front(s), Last(s))) = Len(s)
    BY <1>1, <1>2, <1>4
  <2>3. \A i \in 1 .. Len(s) : Append(Front(s), Last(s))[i] = s[i]
    BY <1>1, <1>2, <1>3, <1>4
  <2> QED BY <2>1, <2>2, <2>3, SeqEqual
<1> QED BY <1>2, <1>3, <1>4, <1>5

LEMMA CountFront ==
  ASSUME NEW S, NEW s \in Seq(S), NEW F, s # <<>>
  PROVE  CountIn(s, F) =
           CountIn(Front(s), F) + (IF Last(s) \in F THEN 1 ELSE 0)
<1>1. Front(s) \in Seq(S) /\ Last(s) \in S
  BY FrontLast
<1>2. CountIn(Append(Front(s), Last(s)), F) =
        CountIn(Front(s), F) + (IF Last(s) \in F THEN 1 ELSE 0)
  BY <1>1, CountAppend
<1>3. s = Append(Front(s), Last(s))
  BY FrontLast
<1> QED BY <1>2, <1>3

---------------------------------------------------------------------------

(* The backward scan of get() ends at the last entry with the name.        *)
LEMMA FindEntryProperties ==
  ASSUME NEW S, NEW es \in Seq(S), NEW name
  PROVE  /\ FindEntry(es, name) \in 0 .. Len(es)
         /\ FindEntry(es, name) # 0 => es[FindEntry(es, name)].name = name
         /\ \A i \in 1 .. Len(es) : i > FindEntry(es, name) => es[i].name # name
<1> DEFINE I == {i \in 1 .. Len(es) : es[i].name = name}
<1>1. FindEntry(es, name) = IF I # {} THEN Max(I) ELSE 0
  BY Zenon DEF FindEntry, SelectLastInSeq
<1>2. Len(es) \in Nat /\ I \in SUBSET (1 .. Len(es))
  OBVIOUS
<1>3. /\ FindEntry(es, name) \in 0 .. Len(es)
      /\ FindEntry(es, name) # 0 => FindEntry(es, name) \in I
      /\ \A i \in 1 .. Len(es) : i > FindEntry(es, name) => i \notin I
  <2> HIDE DEF I
  <2> QED BY <1>1, <1>2, LastWhere
<1> QED BY <1>3

(* The loop of pop() leaves the prefix that ends at the last entry whose   *)
(* depth differs from d.                                                   *)
LEMMA PopEntriesProperties ==
  ASSUME NEW S, NEW es \in Seq(S), NEW d
  PROVE  \E k \in 0 .. Len(es) :
           /\ PopEntries(es, d) = SubSeq(es, 1, k)
           /\ PopEntries(es, d) \in Seq(S)
           /\ Len(PopEntries(es, d)) = k
           /\ \A i \in 1 .. k : PopEntries(es, d)[i] = es[i]
           /\ k # 0 => es[k].scope_depth # d
           /\ \A i \in 1 .. Len(es) : i > k => es[i].scope_depth = d
<1> DEFINE I == {i \in 1 .. Len(es) : es[i].scope_depth # d}
           k == SelectLastInSeq(es, LAMBDA e : e.scope_depth # d)
<1>1. PopEntries(es, d) = SubSeq(es, 1, k) /\ k = IF I # {} THEN Max(I) ELSE 0
  BY Zenon DEF PopEntries, SelectLastInSeq
<1>2. Len(es) \in Nat /\ I \in SUBSET (1 .. Len(es))
  BY SMT
<1> HIDE DEF k
<1>3. /\ k \in 0 .. Len(es)
      /\ k # 0 => k \in I
      /\ \A i \in 1 .. Len(es) : i > k => i \notin I
  <2> HIDE DEF I
  <2> QED BY <1>1, <1>2, LastWhere
<1>5. \A i \in 1 .. k : es[i] \in S
  BY <1>3
<1>6. /\ SubSeq(es, 1, k) \in Seq(S)
      /\ Len(SubSeq(es, 1, k)) = k
      /\ \A i \in 1 .. k : SubSeq(es, 1, k)[i] = es[i]
  BY <1>3, <1>5, SubSeqProperties
<1> QED BY <1>1, <1>3, <1>6

---------------------------------------------------------------------------
(* Sorted tables.                                                          *)

EntriesOver(N, V) == [name : N, value : V, scope_depth : Nat]
IsTable(es) == \E N, V : es \in Seq(EntriesOver(N, V))

Sorted(es, d) ==
  /\ \A i \in DOMAIN es : es[i].scope_depth <= d
  /\ \A i, j \in DOMAIN es : i <= j => es[i].scope_depth <= es[j].scope_depth

(* fs has the variables of es, as far as it reaches.                       *)
SameSlots(es, fs) ==
  \A i \in DOMAIN es \cap DOMAIN fs :
     fs[i].name = es[i].name /\ fs[i].scope_depth = es[i].scope_depth

LEMMA TableFacts ==
  ASSUME NEW es, IsTable(es)
  PROVE  /\ DOMAIN es = 1 .. Len(es) /\ Len(es) \in Nat
         /\ \A i \in DOMAIN es : es[i].scope_depth \in Nat
<1>1. PICK N, V : es \in Seq(EntriesOver(N, V))
  BY DEF IsTable
<1>2. \A i \in 1 .. Len(es) : es[i] \in EntriesOver(N, V)
  BY <1>1, ElementOfSeq
<1> QED BY <1>1, <1>2 DEF EntriesOver

LEMMA EntriesGrow ==
  ASSUME NEW N, NEW V, NEW M, NEW W
  PROVE  /\ Seq(EntriesOver(N, V)) \subseteq Seq(EntriesOver(N \cup M, V \cup W))
         /\ EntriesOver(M, W) \subseteq EntriesOver(N \cup M, V \cup W)
<1>1. /\ EntriesOver(N, V) \subseteq EntriesOver(N \cup M, V \cup W)
      /\ EntriesOver(M, W) \subseteq EntriesOver(N \cup M, V \cup W)
  BY DEF EntriesOver
<1> QED BY <1>1, SeqMonotonic

LEMMA EntryTable ==
  ASSUME NEW name, NEW value, NEW d \in Nat
  PROVE  /\ <<Entry(name, value, d)>> \in Seq(EntriesOver({name}, {value}))
         /\ IsTable(<<Entry(name, value, d)>>)
<1>1. Entry(name, value, d) \in EntriesOver({name}, {value})
  BY DEF Entry, EntriesOver
<1>2. <<Entry(name, value, d)>> \in Seq(EntriesOver({name}, {value}))
  BY <1>1
<1> QED BY <1>2 DEF IsTable

(* A longer table: the entries of the first part stay where they are, and  *)
(* those of the second follow.                                             *)
LEMMA ConcatTable ==
  ASSUME NEW es, IsTable(es), NEW new, IsTable(new)
  PROVE  \A i \in DOMAIN (es \o new) :
           \/ i \in DOMAIN es /\ (es \o new)[i] = es[i]
           \/ /\ i - Len(es) \in DOMAIN new /\ i > Len(es)
              /\ (es \o new)[i] = new[i - Len(es)]
<1>1. PICK N, V : es \in Seq(EntriesOver(N, V))
  BY DEF IsTable
<1>2. PICK M, W : new \in Seq(EntriesOver(M, W))
  BY DEF IsTable
<1> DEFINE S == EntriesOver(N \cup M, V \cup W)
<1>3. EntriesOver(M, W) \subseteq S /\ es \in Seq(S)
  BY <1>1, EntriesGrow
<1>4. new \in Seq(S)
  <2> HIDE DEF S
  <2> QED BY <1>2, <1>3, SeqMonotonic
<1> HIDE DEF S
<1>5. /\ DOMAIN es = 1 .. Len(es) /\ Len(es) \in Nat
      /\ DOMAIN new = 1 .. Len(new) /\ Len(new) \in Nat
      /\ es \o new \in Seq(S) /\ Len(es \o new) = Len(es) + Len(new)
      /\ \A i \in 1 .. Len(es) + Len(new) :
           (es \o new)[i] = IF i <= Len(es) THEN es[i] ELSE new[i - Len(es)]
  BY <1>3, <1>4, ConcatProperties
<1>6. DOMAIN (es \o new) = 1 .. Len(es) + Len(new)
  BY <1>5
<1>7. ASSUME NEW i \in 1 .. Len(es) + Len(new)
      PROVE  \/ i \in DOMAIN es /\ (es \o new)[i] = es[i]
             \/ /\ i - Len(es) \in DOMAIN new /\ i > Len(es)
                /\ (es \o new)[i] = new[i - Len(es)]
  <2>1. CASE i <= Len(es)
    BY <1>5, <2>1
  <2>2. CASE i > Len(es)
    <3>1. i - Len(es) \in 1 .. Len(new)
      BY <1>5, <1>7, <2>2
    <3> QED BY <1>5, <1>7, <2>2, <3>1
  <2> QED BY <1>5, <2>1, <2>2
<1> QED BY <1>6, <1>7

(* New variables at a depth that no variable exceeds.                      *)
LEMMA ExtendTable ==
  ASSUME NEW es, IsTable(es), NEW d \in Nat, Sorted(es, d),
         NEW new, IsTable(new), NEW e \in Nat, d <= e,
         \A j \in DOMAIN new : new[j].scope_depth = e
  PROVE  IsTable(es \o new) /\ Sorted(es \o new, e) /\ SameSlots(es, es \o new)
<1>1. PICK N, V : es \in Seq(EntriesOver(N, V))
  BY DEF IsTable
<1>2. PICK M, W : new \in Seq(EntriesOver(M, W))
  BY DEF IsTable
<1> DEFINE S == EntriesOver(N \cup M, V \cup W)
           fs == es \o new
<1>3. /\ EntriesOver(M, W) \subseteq S
      /\ es \in Seq(S)
  BY <1>1, EntriesGrow
<1>4. new \in Seq(S)
  <2> HIDE DEF S
  <2> QED BY <1>2, <1>3, SeqMonotonic
<1> HIDE DEF S
<1>5. /\ fs \in Seq(S) /\ Len(fs) = Len(es) + Len(new)
      /\ \A i \in 1 .. Len(es) + Len(new) :
           fs[i] = IF i <= Len(es) THEN es[i] ELSE new[i - Len(es)]
  BY <1>3, <1>4, ConcatProperties
<1>6. IsTable(fs)
  BY <1>5 DEF IsTable, S
<1> HIDE DEF fs
<1>7. /\ DOMAIN es = 1 .. Len(es) /\ Len(es) \in Nat
      /\ DOMAIN new = 1 .. Len(new) /\ Len(new) \in Nat
      /\ DOMAIN fs = 1 .. Len(es) + Len(new)
      /\ \A i \in DOMAIN es : es[i].scope_depth \in Nat
  BY <1>5, <1>6, TableFacts
<1>8. ASSUME NEW i \in DOMAIN fs
      PROVE  /\ i \in DOMAIN es => fs[i] = es[i]
             /\ i \notin DOMAIN es => fs[i].scope_depth = e /\ i > Len(es)
  <2>1. CASE i <= Len(es)
    BY <1>5, <1>7, <1>8, <2>1
  <2>2. CASE i > Len(es)
    <3>1. i - Len(es) \in DOMAIN new
      BY <1>7, <1>8, <2>2
    <3> QED BY <1>5, <1>7, <1>8, <2>2, <3>1
  <2> QED BY <1>7, <2>1, <2>2
<1>9. \A i \in DOMAIN fs :
        /\ i \in DOMAIN es => fs[i] = es[i]
        /\ i \notin DOMAIN es => fs[i].scope_depth = e
  BY <1>8
<1>10. \A i \in DOMAIN fs : fs[i].scope_depth \in Nat /\ fs[i].scope_depth <= e
  BY <1>7, <1>9 DEF Sorted
<1>11. ASSUME NEW i \in DOMAIN fs, NEW j \in DOMAIN fs, i <= j
       PROVE  fs[i].scope_depth <= fs[j].scope_depth
  <2>1. CASE j \in DOMAIN es
    <3>1. i \in DOMAIN es
      BY <1>7, <1>11, <2>1
    <3> QED BY <1>9, <1>11, <2>1, <3>1 DEF Sorted
  <2>2. CASE j \notin DOMAIN es
    BY <1>9, <1>10, <2>2
  <2> QED BY <2>1, <2>2
<1>12. Sorted(fs, e)
  BY <1>10, <1>11 DEF Sorted
<1> QED BY <1>6, <1>9, <1>12 DEF SameSlots, fs

LEMMA DefineIsConcat ==
  ASSUME NEW es, IsTable(es), NEW d \in Nat, NEW name, NEW value
  PROVE  DefineEntry(es, d, name, value) = es \o <<Entry(name, value, d)>>
<1>1. PICK N, V : es \in Seq(EntriesOver(N, V))
  BY DEF IsTable
<1>2. /\ es \in Seq(EntriesOver(N \cup {name}, V \cup {value}))
      /\ Entry(name, value, d) \in EntriesOver(N \cup {name}, V \cup {value})
  BY <1>1, EntriesGrow DEF Entry, EntriesOver
<1> QED BY <1>2, AppendIsConcat DEF DefineEntry

LEMMA DefineTable ==
  ASSUME NEW es, IsTable(es), NEW d \in Nat, Sorted(es, d), NEW name, NEW value
  PROVE  LET fs == DefineEntry(es, d, name, value)
         IN  IsTable(fs) /\ Sorted(fs, d) /\ SameSlots(es, fs)
<1> DEFINE new == <<Entry(name, value, d)>>
<1>1. IsTable(new) /\ \A j \in DOMAIN new : new[j].scope_depth = d
  <2>1. Entry(name, value, d).scope_depth = d
    BY DEF Entry
  <2>2. \A j \in DOMAIN new : new[j] = Entry(name, value, d)
    OBVIOUS
  <2> QED BY <2>1, <2>2, EntryTable, Zenon
<1>2. DefineEntry(es, d, name, value) = es \o new
  BY DefineIsConcat
<1> HIDE DEF new
<1>3. d <= d
  OBVIOUS
<1>4. IsTable(es \o new) /\ Sorted(es \o new, d) /\ SameSlots(es, es \o new)
  BY <1>1, <1>3, ExtendTable, Zenon
<1> QED BY <1>2, <1>4, Zenon

(* A scope that is closed takes its variables with it.                     *)
LEMMA PopTable ==
  ASSUME NEW es, IsTable(es), NEW d \in Nat \ {0}, Sorted(es, d)
  PROVE  LET fs == PopEntries(es, d)
         IN  /\ IsTable(fs) /\ Sorted(fs, d - 1)
             /\ SameSlots(es, fs) /\ DOMAIN fs \subseteq DOMAIN es
<1>1. PICK N, V : es \in Seq(EntriesOver(N, V))
  BY DEF IsTable
<1>2. PICK k \in 0 .. Len(es) :
        /\ PopEntries(es, d) \in Seq(EntriesOver(N, V))
        /\ Len(PopEntries(es, d)) = k
        /\ \A i \in 1 .. k : PopEntries(es, d)[i] = es[i]
        /\ k # 0 => es[k].scope_depth # d
  BY <1>1, PopEntriesProperties
<1> DEFINE fs == PopEntries(es, d)
<1>3. IsTable(fs)
  BY <1>2 DEF IsTable
<1>4. /\ DOMAIN es = 1 .. Len(es) /\ Len(es) \in Nat
      /\ \A i \in DOMAIN es : es[i].scope_depth \in Nat
  BY TableFacts
<1>5. DOMAIN fs = 1 .. k /\ \A i \in 1 .. k : fs[i] = es[i]
  BY <1>2, <1>3, TableFacts
<1> HIDE DEF fs
<1>6. \A i \in 1 .. k : es[i].scope_depth <= d - 1
  BY <1>2, <1>4 DEF Sorted
<1>7. Sorted(fs, d - 1)
  BY <1>2, <1>4, <1>5, <1>6 DEF Sorted
<1> QED BY <1>3, <1>4, <1>5, <1>7 DEF SameSlots, fs

(* A value stored in a variable moves nothing.                             *)
LEMMA StoreTable ==
  ASSUME NEW es, IsTable(es), NEW d \in Nat, Sorted(es, d), NEW k, NEW v
  PROVE  LET fs == [es EXCEPT ![k].value = v]
         IN  IsTable(fs) /\ Sorted(fs, d) /\ SameSlots(es, fs)
<1> DEFINE fs == [es EXCEPT ![k].value = v]
<1>1. PICK N, V : es \in Seq(EntriesOver(N, V))
  BY DEF IsTable
<1> DEFINE S == EntriesOver(N, V \cup {v})
<1>2. /\ DOMAIN es = 1 .. Len(es) /\ Len(es) \in Nat
      /\ DOMAIN fs = DOMAIN es
      /\ \A i \in DOMAIN es : es[i] \in EntriesOver(N, V)
  BY <1>1, TableFacts, ElementOfSeq
<1>3. \A i \in DOMAIN es :
         /\ fs[i] \in S
         /\ fs[i].name = es[i].name /\ fs[i].scope_depth = es[i].scope_depth
  BY <1>2 DEF EntriesOver
<1>4. fs = [i \in 1 .. Len(es) |-> fs[i]]
  BY <1>2
<1> HIDE DEF fs, S
<1>5. fs \in Seq(S)
  BY <1>2, <1>3, <1>4, IsASeq
<1>6. IsTable(fs)
  BY <1>5 DEF IsTable, S
<1>7. Sorted(fs, d)
  BY <1>2, <1>3 DEF Sorted
<1> QED BY <1>2, <1>3, <1>6, <1>7 DEF SameSlots, fs

(* What stays where it is: everything, but for the scope that is closed.   *)
LEMMA StaysInTable ==
  ASSUME NEW es, IsTable(es)
  PROVE  /\ \A d : \A i \in DOMAIN es :
              es[i].scope_depth # d => i \in DOMAIN PopEntries(es, d)
         /\ \A d \in Nat : \A name, value :
              DOMAIN es \subseteq DOMAIN DefineEntry(es, d, name, value)
         /\ \A new : IsTable(new) => DOMAIN es \subseteq DOMAIN (es \o new)
<1>1. PICK N, V : es \in Seq(EntriesOver(N, V))
  BY DEF IsTable
<1> DEFINE S == EntriesOver(N, V)
<1>2. es \in Seq(S) /\ DOMAIN es = 1 .. Len(es) /\ Len(es) \in Nat
  BY <1>1
<1> HIDE DEF S
<1>3. ASSUME NEW d, NEW i \in DOMAIN es, es[i].scope_depth # d
      PROVE  i \in DOMAIN PopEntries(es, d)
  <2>1. PICK k \in 0 .. Len(es) :
          /\ PopEntries(es, d) \in Seq(S) /\ Len(PopEntries(es, d)) = k
          /\ \A j \in 1 .. Len(es) : j > k => es[j].scope_depth = d
    BY <1>2, PopEntriesProperties
  <2>2. DOMAIN PopEntries(es, d) = 1 .. k
    BY <2>1
  <2>3. ~ (i > k)
    BY <1>2, <1>3, <2>1
  <2> QED BY <1>2, <1>3, <2>1, <2>2, <2>3
<1>4. ASSUME NEW new, IsTable(new) PROVE DOMAIN es \subseteq DOMAIN (es \o new)
  <2>1. DOMAIN (es \o new) = 1 .. Len(es) + Len(new)
    <3>1. PICK M, W : new \in Seq(EntriesOver(M, W))
      BY <1>4 DEF IsTable
    <3> QED BY <1>2, <3>1, ConcatProperties, LenProperties
  <2>2. Len(new) \in Nat
    BY <1>4, TableFacts
  <2> QED BY <1>2, <2>1, <2>2
<1>5. ASSUME NEW d \in Nat, NEW name, NEW value
      PROVE  DOMAIN es \subseteq DOMAIN DefineEntry(es, d, name, value)
  BY <1>4, <1>5, EntryTable, DefineIsConcat
<1> QED BY <1>3, <1>4, <1>5

=============================================================================
