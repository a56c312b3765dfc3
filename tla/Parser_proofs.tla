--------------------------- MODULE Parser_proofs ---------------------------
(***************************************************************************)
(* The parser on every sequence of tokens.  What a handler will do to the  *)
(* nodes under construction depends only on its kind: a maker adds one, a  *)
(* closer takes one away, the others work on the one on top.  So the       *)
(* height of `built` at every task still to run is known in advance; no    *)
(* task reaches below the nodes its declaration() found, and at a catch    *)
(* exactly one has come on top of them.                                    *)
(***************************************************************************)
EXTENDS Parser, FiniteSetTheorems, SequenceTheorems, WellFoundedInduction, TLAPS

---------------------------------------------------------------------------
(* Tasks.                                                                  *)

Makers ==
  {"declaration", "struct_or_variable", "type", "parameter", "element",
   "statement", "open_block", "assignment", "unary", "primary"}
Closers == {"add", "size"}
Users ==
  {"fields", "declarator", "dimensions", "initializer", "for_initializer",
   "for_condition", "for_increment", "return_value", "else", "block", "infix",
   "assign", "postfix", "items", "more"}

(* What a task does to the number of nodes, and how many it works on.      *)
Grow(t) == IF t.do \in Makers THEN 1 ELSE IF t.do \in Closers THEN -1 ELSE 0
Need(t) ==
  IF t.do \in Closers THEN 2
  ELSE IF t.do \in (Makers \ {"declaration"}) \cup {"consume"} THEN 0 ELSE 1

IsItem(item) == item \in {"parameter", "element", "assignment"}
IsDelimiter(type) == type \in {"id", ";", "(", ")", "{", "}", "]"}

(* Tasks in the body of a declaration().                                   *)
BodyTask(t) ==
  \/ t.do \in Makers \cup Closers \cup (Users \ {"items", "more"})
  \/ t.do = "consume" /\ IsDelimiter(t.type)
  \/ t.do \in {"items", "more"} /\ IsItem(t.item) /\ IsDelimiter(t.type)

(* Tasks that need no declaration() around them.                           *)
Outside == {"parse", "declaration", "add"}

IsSeq(q) == \E S : q \in Seq(S)

(* The heights of `built` when each task of a stack is next.               *)
Heights(h, s) ==
  /\ h \in [1 .. Len(s) + 1 -> Int]
  /\ \A i \in 1 .. Len(s) : h[i + 1] = h[i] + Grow(s[i])

(* Task i has what it works on, above the nodes that each declaration()    *)
(* around it found.                                                        *)
Placed(h, s, i) ==
  /\ h[i] >= Need(s[i])
  /\ \A j \in i .. Len(s) : s[j].do = "catch" => h[i] >= s[j].n + Need(s[i])
  /\ s[i].do \notin Outside => \E j \in i .. Len(s) : s[j].do = "catch"
  /\ \/ BodyTask(s[i])
     \/ s[i].do = "catch" /\ s[i].n \in Nat \ {0} /\ h[i] = s[i].n + 1
     \/ s[i] = Do("parse") /\ i = Len(s) /\ h[i] = 1

Runs(s, x) ==
  \E h : Heights(h, s) /\ h[1] = x /\ \A i \in 1 .. Len(s) : Placed(h, s, i)

StackInv ==
  /\ IsSeq(todo) /\ IsSeq(built)
  /\ todo # <<>> => Last(todo) = Do("parse")
  /\ mode = "parsing" => todo # <<>>
  /\ Runs(todo, Len(built))

TokensInv ==
  /\ IsSeq(tokens_) /\ tokens_ # <<>> /\ Last(tokens_) = "eof"
  /\ \A i \in DOMAIN tokens_ : tokens_[i] # "outside"
  /\ current_ \in DOMAIN tokens_

(* What was reported is behind the parser, unless it is the end.           *)
SinkInv ==
  /\ IsSeq(sink)
  /\ \A i \in 1 .. Len(sink) :
       /\ sink[i].at \in 1 .. current_
       /\ sink[i].at < current_ \/ TokenAt(sink[i].at) = "eof"
  /\ \A i \in 2 .. Len(sink) :
       sink[i - 1].at < sink[i].at \/ TokenAt(sink[i].at) = "eof"

IInv ==
  /\ TokensInv /\ StackInv /\ SinkInv
  /\ mode \in {"parsing", "parsed", "escaped"}
  /\ mode = "parsed" => IsAtEnd /\ Len(built) = 1

(* Where recovery that started at token `from` leaves the nesting.         *)
KeepsNesting(from, to) ==
  /\ \A i \in After(from) .. to - 1 : Nesting(After(from), i) >= 0
  /\ TokenAt(to) = "eof" \/ Nesting(After(from), to) <= 0
Resumes == sink' # sink => KeepsNesting(RaisedAt, current_')

(* The braces, for steps that count.                                       *)
Opens(i) == TokenAt(i) = "{"
Closes(i) == TokenAt(i) = "}"

---------------------------------------------------------------------------
(* Sequences of anything.                                                  *)

LEMMA SeqFacts ==
  ASSUME NEW q, IsSeq(q)
  PROVE  Len(q) \in Nat /\ DOMAIN q = 1 .. Len(q)
BY DEF IsSeq

LEMMA AppendIsSeq ==
  ASSUME NEW q, IsSeq(q), NEW e
  PROVE  /\ IsSeq(Append(q, e)) /\ Len(Append(q, e)) = Len(q) + 1
         /\ Append(q, e)[Len(q) + 1] = e
         /\ \A i \in 1 .. Len(q) : Append(q, e)[i] = q[i]
<1>1. PICK S : q \in Seq(S)
  BY DEF IsSeq
<1>2. q \in Seq(S \cup {e})
  BY <1>1, SeqMonotonic
<1>3. Append(q, e) \in Seq(S \cup {e})
  BY <1>2
<1> QED BY <1>2, <1>3 DEF IsSeq

LEMMA SubSeqIsSeq ==
  ASSUME NEW q, IsSeq(q), NEW m \in 1 .. Len(q) + 1, NEW n \in m - 1 .. Len(q)
  PROVE  /\ IsSeq(SubSeq(q, m, n)) /\ Len(SubSeq(q, m, n)) = n - m + 1
         /\ \A i \in 1 .. n - m + 1 : SubSeq(q, m, n)[i] = q[m + i - 1]
<1>1. PICK S : q \in Seq(S)
  BY DEF IsSeq
<1>2. m \in Int /\ n \in Int /\ \A i \in m .. n : q[i] \in S
  BY <1>1
<1>3. /\ SubSeq(q, m, n) \in Seq(S)
      /\ Len(SubSeq(q, m, n)) = IF m <= n THEN n - m + 1 ELSE 0
      /\ \A i \in 1 .. n - m + 1 : SubSeq(q, m, n)[i] = q[m + i - 1]
  BY <1>2, SubSeqProperties
<1>4. Len(SubSeq(q, m, n)) = n - m + 1
  BY <1>1, <1>3
<1> QED BY <1>3, <1>4 DEF IsSeq

LEMMA ConcatIsSeq ==
  ASSUME NEW p, IsSeq(p), NEW q, IsSeq(q)
  PROVE  /\ IsSeq(p \o q) /\ Len(p \o q) = Len(p) + Len(q)
         /\ \A i \in 1 .. Len(p) : (p \o q)[i] = p[i]
         /\ \A i \in 1 .. Len(q) : (p \o q)[Len(p) + i] = q[i]
<1>1. PICK S, T : p \in Seq(S) /\ q \in Seq(T)
  BY DEF IsSeq
<1>2. p \in Seq(S \cup T) /\ q \in Seq(S \cup T)
  BY <1>1, SeqMonotonic
<1>3. p \o q \in Seq(S \cup T)
  BY <1>2
<1> QED BY <1>2, <1>3 DEF IsSeq

LEMMA ConcatOfThree ==
  ASSUME NEW p, IsSeq(p), NEW q, IsSeq(q), NEW r, IsSeq(r)
  PROVE  (p \o q) \o r = p \o (q \o r)
<1>1. PICK S, T, U : p \in Seq(S) /\ q \in Seq(T) /\ r \in Seq(U)
  BY DEF IsSeq
<1>2. p \in Seq(S \cup T \cup U) /\ q \in Seq(S \cup T \cup U) /\ r \in Seq(S \cup T \cup U)
  BY <1>1, SeqMonotonic
<1> QED BY <1>2, ConcatAssociative

LEMMA RestIsSeq ==
  ASSUME NEW s, IsSeq(s), NEW c \in 0 .. Len(s)
  PROVE  /\ IsSeq(SubSeq(s, c + 1, Len(s)))
         /\ Len(SubSeq(s, c + 1, Len(s))) = Len(s) - c
         /\ \A i \in 1 .. Len(s) - c : SubSeq(s, c + 1, Len(s))[i] = s[c + i]
<1> DEFINE m == c + 1
           n == Len(s)
           q == SubSeq(s, m, n)
<1>1. Len(s) \in Nat
  BY SeqFacts
<1>2. m \in 1 .. Len(s) + 1 /\ n \in m - 1 .. Len(s) /\ n - m + 1 = Len(s) - c
  BY <1>1
<1> HIDE DEF m, n
<1>3. /\ IsSeq(q) /\ Len(q) = n - m + 1
      /\ \A i \in 1 .. n - m + 1 : q[i] = s[m + i - 1]
  BY <1>2, SubSeqIsSeq
<1> HIDE DEF q
<1>4. \A i \in 1 .. Len(s) - c : m + i - 1 = c + i
  BY <1>1 DEF m
<1>5. IsSeq(q) /\ Len(q) = Len(s) - c /\ \A i \in 1 .. Len(s) - c : q[i] = s[c + i]
  BY <1>2, <1>3, <1>4
<1> QED BY <1>5 DEF q, m, n

LEMMA FrontIsSeq ==
  ASSUME NEW q, IsSeq(q), q # <<>>
  PROVE  /\ IsSeq(Front(q)) /\ Len(Front(q)) = Len(q) - 1
         /\ Last(q) = q[Len(q)] /\ Len(q) >= 1
<1>1. Len(q) \in Nat /\ Len(q) # 0
  BY DEF IsSeq
<1>2. 1 \in 1 .. Len(q) + 1 /\ Len(q) - 1 \in 1 - 1 .. Len(q)
  BY <1>1
<1>3. IsSeq(SubSeq(q, 1, Len(q) - 1)) /\ Len(SubSeq(q, 1, Len(q) - 1)) = Len(q) - 1 - 1 + 1
  BY <1>2, SubSeqIsSeq
<1> QED BY <1>1, <1>3 DEF Front, Last

LEMMA TailIsSeq ==
  ASSUME NEW q, IsSeq(q), q # <<>>
  PROVE  /\ IsSeq(Tail(q)) /\ Len(Tail(q)) = Len(q) - 1 /\ Len(q) >= 1
         /\ \A i \in 1 .. Len(q) - 1 : Tail(q)[i] = q[i + 1]
         /\ Head(q) = q[1]
BY DEF IsSeq

LEMMA NothingBefore == ASSUME NEW q, IsSeq(q) PROVE <<>> \o q = q
<1>1. PICK S : q \in Seq(S)
  BY DEF IsSeq
<1> QED BY <1>1, ConcatEmptySeq

LEMMA LastOfConcat ==
  ASSUME NEW p, IsSeq(p), NEW q, IsSeq(q), q # <<>>
  PROVE  IsSeq(p \o q) /\ p \o q # <<>> /\ Last(p \o q) = Last(q)
<1>1. /\ IsSeq(p \o q) /\ Len(p \o q) = Len(p) + Len(q)
      /\ \A i \in 1 .. Len(q) : (p \o q)[Len(p) + i] = q[i]
  BY ConcatIsSeq
<1>2. Len(p) \in Nat /\ Len(q) \in Nat /\ Len(q) >= 1 /\ Last(q) = q[Len(q)]
  BY SeqFacts, FrontIsSeq
<1>3. p \o q # <<>>
  <2>1. Len(p \o q) # 0 /\ Len(<<>>) = 0
    BY <1>1, <1>2
  <2> QED BY <2>1
<1>4. Last(p \o q) = (p \o q)[Len(p) + Len(q)] /\ Len(q) \in 1 .. Len(q)
  <2> DEFINE r == p \o q
  <2>1. IsSeq(r) /\ r # <<>> /\ Len(r) = Len(p) + Len(q)
    BY <1>1, <1>3
  <2> HIDE DEF r
  <2>2. Last(r) = r[Len(p) + Len(q)]
    BY <2>1, FrontIsSeq
  <2> QED BY <1>2, <2>2 DEF r
<1> QED BY <1>1, <1>2, <1>3, <1>4

(* "<" on the natural numbers, as a relation, and the least element of a   *)
(* set of them.                                                            *)
LessThan == {p \in Nat \X Nat : p[1] < p[2]}

LEMMA LessThanWellFounded == IsWellFoundedOn(LessThan, Nat)
<1>1. LessThan = OpToRel(<, Nat)
  BY Zenon DEF LessThan, OpToRel
<1> QED BY <1>1, NatLessThanWellFounded, Zenon

LEMMA MinOfNat ==
  ASSUME NEW S \in SUBSET Nat, S # {}
  PROVE  Min(S) \in S /\ \A y \in S : Min(S) <= y
<1>1. PICK m \in S : \A y \in S : ~ (<<y, m>> \in LessThan)
  BY LessThanWellFounded, WFMin
<1>2. ASSUME NEW y \in S PROVE m <= y
  <2>1. y \in Nat /\ m \in Nat
    OBVIOUS
  <2>2. ~ (y < m)
    BY <1>1, <2>1 DEF LessThan
  <2> QED BY <2>1, <2>2
<1> QED BY <1>2 DEF Min

---------------------------------------------------------------------------
(* Replacing the task in front.                                            *)

(* The tasks ts take the nodes from x above some ground to y, and never    *)
(* reach below it.                                                         *)
Fills(ts, x, y) ==
  /\ IsSeq(ts)
  /\ \E g : /\ Heights(g, ts) /\ g[1] = x /\ g[Len(ts) + 1] = y
            /\ \A i \in 1 .. Len(ts) : BodyTask(ts[i]) /\ g[i] >= Need(ts[i])

LEMMA FillsNothing == ASSUME NEW x \in Int PROVE Fills(<<>>, x, x)
<1> DEFINE g == [i \in 1 .. 1 |-> x]
<1>1. IsSeq(<<>>) /\ Len(<<>>) = 0
  BY DEF IsSeq
<1>2. Heights(g, <<>>)
  BY <1>1 DEF Heights
<1> QED BY <1>1, <1>2 DEF Fills

LEMMA FillsTask ==
  ASSUME NEW t, BodyTask(t), NEW x \in Int, x >= Need(t), NEW y, y = x + Grow(t)
  PROVE  Fills(<<t>>, x, y)
<1> DEFINE g == [i \in 1 .. 2 |-> IF i = 1 THEN x ELSE x + Grow(t)]
<1>1. IsSeq(<<t>>) /\ Len(<<t>>) = 1 /\ <<t>>[1] = t
  <2>1. <<t>> \in Seq({t})
    OBVIOUS
  <2> QED BY <2>1 DEF IsSeq
<1>2. Grow(t) \in Int
  BY DEF Grow
<1>3. g \in [1 .. Len(<<t>>) + 1 -> Int] /\ g[1] = x /\ g[Len(<<t>>) + 1] = x + Grow(t)
  BY <1>1, <1>2
<1>4. Heights(g, <<t>>)
  BY <1>1, <1>3 DEF Heights
<1>5. \A i \in 1 .. Len(<<t>>) : BodyTask(<<t>>[i]) /\ g[i] >= Need(<<t>>[i])
  BY <1>1, <1>3
<1> HIDE DEF g
<1> QED BY <1>1, <1>3, <1>4, <1>5 DEF Fills

LEMMA FillsJoin ==
  ASSUME NEW s, NEW t, NEW x, NEW y, NEW z, Fills(s, x, y), Fills(t, y, z)
  PROVE  Fills(s \o t, x, z)
<1>1. PICK g : /\ Heights(g, s) /\ g[1] = x /\ g[Len(s) + 1] = y
               /\ \A i \in 1 .. Len(s) : BodyTask(s[i]) /\ g[i] >= Need(s[i])
  BY DEF Fills
<1>2. PICK h : /\ Heights(h, t) /\ h[1] = y /\ h[Len(t) + 1] = z
               /\ \A i \in 1 .. Len(t) : BodyTask(t[i]) /\ h[i] >= Need(t[i])
  BY DEF Fills
<1>3. IsSeq(s) /\ IsSeq(t) /\ Len(s) \in Nat /\ Len(t) \in Nat
  BY SeqFacts DEF Fills
<1> DEFINE f == [i \in 1 .. Len(s) + Len(t) + 1 |->
                   IF i <= Len(s) THEN g[i] ELSE h[i - Len(s)]]
<1>4. /\ IsSeq(s \o t) /\ Len(s \o t) = Len(s) + Len(t)
      /\ \A i \in 1 .. Len(s) : (s \o t)[i] = s[i]
      /\ \A i \in 1 .. Len(t) : (s \o t)[Len(s) + i] = t[i]
  BY <1>3, ConcatIsSeq
<1>5. f \in [1 .. Len(s \o t) + 1 -> Int]
  BY <1>1, <1>2, <1>3, <1>4 DEF Heights
<1>6. \A i \in 1 .. Len(s) + 1 : f[i] = g[i]
  BY <1>1, <1>2, <1>3
<1>7. \A i \in 1 .. Len(t) + 1 : f[Len(s) + i] = h[i]
  BY <1>1, <1>2, <1>3
<1> HIDE DEF f
<1>8. ASSUME NEW i \in 1 .. Len(s \o t)
      PROVE  /\ f[i + 1] = f[i] + Grow((s \o t)[i])
             /\ BodyTask((s \o t)[i]) /\ f[i] >= Need((s \o t)[i])
  <2>1. CASE i <= Len(s)
    <3>1. i \in 1 .. Len(s) /\ i + 1 \in 1 .. Len(s) + 1 /\ i \in 1 .. Len(s) + 1
      BY <1>3, <2>1
    <3> QED BY <1>1, <1>4, <1>6, <3>1 DEF Heights
  <2>2. CASE i > Len(s)
    <3> DEFINE k == i - Len(s)
    <3>1. /\ k \in 1 .. Len(t) /\ k + 1 \in 1 .. Len(t) + 1 /\ k \in 1 .. Len(t) + 1
          /\ i = Len(s) + k /\ i + 1 = Len(s) + (k + 1)
      BY <1>3, <1>4, <2>2
    <3> HIDE DEF k
    <3>2. f[i] = h[k] /\ f[i + 1] = h[k + 1] /\ (s \o t)[i] = t[k]
      BY <1>4, <1>7, <3>1
    <3> QED BY <1>2, <3>1, <3>2 DEF Heights
  <2> QED BY <1>3, <1>4, <2>1, <2>2
<1>9. f[1] = x /\ f[Len(s \o t) + 1] = z
  BY <1>1, <1>2, <1>3, <1>4, <1>6, <1>7
<1> QED BY <1>4, <1>5, <1>8, <1>9 DEF Fills, Heights

LEMMA CatchFacts ==
  ASSUME NEW t, t.do = "catch"
  PROVE  ~ BodyTask(t) /\ t # Do("parse") /\ Need(t) = 1 /\ Grow(t) = 0
<1>1. ~ BodyTask(t)
  BY DEF BodyTask, Makers, Closers, Users
<1>2. t # Do("parse")
  <2>1. Do("parse").do = "parse"
    BY DEF Do, Task
  <2> QED BY <2>1
<1>3. Need(t) = 1 /\ Grow(t) = 0
  BY DEF Makers, Closers, Need, Grow
<1> QED BY <1>1, <1>2, <1>3

(* The tasks of q are those of s from the task c + 1 on.                   *)
LEMMA PlacedInRest ==
  ASSUME NEW s, NEW q, IsSeq(s), IsSeq(q), NEW c \in Nat, Len(s) = c + Len(q),
         \A i \in 1 .. Len(q) : q[i] = s[c + i],
         NEW h, NEW f, \A i \in 1 .. Len(q) + 1 : f[i] = h[c + i],
         NEW i \in 1 .. Len(q)
  PROVE  Placed(f, q, i) <=> Placed(h, s, c + i)
<1> DEFINE k == c + i
<1>1. Len(s) \in Nat /\ Len(q) \in Nat
  BY SeqFacts
<1>2. q[i] = s[k] /\ f[i] = h[k] /\ (i = Len(q) <=> k = Len(s))
  <2>1. i \in 1 .. Len(q) + 1 /\ (i = Len(q) <=> c + i = Len(s))
    BY <1>1
  <2>2. q[i] = s[c + i]
    OBVIOUS
  <2>3. f[i] = h[c + i]
    BY <2>1
  <2> QED BY <2>1, <2>2, <2>3
<1>3. \A j \in i .. Len(q) : c + j \in k .. Len(s) /\ q[j] = s[c + j]
  <2> SUFFICES ASSUME NEW j \in i .. Len(q)
               PROVE  c + j \in k .. Len(s) /\ q[j] = s[c + j]
    OBVIOUS
  <2>1. j \in 1 .. Len(q) /\ c + j \in k .. Len(s)
    BY <1>1
  <2> QED BY <2>1
<1>4. \A l \in k .. Len(s) : l - c \in i .. Len(q) /\ q[l - c] = s[l]
  <2> SUFFICES ASSUME NEW l \in k .. Len(s)
               PROVE  l - c \in i .. Len(q) /\ q[l - c] = s[l]
    OBVIOUS
  <2>1. l - c \in i .. Len(q) /\ c + (l - c) = l
    BY <1>1
  <2> QED BY <1>3, <2>1
<1> HIDE DEF k
<1>5. (f[i] >= Need(q[i])) <=> (h[k] >= Need(s[k]))
  BY <1>2
<1>6. (\A j \in i .. Len(q) : q[j].do = "catch" => f[i] >= q[j].n + Need(q[i]))
        <=> (\A j \in k .. Len(s) : s[j].do = "catch" => h[k] >= s[j].n + Need(s[k]))
  <2>1. ASSUME \A j \in k .. Len(s) : s[j].do = "catch" => h[k] >= s[j].n + Need(s[k]),
               NEW j \in i .. Len(q), q[j].do = "catch"
        PROVE  f[i] >= q[j].n + Need(q[i])
    <3>1. c + j \in k .. Len(s) /\ q[j] = s[c + j]
      BY <1>3
    <3> QED BY <1>2, <2>1, <3>1
  <2>2. ASSUME \A j \in i .. Len(q) : q[j].do = "catch" => f[i] >= q[j].n + Need(q[i]),
               NEW l \in k .. Len(s), s[l].do = "catch"
        PROVE  h[k] >= s[l].n + Need(s[k])
    <3>1. l - c \in i .. Len(q) /\ q[l - c] = s[l]
      BY <1>4
    <3> QED BY <1>2, <2>2, <3>1
  <2> QED BY <2>1, <2>2
<1>7. (\E j \in i .. Len(q) : q[j].do = "catch")
        <=> (\E j \in k .. Len(s) : s[j].do = "catch")
  <2>1. ASSUME NEW j \in i .. Len(q), q[j].do = "catch"
        PROVE  \E l \in k .. Len(s) : s[l].do = "catch"
    BY <1>3, <2>1
  <2>2. ASSUME NEW l \in k .. Len(s), s[l].do = "catch"
        PROVE  \E j \in i .. Len(q) : q[j].do = "catch"
    BY <1>4, <2>2
  <2> QED BY <2>1, <2>2
<1>8. Placed(f, q, i) <=> Placed(h, s, k)
  BY <1>2, <1>5, <1>6, <1>7 DEF Placed
<1> QED BY <1>8 DEF k

(* A stack without its first c tasks runs from the height it reaches there. *)
LEMMA DropTasks ==
  ASSUME NEW s, IsSeq(s), NEW q, IsSeq(q), NEW c \in Nat, Len(s) = c + Len(q),
         \A i \in 1 .. Len(q) : q[i] = s[c + i],
         NEW h, Heights(h, s), \A i \in 1 .. Len(s) : Placed(h, s, i)
  PROVE  Runs(q, h[c + 1])
<1>1. Len(s) \in Nat /\ Len(q) \in Nat
  BY SeqFacts
<1> DEFINE f == [i \in 1 .. Len(q) + 1 |-> h[c + i]]
<1>2. f \in [1 .. Len(q) + 1 -> Int]
  <2>1. \A i \in 1 .. Len(q) + 1 : c + i \in 1 .. Len(s) + 1
    BY <1>1
  <2> QED BY <2>1 DEF Heights
<1>3. \A i \in 1 .. Len(q) + 1 : f[i] = h[c + i]
  OBVIOUS
<1> HIDE DEF f
<1>4. f[1] = h[c + 1]
  <2>1. 1 \in 1 .. Len(q) + 1
    BY <1>1
  <2> QED BY <1>3, <2>1
<1>5. ASSUME NEW i \in 1 .. Len(q)
      PROVE  f[i + 1] = f[i] + Grow(q[i]) /\ Placed(f, q, i)
  <2>1. /\ c + i \in 1 .. Len(s) /\ c + (i + 1) = c + i + 1
        /\ i \in 1 .. Len(q) + 1 /\ i + 1 \in 1 .. Len(q) + 1
    BY <1>1
  <2>2. f[i] = h[c + i] /\ f[i + 1] = h[c + i + 1] /\ q[i] = s[c + i]
    BY <1>3, <2>1
  <2>3. h[c + i + 1] = h[c + i] + Grow(s[c + i]) /\ Placed(h, s, c + i)
    BY <2>1 DEF Heights
  <2>4. Placed(f, q, i) <=> Placed(h, s, c + i)
    BY <1>3, PlacedInRest
  <2> QED BY <2>2, <2>3, <2>4
<1> QED BY <1>2, <1>4, <1>5 DEF Runs, Heights

LEMMA AddBounds ==
  ASSUME NEW a \in Int, NEW b \in Int, NEW c \in Int, NEW d \in Int, a >= b, c >= d
  PROVE  a + c >= b + d
OBVIOUS

(* The stack q under the tasks ts, whose ground is above what the catches  *)
(* of q hold.                                                              *)
LEMMA PushTasks ==
  ASSUME NEW q, IsSeq(q), NEW ground \in Nat, NEW ts, NEW x, NEW y, Fills(ts, x, y),
         Runs(q, ground + y),
         \A j \in 1 .. Len(q) : q[j].do = "catch" => q[j].n \in Int /\ ground >= q[j].n,
         ts = <<>> \/ \E j \in 1 .. Len(q) : q[j].do = "catch"
  PROVE  Runs(ts \o q, ground + x)
<1> DEFINE rest == ts \o q
           n == Len(ts)
<1>1. PICK h : /\ Heights(h, q) /\ h[1] = ground + y
               /\ \A i \in 1 .. Len(q) : Placed(h, q, i)
  BY DEF Runs
<1>2. PICK g : /\ Heights(g, ts) /\ g[1] = x /\ g[n + 1] = y
               /\ \A i \in 1 .. n : BodyTask(ts[i]) /\ g[i] >= Need(ts[i])
  BY DEF Fills
<1>3. IsSeq(ts) /\ n \in Nat /\ Len(q) \in Nat
  BY SeqFacts DEF Fills
<1>4. /\ IsSeq(rest) /\ Len(rest) = n + Len(q)
      /\ \A i \in 1 .. n : rest[i] = ts[i]
      /\ \A i \in 1 .. Len(q) : rest[n + i] = q[i]
  BY <1>3, ConcatIsSeq
<1>5. \A i \in 1 .. n + 1 : g[i] \in Int
  BY <1>2 DEF Heights
<1>6. \A i \in 1 .. n : g[i + 1] = g[i] + Grow(ts[i])
  BY <1>2 DEF Heights
<1>7. ts = <<>> => n = 0
  BY <1>3
<1> HIDE DEF rest, n
<1> DEFINE f == [i \in 1 .. Len(rest) + 1 |-> IF i <= n THEN ground + g[i] ELSE h[i - n]]
<1>8. f \in [1 .. Len(rest) + 1 -> Int]
  BY <1>1, <1>3, <1>4, <1>5 DEF Heights
<1>9. \A i \in 1 .. Len(q) + 1 : f[n + i] = h[i]
  BY <1>3, <1>4
<1>10. \A i \in 1 .. n + 1 : f[i] = ground + g[i]
  <2>1. f[n + 1] = ground + g[n + 1]
    BY <1>1, <1>2, <1>3, <1>9
  <2>2. \A i \in 1 .. n : f[i] = ground + g[i]
    BY <1>3, <1>4
  <2> QED BY <1>3, <2>1, <2>2
<1> HIDE DEF f
<1>11. ASSUME NEW i \in 1 .. n
       PROVE  f[i + 1] = f[i] + Grow(rest[i]) /\ Placed(f, rest, i)
  <2>1. f[i] = ground + g[i] /\ f[i + 1] = ground + g[i + 1] /\ rest[i] = ts[i]
    <3>1. i \in 1 .. n + 1 /\ i + 1 \in 1 .. n + 1
      BY <1>3
    <3> QED BY <1>4, <1>10, <3>1
  <2>2. g[i] \in Int /\ g[i + 1] = g[i] + Grow(ts[i]) /\ Grow(ts[i]) \in Int
    <3>1. i \in 1 .. n + 1
      BY <1>3
    <3> QED BY <1>5, <1>6, <3>1 DEF Grow
  <2>3. BodyTask(rest[i]) /\ g[i] >= Need(rest[i]) /\ Need(rest[i]) \in 0 .. 2
    BY <1>2, <2>1 DEF Need, n
  <2>4. f[i + 1] = f[i] + Grow(rest[i])
    BY <2>1, <2>2
  <2>5. f[i] >= Need(rest[i])
    BY <2>1, <2>2, <2>3
  <2>6. ASSUME NEW j \in i .. Len(rest), rest[j].do = "catch"
        PROVE  f[i] >= rest[j].n + Need(rest[i])
    <3>1. ~ (j \in 1 .. n)
      BY <1>2, <1>4, <2>6, CatchFacts DEF n
    <3>2. j - n \in 1 .. Len(q) /\ n + (j - n) = j
      BY <1>3, <1>4, <3>1
    <3>3. rest[j] = q[j - n]
      BY <1>4, <3>2
    <3>4. rest[j].n \in Int /\ ground >= rest[j].n
      BY <2>6, <3>2, <3>3
    <3>5. ground + g[i] >= rest[j].n + Need(rest[i])
      BY <2>2, <2>3, <3>4, AddBounds
    <3> QED BY <2>1, <3>5
  <2>7. \E j \in i .. Len(rest) : rest[j].do = "catch"
    <3>1. PICK k \in 1 .. Len(q) : q[k].do = "catch"
      BY <1>3, <1>7
    <3>2. n + k \in i .. Len(rest) /\ rest[n + k] = q[k]
      BY <1>3, <1>4
    <3> QED BY <3>1, <3>2
  <2> QED BY <2>3, <2>4, <2>5, <2>6, <2>7 DEF Placed
<1>12. ASSUME NEW i \in 1 .. Len(q)
       PROVE  f[n + i + 1] = f[n + i] + Grow(rest[n + i]) /\ Placed(f, rest, n + i)
  <2>1. i \in 1 .. Len(q) + 1 /\ i + 1 \in 1 .. Len(q) + 1 /\ n + (i + 1) = n + i + 1
    BY <1>3
  <2>2. f[n + i] = h[i] /\ f[n + i + 1] = h[i + 1] /\ rest[n + i] = q[i]
    BY <1>4, <1>9, <2>1
  <2>3. h[i + 1] = h[i] + Grow(q[i]) /\ Placed(h, q, i)
    BY <1>1 DEF Heights
  <2>4. /\ \A l \in 1 .. Len(q) : q[l] = rest[n + l]
        /\ \A l \in 1 .. Len(q) + 1 : h[l] = f[n + l]
    BY <1>4, <1>9
  <2>5. Placed(f, rest, n + i)
    BY <1>3, <1>4, <2>3, <2>4, PlacedInRest
  <2> QED BY <2>2, <2>3, <2>5
<1>13. ASSUME NEW i \in 1 .. Len(rest)
       PROVE  f[i + 1] = f[i] + Grow(rest[i]) /\ Placed(f, rest, i)
  <2>1. CASE i <= n
    BY <1>3, <1>11, <2>1
  <2>2. CASE i > n
    <3>1. i - n \in 1 .. Len(q) /\ n + (i - n) = i
      BY <1>3, <1>4, <2>2
    <3> DEFINE k == i - n
    <3>2. k \in 1 .. Len(q) /\ n + k = i
      BY <3>1
    <3> HIDE DEF k
    <3> QED BY <1>12, <3>2
  <2> QED BY <1>3, <2>1, <2>2
<1>14. f[1] = ground + x
  <2>1. 1 \in 1 .. n + 1
    BY <1>3
  <2> QED BY <1>2, <1>10, <2>1
<1>15. Runs(rest, ground + x)
  BY <1>8, <1>13, <1>14 DEF Runs, Heights
<1> QED BY <1>15 DEF rest

(* The stack under the task in front.                                      *)
LEMMA UnderHead ==
  ASSUME StackInv, Step
  PROVE  /\ IsSeq(Tail(todo)) /\ Len(Tail(todo)) = Len(todo) - 1 /\ Len(todo) >= 1
         /\ \A i \in 1 .. Len(todo) - 1 : Tail(todo)[i] = todo[i + 1]
         /\ Len(built) \in Nat /\ Len(todo) \in Nat
         /\ Runs(Tail(todo), Len(built) + Grow(Head(todo)))
         /\ Len(built) >= Need(Head(todo))
         /\ \A j \in 1 .. Len(todo) - 1 :
              Tail(todo)[j].do = "catch" =>
                /\ Tail(todo)[j].n \in Nat \ {0}
                /\ Len(built) >= Tail(todo)[j].n + Need(Head(todo))
         /\ Head(todo).do \notin Outside \cup {"catch"} =>
              \E j \in 1 .. Len(todo) - 1 : Tail(todo)[j].do = "catch"
         /\ Head(todo).do # "parse" =>
              Tail(todo) # <<>> /\ Last(Tail(todo)) = Do("parse")
<1>1. /\ IsSeq(todo) /\ todo # <<>> /\ IsSeq(built) /\ Last(todo) = Do("parse")
      /\ Len(todo) \in Nat /\ Len(built) \in Nat
  BY SeqFacts DEF StackInv, Step
<1>2. /\ IsSeq(Tail(todo)) /\ Len(Tail(todo)) = Len(todo) - 1 /\ Len(todo) >= 1
      /\ \A i \in 1 .. Len(todo) - 1 : Tail(todo)[i] = todo[i + 1]
      /\ Head(todo) = todo[1] /\ Last(todo) = todo[Len(todo)]
  BY <1>1, TailIsSeq, FrontIsSeq
<1>3. PICK h : /\ Heights(h, todo) /\ h[1] = Len(built)
               /\ \A i \in 1 .. Len(todo) : Placed(h, todo, i)
  BY DEF StackInv, Runs
<1>4. Placed(h, todo, 1) /\ 1 \in 1 .. Len(todo)
  BY <1>1, <1>2, <1>3
<1>5. Runs(Tail(todo), Len(built) + Grow(Head(todo)))
  <2>1. \A i \in 1 .. Len(Tail(todo)) : Tail(todo)[i] = todo[1 + i]
    BY <1>1, <1>2
  <2>2. Len(todo) = 1 + Len(Tail(todo))
    BY <1>1, <1>2
  <2>3. Runs(Tail(todo), h[1 + 1])
    BY <1>1, <1>2, <1>3, <2>1, <2>2, DropTasks
  <2> QED BY <1>2, <1>3, <1>4, <2>3 DEF Heights
<1>6. Len(built) >= Need(Head(todo))
  BY <1>2, <1>3, <1>4 DEF Placed
<1>7. ASSUME NEW j \in 1 .. Len(todo) - 1, Tail(todo)[j].do = "catch"
      PROVE  /\ Tail(todo)[j].n \in Nat \ {0}
             /\ Len(built) >= Tail(todo)[j].n + Need(Head(todo))
  <2>1. j + 1 \in 1 .. Len(todo) /\ Tail(todo)[j] = todo[j + 1]
    BY <1>1, <1>2
  <2>2. Placed(h, todo, j + 1)
    BY <1>3, <2>1
  <2>3. todo[j + 1].n \in Nat \ {0}
    BY <1>7, <2>1, <2>2, CatchFacts DEF Placed
  <2> QED BY <1>2, <1>3, <1>4, <1>7, <2>1, <2>3 DEF Placed
<1>8. ASSUME Head(todo).do \notin Outside \cup {"catch"}
      PROVE  \E j \in 1 .. Len(todo) - 1 : Tail(todo)[j].do = "catch"
  <2>1. PICK k \in 1 .. Len(todo) : todo[k].do = "catch"
    BY <1>2, <1>4, <1>8 DEF Placed
  <2>2. k # 1
    BY <1>2, <1>8, <2>1
  <2>3. k - 1 \in 1 .. Len(todo) - 1 /\ k - 1 + 1 = k
    BY <1>1, <2>2
  <2>4. Tail(todo)[k - 1] = todo[k]
    BY <1>2, <2>3
  <2> QED BY <2>1, <2>3, <2>4
<1>9. ASSUME Head(todo).do # "parse"
      PROVE  Tail(todo) # <<>> /\ Last(Tail(todo)) = Do("parse")
  <2>1. Len(todo) # 1
    <3>1. Do("parse").do = "parse"
      BY DEF Do, Task
    <3> QED BY <1>1, <1>2, <1>9, <3>1
  <2>2. Tail(todo) # <<>>
    BY <1>1, <1>2, <2>1
  <2>3. Last(Tail(todo)) = Tail(todo)[Len(todo) - 1]
    BY <1>2, <2>2, FrontIsSeq
  <2>4. Len(todo) - 1 \in 1 .. Len(todo) - 1 /\ Len(todo) - 1 + 1 = Len(todo)
    BY <1>1, <1>2, <2>1
  <2>5. Tail(todo)[Len(todo) - 1] = todo[Len(todo)]
    BY <1>2, <2>4
  <2> QED BY <1>1, <1>2, <2>2, <2>3, <2>5
<1> QED BY <1>1, <1>2, <1>5, <1>6, <1>7, <1>8, <1>9

(* The tasks ts, which replace the task in front, leave behind what it     *)
(* would have left; the tasks after it find what they expect.              *)
LEMMA ReplaceHead ==
  ASSUME StackInv, Step, NEW ts, NEW x \in Int, NEW new,
         Head(todo).do \notin {"parse", "declaration", "catch"},
         ts = <<>> \/ Head(todo).do # "add",
         Fills(ts, x, Need(Head(todo)) + Grow(Head(todo))),
         new = Len(built) - Need(Head(todo)) + x
  PROVE  Runs(ts \o Tail(todo), new)
<1> DEFINE ground == Len(built) - Need(Head(todo))
           y == Need(Head(todo)) + Grow(Head(todo))
           q == Tail(todo)
<1>1. /\ Need(Head(todo)) \in 0 .. 2 /\ Grow(Head(todo)) \in Int /\ Len(built) \in Nat
      /\ Len(todo) \in Nat
  BY UnderHead DEF Need, Grow
<1>2. ground \in Nat /\ ground + y = Len(built) + Grow(Head(todo)) /\ ground + x = new
  BY <1>1, UnderHead
<1>3. IsSeq(q) /\ Runs(q, ground + y) /\ Len(q) = Len(todo) - 1
  BY <1>2, UnderHead
<1>4. \A j \in 1 .. Len(q) : q[j].do = "catch" => q[j].n \in Int /\ ground >= q[j].n
  BY <1>1, <1>3, UnderHead
<1>5. ts = <<>> \/ \E j \in 1 .. Len(q) : q[j].do = "catch"
  <2>1. CASE ts # <<>>
    <3>1. Head(todo).do \notin Outside \cup {"catch"}
      BY <2>1 DEF Outside
    <3> QED BY <1>3, <3>1, UnderHead
  <2> QED BY <2>1
<1>6. Fills(ts, x, y)
  OBVIOUS
<1> HIDE DEF ground, y, q
<1>7. Runs(ts \o q, ground + x)
  BY <1>2, <1>3, <1>4, <1>5, <1>6, PushTasks
<1> QED BY <1>2, <1>7 DEF q

(* A parse_error finds the innermost catch, and cuts `built` there.        *)
LEMMA CatchInnermost ==
  ASSUME StackInv, Step, Head(todo).do \notin Outside,
         NEW c, c = Min({i \in DOMAIN todo : todo[i].do = "catch"})
  PROVE  /\ c \in 1 .. Len(todo) - 1 /\ todo[c].n \in 1 .. Len(built)
         /\ IsSeq(SubSeq(todo, c + 1, Len(todo)))
         /\ SubSeq(todo, c + 1, Len(todo)) # <<>>
         /\ Last(SubSeq(todo, c + 1, Len(todo))) = Do("parse")
         /\ Runs(SubSeq(todo, c + 1, Len(todo)), todo[c].n + 1)
<1> DEFINE rest == SubSeq(todo, c + 1, Len(todo))
<1>1. /\ IsSeq(todo) /\ todo # <<>> /\ IsSeq(built) /\ Last(todo) = Do("parse")
      /\ Len(todo) \in Nat /\ Len(built) \in Nat /\ DOMAIN todo = 1 .. Len(todo)
  BY SeqFacts DEF StackInv, Step
<1>2. Len(todo) >= 1 /\ Head(todo) = todo[1] /\ Last(todo) = todo[Len(todo)]
  BY <1>1, TailIsSeq, FrontIsSeq
<1>3. PICK h : /\ Heights(h, todo) /\ h[1] = Len(built)
               /\ \A i \in 1 .. Len(todo) : Placed(h, todo, i)
  BY DEF StackInv, Runs
<1>4. Placed(h, todo, 1) /\ 1 \in 1 .. Len(todo)
  BY <1>1, <1>2, <1>3
<1>5. c \in 1 .. Len(todo) /\ todo[c].do = "catch"
  <2> DEFINE C == {i \in DOMAIN todo : todo[i].do = "catch"}
  <2>1. C # {} /\ C \in SUBSET Nat
    BY <1>1, <1>2, <1>4 DEF Placed
  <2>2. c = Min(C)
    OBVIOUS
  <2>3. c \in C
    <3> HIDE DEF C
    <3> QED BY <2>1, <2>2, MinOfNat
  <2> QED BY <1>1, <2>3
<1>6. c # Len(todo)
  <2>1. Do("parse").do = "parse"
    BY DEF Do, Task
  <2> QED BY <1>1, <1>2, <1>5, <2>1
<1>7. c \in 1 .. Len(todo) - 1
  BY <1>1, <1>5, <1>6
<1>8. Placed(h, todo, c) /\ todo[c].n \in Nat \ {0} /\ h[c] = todo[c].n + 1
  BY <1>3, <1>5, CatchFacts DEF Placed
<1>9. h[1] >= todo[c].n + Need(todo[1]) /\ Need(todo[1]) \in 0 .. 2
  BY <1>4, <1>5 DEF Placed, Need
<1>10. todo[c].n \in 1 .. Len(built)
  BY <1>1, <1>3, <1>8, <1>9
<1>11. h[c + 1] = todo[c].n + 1
  BY <1>3, <1>5, <1>8, CatchFacts DEF Heights
<1>12. /\ IsSeq(rest) /\ Len(rest) = Len(todo) - c
       /\ \A i \in 1 .. Len(todo) - c : rest[i] = todo[c + i]
  <2>1. c \in 0 .. Len(todo)
    BY <1>1, <1>5
  <2> QED BY <1>1, <2>1, RestIsSeq
<1>13. Runs(rest, h[c + 1])
  <2>1. Len(todo) = c + Len(rest) /\ c \in Nat
    BY <1>1, <1>7, <1>12
  <2> QED BY <1>1, <1>3, <1>12, <2>1, DropTasks
<1> HIDE DEF rest
<1>14. rest # <<>> /\ Last(rest) = Do("parse")
  <2>1. rest # <<>>
    BY <1>1, <1>7, <1>12
  <2>2. Last(rest) = rest[Len(todo) - c]
    BY <1>12, <2>1, FrontIsSeq
  <2>3. Len(todo) - c \in 1 .. Len(todo) - c /\ c + (Len(todo) - c) = Len(todo)
    BY <1>1, <1>7
  <2>4. rest[Len(todo) - c] = todo[c + (Len(todo) - c)]
    BY <1>12, <2>3
  <2> QED BY <1>1, <1>2, <2>1, <2>2, <2>3, <2>4
<1> QED BY <1>7, <1>10, <1>11, <1>12, <1>13, <1>14 DEF rest

(* The body of a declaration() ends at its catch with one node more.       *)
LEMMA EnterDeclaration ==
  ASSUME StackInv, Step, Head(todo).do = "declaration", NEW ts, Fills(ts, 0, 1)
  PROVE  Runs((ts \o <<Catch(Len(built))>>) \o Tail(todo), Len(built))
<1> DEFINE n == Len(built)
           q == Tail(todo)
           one == <<Catch(n)>>
           p == one \o q
<1>1. /\ IsSeq(q) /\ Len(q) \in Nat /\ n \in Nat
      /\ Runs(q, n + 1) /\ n >= 1
      /\ \A j \in 1 .. Len(q) :
           q[j].do = "catch" => q[j].n \in Nat \ {0} /\ n >= q[j].n + 1
  <2>1. Grow(Head(todo)) = 1 /\ Need(Head(todo)) = 1
    BY DEF Grow, Need, Makers, Closers
  <2> QED BY <2>1, UnderHead, SeqFacts
<1>2. Catch(n).do = "catch" /\ Catch(n).n = n
  BY DEF Catch, Task
<1>3. IsSeq(<<Catch(n)>>) /\ Len(<<Catch(n)>>) = 1 /\ <<Catch(n)>>[1] = Catch(n)
  <2>1. <<Catch(n)>> \in Seq({Catch(n)})
    OBVIOUS
  <2> QED BY <2>1 DEF IsSeq
<1>4. /\ IsSeq(p) /\ Len(p) = 1 + Len(q) /\ p[1] = Catch(n)
      /\ \A i \in 1 .. Len(q) : p[1 + i] = q[i]
  BY <1>1, <1>3, ConcatIsSeq
<1>5. IsSeq(ts)
  BY DEF Fills
<1>6. IsSeq(one)
  BY <1>3
<1> HIDE DEF n, q, one
<1>7. (ts \o one) \o q = ts \o p
  BY <1>1, <1>5, <1>6, ConcatOfThree
<1> HIDE DEF p
<1>8. Runs(p, n + 1)
  <2>1. PICK h : /\ Heights(h, q) /\ h[1] = n + 1
                 /\ \A i \in 1 .. Len(q) : Placed(h, q, i)
    BY <1>1 DEF Runs
  <2> DEFINE f == [i \in 1 .. Len(p) + 1 |-> IF i = 1 THEN n + 1 ELSE h[i - 1]]
  <2>2. f \in [1 .. Len(p) + 1 -> Int] /\ f[1] = n + 1
    BY <1>1, <1>4, <2>1 DEF Heights
  <2>3. \A i \in 1 .. Len(q) + 1 : f[1 + i] = h[i]
    BY <1>1, <1>4
  <2> HIDE DEF f
  <2>4. \A j \in 2 .. Len(p) : p[j].do = "catch" => p[j].n \in Nat /\ n >= p[j].n + 1
    <3> SUFFICES ASSUME NEW j \in 2 .. Len(p), p[j].do = "catch"
                 PROVE  p[j].n \in Nat /\ n >= p[j].n + 1
      OBVIOUS
    <3>1. j - 1 \in 1 .. Len(q) /\ 1 + (j - 1) = j
      BY <1>1, <1>4
    <3>2. p[j] = q[j - 1]
      BY <1>4, <3>1
    <3> QED BY <1>1, <3>1, <3>2
  <2>5. f[2] = f[1] + Grow(p[1]) /\ Placed(f, p, 1)
    <3>1. f[2] = n + 1
      BY <1>1, <2>1, <2>3
    <3>2. Grow(p[1]) = 0 /\ Need(p[1]) = 1
      BY <1>2, <1>4, CatchFacts
    <3>3. ASSUME NEW j \in 1 .. Len(p), p[j].do = "catch" PROVE f[1] >= p[j].n + Need(p[1])
      <4>1. CASE j = 1
        BY <1>1, <1>2, <1>4, <2>2, <3>2, <4>1
      <4>2. CASE j # 1
        <5>1. j \in 2 .. Len(p)
          BY <4>2
        <5>2. p[j].n \in Nat /\ n >= p[j].n + 1
          BY <2>4, <3>3, <5>1
        <5> QED BY <1>1, <2>2, <3>2, <5>2
      <4> QED BY <4>1, <4>2
    <3>4. 1 \in 1 .. Len(p) /\ p[1].do = "catch" /\ p[1].n \in Nat \ {0}
      BY <1>1, <1>2, <1>4
    <3> QED BY <1>1, <1>2, <1>4, <2>2, <3>1, <3>2, <3>3, <3>4 DEF Placed
  <2>6. ASSUME NEW i \in 1 .. Len(q)
        PROVE  f[1 + i + 1] = f[1 + i] + Grow(p[1 + i]) /\ Placed(f, p, 1 + i)
    <3>1. i \in 1 .. Len(q) + 1 /\ i + 1 \in 1 .. Len(q) + 1 /\ 1 + (i + 1) = 1 + i + 1
      BY <1>1
    <3>2. f[1 + i] = h[i] /\ f[1 + i + 1] = h[i + 1] /\ p[1 + i] = q[i]
      BY <1>4, <2>3, <3>1
    <3>3. h[i + 1] = h[i] + Grow(q[i]) /\ Placed(h, q, i)
      BY <2>1 DEF Heights
    <3>4. /\ \A l \in 1 .. Len(q) : q[l] = p[1 + l]
          /\ \A l \in 1 .. Len(q) + 1 : h[l] = f[1 + l]
      BY <1>4, <2>3
    <3>5. Placed(h, q, i) <=> Placed(f, p, 1 + i)
      BY <1>1, <1>4, <3>4, PlacedInRest
    <3> QED BY <3>2, <3>3, <3>5
  <2>7. ASSUME NEW i \in 1 .. Len(p)
        PROVE  f[i + 1] = f[i] + Grow(p[i]) /\ Placed(f, p, i)
    <3>1. CASE i = 1
      BY <2>5, <3>1
    <3>2. CASE i # 1
      <4> DEFINE k == i - 1
      <4>1. k \in 1 .. Len(q) /\ 1 + k = i
        BY <1>1, <1>4, <3>2
      <4> HIDE DEF k
      <4> QED BY <2>6, <4>1
    <3> QED BY <3>1, <3>2
  <2> QED BY <2>2, <2>7 DEF Runs, Heights
<1>9. \A j \in 1 .. Len(p) : p[j].do = "catch" => p[j].n \in Int /\ n >= p[j].n
  <2> SUFFICES ASSUME NEW j \in 1 .. Len(p), p[j].do = "catch"
               PROVE  p[j].n \in Int /\ n >= p[j].n
    OBVIOUS
  <2>1. CASE j = 1
    BY <1>1, <1>2, <1>4, <2>1
  <2>2. CASE j # 1
    <3>1. j - 1 \in 1 .. Len(q) /\ 1 + (j - 1) = j
      BY <1>1, <1>4, <2>2
    <3>2. p[j] = q[j - 1]
      BY <1>4, <3>1
    <3> QED BY <1>1, <3>1, <3>2
  <2> QED BY <2>1, <2>2
<1>10. 1 \in 1 .. Len(p) /\ p[1].do = "catch"
  BY <1>1, <1>2, <1>4
<1>11. Runs(ts \o p, n + 0) /\ n + 0 = n
  BY <1>1, <1>4, <1>8, <1>9, <1>10, PushTasks
<1>12. Runs((ts \o one) \o q, n)
  BY <1>7, <1>11
<1> QED BY <1>12 DEF one, n, q

(* A catch that is reached is done.                                        *)
LEMMA LeaveInFront ==
  ASSUME StackInv, Step, Head(todo).do = "catch"
  PROVE  Runs(Tail(todo), Len(built))
<1>1. Grow(Head(todo)) = 0
  BY CatchFacts
<1> QED BY <1>1, UnderHead

---------------------------------------------------------------------------
(* The tasks of the handlers.                                              *)

LEMMA TaskKinds ==
  ASSUME NEW t
  PROVE  /\ t.do \in Makers => Grow(t) = 1 /\ Need(t) = IF t.do = "declaration" THEN 1 ELSE 0
         /\ t.do \in Closers => Grow(t) = -1 /\ Need(t) = 2
         /\ t.do \in Users => Grow(t) = 0 /\ Need(t) = 1
         /\ t.do = "consume" => Grow(t) = 0 /\ Need(t) = 0
BY DEF Grow, Need, Makers, Closers, Users

LEMMA MakerFacts ==
  ASSUME NEW d \in Makers
  PROVE  /\ BodyTask(Do(d)) /\ Grow(Do(d)) = 1
         /\ Need(Do(d)) = IF d = "declaration" THEN 1 ELSE 0
<1>1. Do(d).do = d
  BY DEF Do, Task
<1> QED BY <1>1, TaskKinds DEF BodyTask

LEMMA CloserFacts ==
  ASSUME NEW d \in Closers
  PROVE  BodyTask(Do(d)) /\ Grow(Do(d)) = -1 /\ Need(Do(d)) = 2
<1>1. Do(d).do = d
  BY DEF Do, Task
<1> QED BY <1>1, TaskKinds DEF BodyTask

LEMMA UserFacts ==
  ASSUME NEW d \in Users \ {"items", "more"}
  PROVE  BodyTask(Do(d)) /\ Grow(Do(d)) = 0 /\ Need(Do(d)) = 1
<1>1. Do(d).do = d
  BY DEF Do, Task
<1> QED BY <1>1, TaskKinds DEF BodyTask

LEMMA ConsumeFacts ==
  ASSUME NEW type, IsDelimiter(type), NEW code
  PROVE  /\ BodyTask(Consume(type, code))
         /\ Grow(Consume(type, code)) = 0 /\ Need(Consume(type, code)) = 0
<1>1. Consume(type, code).do = "consume" /\ Consume(type, code).type = type
  BY DEF Consume, Task
<1> QED BY <1>1, TaskKinds DEF BodyTask

LEMMA ListFacts ==
  ASSUME NEW item, IsItem(item), NEW type, IsDelimiter(type), NEW code
  PROVE  /\ BodyTask(Items(item, type, code))
         /\ Grow(Items(item, type, code)) = 0 /\ Need(Items(item, type, code)) = 1
         /\ BodyTask(MoreItems(item, type, code))
         /\ Grow(MoreItems(item, type, code)) = 0 /\ Need(MoreItems(item, type, code)) = 1
<1>1. /\ Items(item, type, code).do = "items" /\ Items(item, type, code).item = item
      /\ Items(item, type, code).type = type
      /\ MoreItems(item, type, code).do = "more" /\ MoreItems(item, type, code).item = item
      /\ MoreItems(item, type, code).type = type
  BY DEF Items, MoreItems, Task
<1>2. Items(item, type, code).do \in Users /\ MoreItems(item, type, code).do \in Users
  BY <1>1 DEF Users
<1> QED BY <1>1, <1>2, TaskKinds DEF BodyTask

LEMMA InfixFacts ==
  ASSUME NEW p
  PROVE  BodyTask(InfixLoop(p)) /\ Grow(InfixLoop(p)) = 0 /\ Need(InfixLoop(p)) = 1
<1>1. InfixLoop(p).do = "infix"
  BY DEF InfixLoop, Task
<1>2. InfixLoop(p).do \in Users \ {"items", "more"}
  BY <1>1 DEF Users
<1> QED BY <1>2, TaskKinds DEF BodyTask

(* Several tasks, one after the other.                                     *)
LEMMA FillsMore ==
  ASSUME NEW ts, IsSeq(ts), ts # <<>>, NEW x \in Int, NEW y, BodyTask(Head(ts)),
         x >= Need(Head(ts)), Fills(Tail(ts), x + Grow(Head(ts)), y)
  PROVE  Fills(ts, x, y)
<1> DEFINE n == Len(Tail(ts))
<1>1. PICK g : /\ Heights(g, Tail(ts)) /\ g[1] = x + Grow(Head(ts)) /\ g[n + 1] = y
               /\ \A i \in 1 .. n : BodyTask(Tail(ts)[i]) /\ g[i] >= Need(Tail(ts)[i])
  BY DEF Fills
<1>2. /\ n \in Nat /\ Len(ts) = n + 1 /\ Head(ts) = ts[1]
      /\ \A i \in 1 .. n : Tail(ts)[i] = ts[i + 1]
  BY TailIsSeq, SeqFacts
<1> HIDE DEF n
<1> DEFINE f == [i \in 1 .. n + 2 |-> IF i = 1 THEN x ELSE g[i - 1]]
<1>3. f \in [1 .. Len(ts) + 1 -> Int] /\ f[1] = x
  BY <1>1, <1>2 DEF Heights, n
<1>4. \A i \in 1 .. n + 1 : f[i + 1] = g[i]
  BY <1>2
<1> HIDE DEF f
<1>5. f[Len(ts) + 1] = y
  BY <1>1, <1>2, <1>4
<1>6. ASSUME NEW i \in 1 .. Len(ts)
      PROVE  /\ f[i + 1] = f[i] + Grow(ts[i])
             /\ BodyTask(ts[i]) /\ f[i] >= Need(ts[i])
  <2>1. CASE i = 1
    <3>1. f[2] = g[1]
      BY <1>2, <1>4
    <3> QED BY <1>1, <1>2, <1>3, <2>1, <3>1
  <2>2. CASE i # 1
    <3> DEFINE k == i - 1
    <3>1. k \in 1 .. n /\ k + 1 = i /\ k \in 1 .. n + 1 /\ i \in 1 .. n + 1
      BY <1>2, <2>2
    <3> HIDE DEF k
    <3>2. f[i] = g[k] /\ f[i + 1] = g[k + 1] /\ Tail(ts)[k] = ts[i]
      BY <1>2, <1>4, <3>1
    <3>3. g[k + 1] = g[k] + Grow(Tail(ts)[k])
      BY <1>1, <3>1 DEF Heights, n
    <3> QED BY <1>1, <3>1, <3>2, <3>3
  <2> QED BY <2>1, <2>2
<1>7. Heights(f, ts)
  BY <1>3, <1>6 DEF Heights
<1> QED BY <1>3, <1>5, <1>6, <1>7 DEF Fills

(* A task of a body, with what it works on and what it adds.               *)
Is(t, need, grow) == BodyTask(t) /\ Need(t) = need /\ Grow(t) = grow

(* The tasks that the handlers name.                                       *)
LEMMA TaskFacts ==
  /\ Is(Do("struct_or_variable"), 0, 1) /\ Is(Do("type"), 0, 1)
  /\ Is(Do("parameter"), 0, 1) /\ Is(Do("element"), 0, 1)
  /\ Is(Do("statement"), 0, 1) /\ Is(Do("open_block"), 0, 1)
  /\ Is(Do("assignment"), 0, 1) /\ Is(Do("unary"), 0, 1)
  /\ Is(Do("primary"), 0, 1) /\ Is(Do("declaration"), 1, 1)
  /\ Is(Do("add"), 2, -1) /\ Is(Do("size"), 2, -1) /\ Is(Do("fields"), 1, 0)
  /\ Is(Do("declarator"), 1, 0) /\ Is(Do("dimensions"), 1, 0)
  /\ Is(Do("initializer"), 1, 0) /\ Is(Do("for_initializer"), 1, 0)
  /\ Is(Do("for_condition"), 1, 0) /\ Is(Do("for_increment"), 1, 0)
  /\ Is(Do("return_value"), 1, 0) /\ Is(Do("else"), 1, 0)
  /\ Is(Do("block"), 1, 0) /\ Is(Do("assign"), 1, 0)
  /\ Is(Do("postfix"), 1, 0) /\ Is(Identifier, 0, 0) /\ Is(Semicolon, 0, 0)
  /\ Is(RightParen, 0, 0) /\ Is(RightBrace, 0, 0)
  /\ Is(Consume("{", "expected_left_brace"), 0, 0)
  /\ Is(Consume("]", "expected_right_bracket"), 0, 0)
  /\ Is(Consume("(", "expected_left_paren_while"), 0, 0)
  /\ Is(Consume("(", "expected_left_paren_for"), 0, 0)
  /\ Is(Consume("(", "expected_left_paren_if"), 0, 0)
  /\ Is(Consume(")", "expected_right_paren_condition"), 0, 0)
  /\ Is(Items("parameter", ")", "expected_right_paren"), 1, 0)
  /\ Is(Items("assignment", ")", "expected_right_paren"), 1, 0)
  /\ Is(Items("element", "}", "expected_right_brace"), 1, 0)
<1>1.
     /\ Is(Do("struct_or_variable"), 0, 1) /\ Is(Do("type"), 0, 1)
     /\ Is(Do("parameter"), 0, 1) /\ Is(Do("element"), 0, 1)
     /\ Is(Do("statement"), 0, 1) /\ Is(Do("open_block"), 0, 1)
     /\ Is(Do("assignment"), 0, 1) /\ Is(Do("unary"), 0, 1)
     /\ Is(Do("primary"), 0, 1) /\ Is(Do("declaration"), 1, 1)
     /\ Is(Do("add"), 2, -1) /\ Is(Do("size"), 2, -1)
  BY MakerFacts, CloserFacts DEF Is, Makers, Closers
<1>2.
     /\ Is(Do("fields"), 1, 0) /\ Is(Do("declarator"), 1, 0)
     /\ Is(Do("dimensions"), 1, 0) /\ Is(Do("initializer"), 1, 0)
     /\ Is(Do("for_initializer"), 1, 0) /\ Is(Do("for_condition"), 1, 0)
     /\ Is(Do("for_increment"), 1, 0) /\ Is(Do("return_value"), 1, 0)
     /\ Is(Do("else"), 1, 0) /\ Is(Do("block"), 1, 0)
     /\ Is(Do("assign"), 1, 0) /\ Is(Do("postfix"), 1, 0)
  BY UserFacts DEF Is, Users
<1>3.
     /\ Is(Identifier, 0, 0) /\ Is(Semicolon, 0, 0) /\ Is(RightParen, 0, 0)
     /\ Is(RightBrace, 0, 0) /\ Is(Consume("{", "expected_left_brace"), 0, 0)
     /\ Is(Consume("]", "expected_right_bracket"), 0, 0)
     /\ Is(Consume("(", "expected_left_paren_while"), 0, 0)
     /\ Is(Consume("(", "expected_left_paren_for"), 0, 0)
     /\ Is(Consume("(", "expected_left_paren_if"), 0, 0)
     /\ Is(Consume(")", "expected_right_paren_condition"), 0, 0)
  BY ConsumeFacts DEF Is, IsDelimiter, Identifier, Semicolon, RightParen, RightBrace
<1>4.
     /\ Is(Items("parameter", ")", "expected_right_paren"), 1, 0)
     /\ Is(Items("assignment", ")", "expected_right_paren"), 1, 0)
     /\ Is(Items("element", "}", "expected_right_brace"), 1, 0)
  BY ListFacts DEF Is, IsDelimiter, IsItem
<1> QED BY <1>1, <1>2, <1>3, <1>4

LEMMA FillsOne ==
  ASSUME NEW x \in Int,
         NEW a, BodyTask(a), x >= Need(a),
         NEW y, y = x + Grow(a)
  PROVE  Fills(<<a>>, x, y)
BY FillsTask

LEMMA FillsTwo ==
  ASSUME NEW x \in Int,
         NEW a, BodyTask(a), x >= Need(a),
         NEW b, BodyTask(b), x + Grow(a) >= Need(b),
         NEW y, y = x + Grow(a) + Grow(b)
  PROVE  Fills(<<a, b>>, x, y)
<1> DEFINE ts == <<a, b>>
<1>1. Head(ts) = a /\ Tail(ts) = <<b>> /\ ts # <<>>
  OBVIOUS
<1>2. IsSeq(ts)
  <2>1. ts \in Seq({a, b})
    OBVIOUS
  <2> QED BY <2>1 DEF IsSeq
<1>3. x + Grow(a) \in Int
  BY DEF Grow
<1>4. Fills(<<b>>, x + Grow(a), y)
  BY <1>3, FillsOne
<1> HIDE DEF ts
<1>5. Fills(ts, x, y)
  BY <1>1, <1>2, <1>4, FillsMore
<1> QED BY <1>5 DEF ts

LEMMA FillsThree ==
  ASSUME NEW x \in Int,
         NEW a, BodyTask(a), x >= Need(a),
         NEW b, BodyTask(b), x + Grow(a) >= Need(b),
         NEW c, BodyTask(c), x + Grow(a) + Grow(b) >= Need(c),
         NEW y, y = x + Grow(a) + Grow(b) + Grow(c)
  PROVE  Fills(<<a, b, c>>, x, y)
<1> DEFINE ts == <<a, b, c>>
<1>1. Head(ts) = a /\ Tail(ts) = <<b, c>> /\ ts # <<>>
  OBVIOUS
<1>2. IsSeq(ts)
  <2>1. ts \in Seq({a, b, c})
    OBVIOUS
  <2> QED BY <2>1 DEF IsSeq
<1>3. x + Grow(a) \in Int
  BY DEF Grow
<1>4. Fills(<<b, c>>, x + Grow(a), y)
  BY <1>3, FillsTwo
<1> HIDE DEF ts
<1>5. Fills(ts, x, y)
  BY <1>1, <1>2, <1>4, FillsMore
<1> QED BY <1>5 DEF ts

LEMMA FillsFour ==
  ASSUME NEW x \in Int,
         NEW a, BodyTask(a), x >= Need(a),
         NEW b, BodyTask(b), x + Grow(a) >= Need(b),
         NEW c, BodyTask(c), x + Grow(a) + Grow(b) >= Need(c),
         NEW d, BodyTask(d), x + Grow(a) + Grow(b) + Grow(c) >= Need(d),
         NEW y, y = x + Grow(a) + Grow(b) + Grow(c) + Grow(d)
  PROVE  Fills(<<a, b, c, d>>, x, y)
<1> DEFINE ts == <<a, b, c, d>>
<1>1. Head(ts) = a /\ Tail(ts) = <<b, c, d>> /\ ts # <<>>
  OBVIOUS
<1>2. IsSeq(ts)
  <2>1. ts \in Seq({a, b, c, d})
    OBVIOUS
  <2> QED BY <2>1 DEF IsSeq
<1>3. x + Grow(a) \in Int
  BY DEF Grow
<1>4. Fills(<<b, c, d>>, x + Grow(a), y)
  BY <1>3, FillsThree
<1> HIDE DEF ts
<1>5. Fills(ts, x, y)
  BY <1>1, <1>2, <1>4, FillsMore
<1> QED BY <1>5 DEF ts

LEMMA FillsFive ==
  ASSUME NEW x \in Int,
         NEW a, BodyTask(a), x >= Need(a),
         NEW b, BodyTask(b), x + Grow(a) >= Need(b),
         NEW c, BodyTask(c), x + Grow(a) + Grow(b) >= Need(c),
         NEW d, BodyTask(d), x + Grow(a) + Grow(b) + Grow(c) >= Need(d),
         NEW e, BodyTask(e), x + Grow(a) + Grow(b) + Grow(c) + Grow(d) >= Need(e),
         NEW y, y = x + Grow(a) + Grow(b) + Grow(c) + Grow(d) + Grow(e)
  PROVE  Fills(<<a, b, c, d, e>>, x, y)
<1> DEFINE ts == <<a, b, c, d, e>>
<1>1. Head(ts) = a /\ Tail(ts) = <<b, c, d, e>> /\ ts # <<>>
  OBVIOUS
<1>2. IsSeq(ts)
  <2>1. ts \in Seq({a, b, c, d, e})
    OBVIOUS
  <2> QED BY <2>1 DEF IsSeq
<1>3. x + Grow(a) \in Int
  BY DEF Grow
<1>4. Fills(<<b, c, d, e>>, x + Grow(a), y)
  BY <1>3, FillsFour
<1> HIDE DEF ts
<1>5. Fills(ts, x, y)
  BY <1>1, <1>2, <1>4, FillsMore
<1> QED BY <1>5 DEF ts

LEMMA FillsSix ==
  ASSUME NEW x \in Int,
         NEW a, BodyTask(a), x >= Need(a),
         NEW b, BodyTask(b), x + Grow(a) >= Need(b),
         NEW c, BodyTask(c), x + Grow(a) + Grow(b) >= Need(c),
         NEW d, BodyTask(d), x + Grow(a) + Grow(b) + Grow(c) >= Need(d),
         NEW e, BodyTask(e), x + Grow(a) + Grow(b) + Grow(c) + Grow(d) >= Need(e),
         NEW f, BodyTask(f), x + Grow(a) + Grow(b) + Grow(c) + Grow(d) + Grow(e) >= Need(f),
         NEW y, y = x + Grow(a) + Grow(b) + Grow(c) + Grow(d) + Grow(e) + Grow(f)
  PROVE  Fills(<<a, b, c, d, e, f>>, x, y)
<1> DEFINE ts == <<a, b, c, d, e, f>>
<1>1. Head(ts) = a /\ Tail(ts) = <<b, c, d, e, f>> /\ ts # <<>>
  OBVIOUS
<1>2. IsSeq(ts)
  <2>1. ts \in Seq({a, b, c, d, e, f})
    OBVIOUS
  <2> QED BY <2>1 DEF IsSeq
<1>3. x + Grow(a) \in Int
  BY DEF Grow
<1>4. Fills(<<b, c, d, e, f>>, x + Grow(a), y)
  BY <1>3, FillsFive
<1> HIDE DEF ts
<1>5. Fills(ts, x, y)
  BY <1>1, <1>2, <1>4, FillsMore
<1> QED BY <1>5 DEF ts

---------------------------------------------------------------------------
(* Steps.                                                                  *)

LEMMA TokenFacts ==
  ASSUME TokensInv
  PROVE  /\ DOMAIN tokens_ = 1 .. Len(tokens_) /\ Len(tokens_) \in Nat
         /\ Len(tokens_) \in DOMAIN tokens_ /\ TokenAt(Len(tokens_)) = "eof"
         /\ \A i \in DOMAIN tokens_ :
              TokenAt(i) = tokens_[i]
                /\ (TokenAt(i) # "eof" => i + 1 \in DOMAIN tokens_)
                /\ After(i) \in DOMAIN tokens_ /\ After(i) >= i
                /\ (After(i) > i \/ TokenAt(i) = "eof")
         /\ \A i : i \notin DOMAIN tokens_ => TokenAt(i) = "outside"
<1>1. DOMAIN tokens_ = 1 .. Len(tokens_) /\ Len(tokens_) \in Nat
  BY SeqFacts DEF TokensInv
<1>2. Len(tokens_) >= 1 /\ tokens_[Len(tokens_)] = "eof"
  BY FrontIsSeq DEF TokensInv
<1>3. Len(tokens_) \in DOMAIN tokens_ /\ TokenAt(Len(tokens_)) = "eof"
  BY <1>1, <1>2 DEF TokenAt
<1>4. ASSUME NEW i \in DOMAIN tokens_, TokenAt(i) # "eof"
      PROVE  i + 1 \in DOMAIN tokens_
  <2>1. i # Len(tokens_)
    BY <1>3, <1>4
  <2> QED BY <1>1, <2>1
<1>5. \A i \in DOMAIN tokens_ : TokenAt(i) = tokens_[i]
  BY DEF TokenAt
<1>6. ASSUME NEW i \in DOMAIN tokens_
      PROVE  After(i) \in DOMAIN tokens_ /\ After(i) >= i /\ (After(i) > i \/ TokenAt(i) = "eof")
  BY <1>1, <1>4 DEF After
<1>7. \A i : i \notin DOMAIN tokens_ => TokenAt(i) = "outside"
  BY DEF TokenAt
<1> QED BY <1>1, <1>3, <1>4, <1>5, <1>6, <1>7

(* One token more has one brace more, or none.                             *)
LEMMA BracesNext ==
  ASSUME NEW brace, NEW a \in Nat, NEW i \in Nat, a <= i
  PROVE  /\ Braces(brace, a, i) \in Nat /\ Braces(brace, a, a) = 0
         /\ TokenAt(i) = brace => Braces(brace, a, i + 1) = Braces(brace, a, i) + 1
         /\ TokenAt(i) # brace => Braces(brace, a, i + 1) = Braces(brace, a, i)
<1> DEFINE B(k) == {j \in a .. k - 1 : TokenAt(j) = brace}
<1>1. /\ Braces(brace, a, i) = Cardinality(B(i)) /\ Braces(brace, a, a) = Cardinality(B(a))
      /\ Braces(brace, a, i + 1) = Cardinality(B(i + 1))
  BY DEF Braces
<1>2. IsFiniteSet(B(i)) /\ Cardinality(B(i)) \in Nat
  <2>1. IsFiniteSet(a .. i - 1) /\ B(i) \in SUBSET (a .. i - 1)
    BY FS_Interval
  <2> QED BY <2>1, FS_Subset, FS_CardinalityType
<1>3. B(a) = {} /\ Cardinality({}) = 0
  BY FS_EmptySet
<1>4. TokenAt(i) = brace => B(i + 1) = B(i) \cup {i} /\ i \notin B(i)
  OBVIOUS
<1>5. TokenAt(i) # brace => B(i + 1) = B(i)
  OBVIOUS
<1> HIDE DEF B
<1>6. TokenAt(i) = brace => Cardinality(B(i + 1)) = Cardinality(B(i)) + 1
  BY <1>2, <1>4, FS_AddElement
<1> QED BY <1>1, <1>2, <1>3, <1>5, <1>6

LEMMA NestingNext ==
  ASSUME NEW a \in Nat, NEW i \in Nat, a <= i
  PROVE  /\ Nesting(a, i) \in Int /\ Nesting(a, a) = 0
         /\ OutsideBraces(a, i) <=> Nesting(a, i) = 0
         /\ Closes(i) => Nesting(a, i + 1) = Nesting(a, i) - 1
         /\ ~ Closes(i) => Nesting(a, i + 1) >= Nesting(a, i)
<1>1. /\ Opened(a, i) \in Nat /\ Opened(a, a) = 0
      /\ Opens(i) => Opened(a, i + 1) = Opened(a, i) + 1
      /\ ~ Opens(i) => Opened(a, i + 1) = Opened(a, i)
  BY BracesNext, Zenon DEF Opened, Opens
<1>2. /\ Closed(a, i) \in Nat /\ Closed(a, a) = 0
      /\ Closes(i) => Closed(a, i + 1) = Closed(a, i) + 1
      /\ ~ Closes(i) => Closed(a, i + 1) = Closed(a, i)
  BY BracesNext, Zenon DEF Closed, Closes
<1>3. Closes(i) => ~ Opens(i)
  BY Zenon DEF Opens, Closes
<1>4. /\ Nesting(a, i) = Opened(a, i) - Closed(a, i)
      /\ Nesting(a, a) = Opened(a, a) - Closed(a, a)
      /\ Nesting(a, i + 1) = Opened(a, i + 1) - Closed(a, i + 1)
      /\ OutsideBraces(a, i) <=> Opened(a, i) = Closed(a, i)
  BY DEF Nesting, OutsideBraces
<1> QED BY <1>1, <1>2, <1>3, <1>4

(* synchronize() goes past the token it starts at and ends inside the span *)
(* of tokens.  It stops at the first brace that closes more than it has    *)
(* opened, so before it stops it has closed no more than that.             *)
LEMMA SynchronizeFacts ==
  ASSUME TokensInv, NEW from \in DOMAIN tokens_
  PROVE  /\ Synchronize(from) \in DOMAIN tokens_ /\ Synchronize(from) >= from
         /\ Synchronize(from) > from \/ TokenAt(from) = "eof"
         /\ KeepsNesting(from, Synchronize(from))
<1> DEFINE a == After(from)
           n == Len(tokens_)
           stops(i) == \/ TokenAt(i) = "eof"
                       \/ OutsideBraces(a, i) /\ (Closes(i) \/ AtBoundary(i))
           S == {i \in a .. n : stops(i)}
           stop == Min(S)
<1>1. /\ DOMAIN tokens_ = 1 .. n /\ n \in Nat /\ TokenAt(n) = "eof"
      /\ a \in 1 .. n /\ a >= from /\ (a > from \/ TokenAt(from) = "eof")
      /\ from \in 1 .. n
  BY TokenFacts
<1>2. Synchronize(from) = IF Closes(stop) THEN stop + 1 ELSE stop
  BY Zenon DEF Synchronize, SkipTo, Closes
<1>3. stops(n)
  BY <1>1
<1>4. \A i : OutsideBraces(a, i) /\ Closes(i) => stops(i)
  OBVIOUS
<1>5. \A i : stops(i) => TokenAt(i) = "eof" \/ OutsideBraces(a, i)
  OBVIOUS
<1>6. \A k : KeepsNesting(from, k) <=>
        /\ \A i \in a .. k - 1 : Nesting(a, i) >= 0
        /\ TokenAt(k) = "eof" \/ Nesting(a, k) <= 0
  BY DEF KeepsNesting
<1> HIDE DEF a, n, stops
<1>7. n \in S /\ S \in SUBSET Nat
  BY <1>1, <1>3
<1>8. stop \in S /\ \A i \in S : stop <= i
  <2>1. S # {} /\ stop = Min(S)
    BY <1>7
  <2> HIDE DEF S, stop
  <2> QED BY <1>7, <2>1, MinOfNat
<1>9. stop \in a .. n /\ stops(stop)
  BY <1>8
<1>10. \A i \in a .. n : OutsideBraces(a, i) /\ Closes(i) => stop <= i
  BY <1>4, <1>8
<1> HIDE DEF S, stop
<1>11. stop \in 1 .. n /\ stop >= from /\ (stop > from \/ TokenAt(from) = "eof")
  BY <1>1, <1>9
<1>12. \A i \in a .. stop : Nesting(a, i) \in Int /\ Nesting(a, i) >= 0
  <2> DEFINE below == {i \in a .. stop : Nesting(a, i) < 0}
             m == Min(below)
  <2>1. \A i \in a .. stop : Nesting(a, i) \in Int
    BY <1>1, <1>9, NestingNext
  <2>2. ASSUME below # {} PROVE FALSE
    <3>1. m \in below /\ \A i \in below : m <= i
      <4>1. below \in SUBSET Nat
        BY <1>1, <1>9
      <4> QED BY <2>2, <4>1, MinOfNat
    <3>2. m \in a .. stop /\ Nesting(a, m) < 0 /\ m \in Nat
      BY <1>1, <1>9, <3>1
    <3> DEFINE k == m - 1
    <3>3. m # a
      BY <1>1, <3>2, NestingNext
    <3>4. k \in a .. n /\ k \in a .. stop /\ k \in Nat /\ a <= k /\ k + 1 = m /\ k < stop
          /\ stop \in Int
      BY <1>1, <1>9, <3>2, <3>3
    <3>5. k \notin below
      BY <3>1, <3>4
    <3>6. Nesting(a, k) >= 0 /\ Nesting(a, k) \in Int
      BY <2>1, <3>4, <3>5
    <3> HIDE DEF k, below, m
    <3>7. Nesting(a, k + 1) < 0
      BY <3>2, <3>4
    <3>8. OutsideBraces(a, k) /\ Closes(k)
      <4>1. a \in Nat
        BY <1>1
      <4>2. /\ OutsideBraces(a, k) <=> Nesting(a, k) = 0
            /\ Closes(k) => Nesting(a, k + 1) = Nesting(a, k) - 1
            /\ ~ Closes(k) => Nesting(a, k + 1) >= Nesting(a, k)
            /\ Nesting(a, k + 1) \in Int
        BY <2>1, <3>2, <3>4, <4>1, NestingNext
      <4>3. Closes(k)
        BY <3>6, <3>7, <4>2
      <4> QED BY <3>6, <3>7, <4>2, <4>3
    <3> QED BY <1>10, <3>4, <3>8
  <2> QED BY <2>1, <2>2
<1>13. CASE Closes(stop)
  <2>1. Synchronize(from) = stop + 1
    BY <1>2, <1>13
  <2>2. stop \in Nat /\ from \in Int /\ a \in Nat /\ a <= stop
    BY <1>1, <1>9, <1>11
  <2>3. stop + 1 - 1 = stop /\ stop + 1 > from /\ stop + 1 >= from
    BY <1>11, <2>2
  <2>4. stop + 1 \in DOMAIN tokens_
    <3>1. TokenAt(stop) # "eof"
      BY <1>13, Zenon DEF Closes
    <3> QED BY <1>1, <1>11, <3>1, TokenFacts
  <2>5. OutsideBraces(a, stop)
    BY <1>5, <1>9, <1>13, Zenon DEF Closes
  <2>6. Nesting(a, stop + 1) <= 0
    BY <1>13, <2>2, <2>5, NestingNext
  <2>7. KeepsNesting(from, stop + 1)
    <3> DEFINE k == stop + 1
    <3>1. k - 1 = stop /\ a .. k - 1 = a .. stop
      BY <2>2
    <3>2. Nesting(a, k) <= 0
      BY <2>6
    <3> HIDE DEF k
    <3>3. KeepsNesting(from, k)
      <4>1. \A i \in a .. k - 1 : Nesting(a, i) >= 0
        BY <1>12, <3>1, Zenon
      <4> QED BY <1>6, <3>2, <4>1
    <3> QED BY <3>3 DEF k
  <2> QED BY <2>1, <2>3, <2>4, <2>7
<1>14. CASE ~ Closes(stop)
  <2>1. Synchronize(from) = stop
    BY <1>2, <1>14
  <2>2. TokenAt(stop) = "eof" \/ OutsideBraces(a, stop)
    BY <1>5, <1>9
  <2>3. a \in Nat /\ stop \in Nat /\ a <= stop
    BY <1>1, <1>9
  <2>4. TokenAt(stop) = "eof" \/ Nesting(a, stop) <= 0
    BY <2>2, <2>3, NestingNext
  <2>5. \A i \in a .. stop - 1 : Nesting(a, i) >= 0
    BY <1>12, <2>3
  <2>6. KeepsNesting(from, stop)
    BY <1>6, <2>4, <2>5
  <2> QED BY <1>1, <1>11, <2>1, <2>6
<1> QED BY <1>13, <1>14

(* Going on in the tokens keeps what is known of them and of the reports.  *)
LEMMA GoOn ==
  ASSUME TokensInv, SinkInv, NEW n \in Nat, current_ + n \in DOMAIN tokens_,
         current_' = current_ + n, UNCHANGED <<tokens_, sink>>
  PROVE  TokensInv' /\ SinkInv'
<1>1. TokensInv'
  BY DEF TokensInv
<1>2. current_ \in Nat /\ current_' \in Nat /\ current_' >= current_
  BY TokenFacts DEF TokensInv
<1>3. \A i : TokenAt(i)' = TokenAt(i)
  BY DEF TokenAt
<1>4. SinkInv'
  <2>1. IsSeq(sink)' /\ Len(sink)' = Len(sink)
    BY DEF SinkInv, IsSeq
  <2>2. ASSUME NEW i \in 1 .. Len(sink)
        PROVE  /\ sink[i].at \in 1 .. current_'
               /\ sink[i].at < current_' \/ TokenAt(sink[i].at)' = "eof"
    BY <1>2, <1>3 DEF SinkInv
  <2> QED BY <1>3, <2>1, <2>2 DEF SinkInv
<1> QED BY <1>1, <1>4

LEMMA BodyStep ==
  ASSUME IInv, Step, NEW n \in Nat, NEW ts, NEW x \in Int, Proceed(n, ts),
         Head(todo).do \notin {"parse", "declaration", "catch"},
         ts = <<>> \/ Head(todo).do # "add",
         NEW y, Fills(ts, x, y), y = Need(Head(todo)) + Grow(Head(todo)),
         IsSeq(built'), Len(built') = Len(built) - Need(Head(todo)) + x,
         current_ + n \in DOMAIN tokens_
  PROVE  IInv' /\ Resumes
<1>1. TokensInv' /\ SinkInv'
  BY GoOn DEF IInv, Proceed
<1>2. StackInv /\ IsSeq(Tail(todo)) /\ Tail(todo) # <<>> /\ Last(Tail(todo)) = Do("parse")
  BY UnderHead DEF IInv
<1>3. IsSeq(ts)
  BY DEF Fills
<1>4. IsSeq(todo') /\ todo' # <<>> /\ Last(todo') = Do("parse")
  BY <1>2, <1>3, LastOfConcat DEF Proceed
<1>5. Runs(todo', Len(built'))
  BY <1>2, ReplaceHead DEF Proceed
<1>6. mode' = "parsing"
  BY DEF Proceed, Step
<1>7. StackInv'
  BY <1>4, <1>5 DEF StackInv
<1> QED BY <1>1, <1>6, <1>7 DEF IInv, Resumes, Proceed

LEMMA RaisedAtFacts ==
  ASSUME Step
  PROVE  /\ Head(todo).do \notin {"size", "primary"} => RaisedAt = current_
         /\ Head(todo).do = "size" => RaisedAt = current_ + 2
         /\ Head(todo).do = "primary" /\ Peek = "bad_str" => RaisedAt = current_ + 1
         /\ Head(todo).do = "primary" /\ Peek # "bad_str" => RaisedAt = current_
BY DEF RaisedAt, At

LEMMA RaiseStep ==
  ASSUME IInv, Step, Head(todo).do \notin Outside,
         NEW from \in DOMAIN tokens_, NEW at \in current_ .. from, NEW code,
         from = RaisedAt, Raise(at, from, code)
  PROVE  IInv' /\ Resumes
<1> DEFINE c == Min({i \in DOMAIN todo : todo[i].do = "catch"})
<1>1. /\ sink' = Append(sink, [at |-> at, code |-> code])
      /\ current_' = Synchronize(from)
      /\ built' = Append(SubSeq(built, 1, todo[c].n), NullOpt)
      /\ todo' = SubSeq(todo, c + 1, Len(todo))
      /\ UNCHANGED <<tokens_, mode>>
  BY DEF Raise, Reported
<1> HIDE DEF c
<1>2. /\ c \in 1 .. Len(todo) - 1 /\ todo[c].n \in 1 .. Len(built)
      /\ IsSeq(todo') /\ todo' # <<>> /\ Last(todo') = Do("parse")
      /\ Runs(todo', todo[c].n + 1)
  BY <1>1, CatchInnermost DEF c, IInv
<1>3. IsSeq(built') /\ Len(built') = todo[c].n + 1
  <2> DEFINE k == todo[c].n
             kept == SubSeq(built, 1, k)
  <2>1. IsSeq(built) /\ Len(built) \in Nat
    BY SeqFacts DEF IInv, StackInv
  <2>2. 1 \in 1 .. Len(built) + 1 /\ k \in 1 - 1 .. Len(built)
    BY <1>2, <2>1
  <2>3. IsSeq(kept) /\ Len(kept) = k - 1 + 1
    BY <2>1, <2>2, SubSeqIsSeq
  <2> HIDE DEF kept
  <2>4. IsSeq(Append(kept, NullOpt)) /\ Len(Append(kept, NullOpt)) = Len(kept) + 1
    BY <2>3, AppendIsSeq
  <2> QED BY <1>1, <1>2, <2>1, <2>3, <2>4 DEF kept
<1>4. StackInv'
  BY <1>2, <1>3 DEF StackInv
<1>5. TokensInv
  BY DEF IInv
<1>6. TokensInv'
  BY <1>1, <1>5, SynchronizeFacts DEF TokensInv
<1>7. \A i : TokenAt(i)' = TokenAt(i)
  BY <1>1 DEF TokenAt
<1>8. SinkInv'
  <2>1. /\ current_ \in Nat \ {0} /\ from \in Nat /\ at \in Nat /\ current_' \in Nat
        /\ current_' >= from /\ (current_' > from \/ TokenAt(from) = "eof")
    <3>1. /\ current_' \in DOMAIN tokens_ /\ current_' >= from
          /\ (current_' > from \/ TokenAt(from) = "eof")
      BY <1>1, <1>5, SynchronizeFacts
    <3>2. DOMAIN tokens_ = 1 .. Len(tokens_) /\ Len(tokens_) \in Nat
      BY <1>5, TokenFacts
    <3>3. current_ \in DOMAIN tokens_
      BY <1>5 DEF TokensInv
    <3> QED BY <3>1, <3>2, <3>3
  <2>2. IsSeq(sink) /\ Len(sink) \in Nat
    BY SeqFacts DEF IInv, SinkInv
  <2> DEFINE n == Len(sink)
  <2>3. /\ IsSeq(sink') /\ Len(sink') = n + 1
        /\ sink'[n + 1].at = at
        /\ \A i \in 1 .. n : sink'[i] = sink[i]
    BY <1>1, <2>2, AppendIsSeq
  <2>4. at < current_' \/ (at = from /\ TokenAt(at) = "eof")
    BY <2>1
  <2>5. ASSUME NEW i \in 1 .. n
        PROVE  /\ sink[i].at \in 1 .. current_
               /\ sink[i].at < current_ \/ TokenAt(sink[i].at) = "eof"
    BY DEF IInv, SinkInv
  <2> HIDE DEF n
  <2>6. ASSUME NEW i \in 1 .. n + 1
        PROVE  /\ sink'[i].at \in 1 .. current_'
               /\ sink'[i].at < current_' \/ TokenAt(sink'[i].at) = "eof"
    <3>1. CASE i = n + 1
      BY <1>7, <2>1, <2>3, <2>4, <3>1
    <3>2. CASE i # n + 1
      <4>1. i \in 1 .. n
        BY <2>2, <3>2 DEF n
      <4> QED BY <1>7, <2>1, <2>3, <2>5, <4>1
    <3> QED BY <3>1, <3>2
  <2>7. ASSUME NEW i \in 2 .. n + 1
        PROVE  sink'[i - 1].at < sink'[i].at \/ TokenAt(sink'[i].at) = "eof"
    <3>1. CASE i = n + 1
      <4>1. i - 1 \in 1 .. n /\ i - 1 = n
        BY <2>2, <3>1 DEF n
      <4>2. sink'[i - 1].at = sink[i - 1].at /\ sink'[i].at = at
        BY <2>3, <3>1, <4>1
      <4>3. /\ sink[i - 1].at \in 1 .. current_
            /\ sink[i - 1].at < current_ \/ TokenAt(sink[i - 1].at) = "eof"
        BY <2>5, <4>1
      <4>4. sink[i - 1].at < at \/ sink[i - 1].at = at
        BY <2>1, <4>3
      <4>5. CASE sink[i - 1].at = at
        <5>1. sink[i - 1].at = current_
          BY <2>1, <4>3, <4>5
        <5> QED BY <1>7, <2>1, <4>2, <4>3, <4>5, <5>1
      <4> QED BY <4>2, <4>4, <4>5
    <3>2. CASE i # n + 1
      <4>1. i \in 1 .. n /\ i - 1 \in 1 .. n /\ i \in 2 .. n
        BY <2>2, <3>2 DEF n
      <4>2. sink[i - 1].at < sink[i].at \/ TokenAt(sink[i].at) = "eof"
        BY <4>1 DEF IInv, SinkInv, n
      <4> QED BY <1>7, <2>3, <4>1, <4>2
    <3> QED BY <3>1, <3>2
  <2> QED BY <1>1, <2>3, <2>6, <2>7 DEF SinkInv, TokenAt
<1>9. mode' = "parsing"
  BY <1>1 DEF Step
<1>10. Resumes
  BY <1>1, <1>5, SynchronizeFacts DEF Resumes
<1> QED BY <1>4, <1>6, <1>8, <1>9, <1>10 DEF IInv

(* What a handler knows when it is called.                                 *)
LEMMA Called ==
  ASSUME IInv, Step
  PROVE  /\ IsSeq(built) /\ Len(built) \in Nat /\ Len(built) >= Need(Head(todo))
         /\ current_ + 0 \in DOMAIN tokens_
         /\ Peek # "eof" => current_ + 1 \in DOMAIN tokens_
         /\ TokenAt(current_ + 1) \notin {"eof", "outside"} => current_ + 2 \in DOMAIN tokens_
<1>1. TokensInv /\ StackInv
  BY DEF IInv
<1>2. current_ \in DOMAIN tokens_ /\ current_ \in Nat
  BY <1>1, TokenFacts DEF TokensInv
<1>3. current_ + 0 \in DOMAIN tokens_
  BY <1>2
<1>4. Peek # "eof" => current_ + 1 \in DOMAIN tokens_
  BY <1>1, <1>2, TokenFacts DEF Peek
<1>5. ASSUME TokenAt(current_ + 1) \notin {"eof", "outside"}
      PROVE  current_ + 2 \in DOMAIN tokens_
  <2>1. current_ + 1 \in DOMAIN tokens_
    BY <1>1, <1>5, TokenFacts
  <2>2. current_ + 1 + 1 \in DOMAIN tokens_
    BY <1>1, <1>5, <2>1, TokenFacts
  <2> QED BY <1>2, <2>2
<1> QED BY <1>1, <1>3, <1>4, <1>5, UnderHead, SeqFacts DEF StackInv

(* The nodes under construction: one more, the one on top replaced, the    *)
(* two on top made one.                                                    *)
LEMMA OneMore ==
  ASSUME IsSeq(built), NEW node, Push(node)
  PROVE  IsSeq(built') /\ Len(built') = Len(built) + 1
BY AppendIsSeq DEF Push

LEMMA TopReplaced ==
  ASSUME NEW q, IsSeq(q), Len(q) >= 1, NEW node
  PROVE  IsSeq(Append(Front(q), node)) /\ Len(Append(Front(q), node)) = Len(q)
<1>1. q # <<>> /\ Len(q) \in Nat
  BY SeqFacts
<1>2. IsSeq(Front(q)) /\ Len(Front(q)) = Len(q) - 1
  BY <1>1, FrontIsSeq
<1> DEFINE p == Front(q)
<1> HIDE DEF p
<1>3. IsSeq(p) /\ Len(p) = Len(q) - 1
  BY <1>2 DEF p
<1>4. IsSeq(Append(p, node)) /\ Len(Append(p, node)) = Len(q)
  BY <1>1, <1>3, AppendIsSeq
<1> QED BY <1>4 DEF p

LEMMA TwoMadeOne ==
  ASSUME NEW q, IsSeq(q), Len(q) >= 2, NEW node
  PROVE  /\ IsSeq(Append(Front(Front(q)), node))
         /\ Len(Append(Front(Front(q)), node)) = Len(q) - 1
         /\ IsSeq(Append(SubSeq(q, 1, Len(q) - 2), node))
         /\ Len(Append(SubSeq(q, 1, Len(q) - 2), node)) = Len(q) - 1
<1>1. q # <<>> /\ Len(q) \in Nat
  BY SeqFacts
<1>2. IsSeq(Front(q)) /\ Len(Front(q)) = Len(q) - 1
  BY <1>1, FrontIsSeq
<1>3. IsSeq(Append(Front(Front(q)), node)) /\ Len(Append(Front(Front(q)), node)) = Len(q) - 1
  <2> DEFINE f == Front(q)
  <2>1. IsSeq(f) /\ Len(f) = Len(q) - 1 /\ Len(f) >= 1
    BY <1>1, <1>2
  <2> HIDE DEF f
  <2>2. IsSeq(Append(Front(f), node)) /\ Len(Append(Front(f), node)) = Len(f)
    BY <2>1, TopReplaced
  <2> QED BY <2>1, <2>2 DEF f
<1> DEFINE p == SubSeq(q, 1, Len(q) - 2)
<1>4. IsSeq(p) /\ Len(p) = Len(q) - 2
  <2>1. 1 \in 1 .. Len(q) + 1 /\ Len(q) - 2 \in 1 - 1 .. Len(q)
    BY <1>1
  <2>2. IsSeq(p) /\ Len(p) = Len(q) - 2 - 1 + 1
    BY <2>1, SubSeqIsSeq
  <2> QED BY <1>1, <2>2
<1> HIDE DEF p
<1>5. IsSeq(Append(p, node)) /\ Len(Append(p, node)) = Len(q) - 1
  BY <1>1, <1>4, AppendIsSeq
<1> QED BY <1>3, <1>5 DEF p

LEMMA EofIsNoOperator == "eof" \notin DOMAIN InfixTable
BY DEF InfixTable, InfixOperators

(* A handler in front, with what it works on, and the tokens it may take.  *)
(* When it is done, one node is there instead.                             *)
Ready(handler, need) ==
  /\ Step /\ Head(todo).do = handler
  /\ handler \notin {"parse", "declaration", "catch"} /\ need \in 0 .. 2
  /\ Need(Head(todo)) = need /\ Need(Head(todo)) + Grow(Head(todo)) = 1
  /\ IsSeq(built) /\ Len(built) \in Nat /\ Len(built) >= need
  /\ current_ + 0 \in DOMAIN tokens_
  /\ Peek # "eof" => current_ + 1 \in DOMAIN tokens_
  /\ TokenAt(current_ + 1) \notin {"eof", "outside"} => current_ + 2 \in DOMAIN tokens_

LEMMA MakerReady ==
  ASSUME IInv, NEW d \in Makers \ {"declaration"}, At(d)
  PROVE  Ready(d, 0)
BY TaskKinds, Called DEF Ready, At, Makers

LEMMA CloserReady == ASSUME IInv, NEW d \in Closers, At(d) PROVE Ready(d, 2)
BY TaskKinds, Called DEF Ready, At, Closers

LEMMA UserReady == ASSUME IInv, NEW d \in Users, At(d) PROVE Ready(d, 1)
BY TaskKinds, Called DEF Ready, At, Users

LEMMA SameHeight ==
  ASSUME IInv, NEW h, NEW need, Ready(h, need),
         NEW n \in Nat, current_ + n \in DOMAIN tokens_, NEW ts, Proceed(n, ts),
         Fills(ts, need, 1), ts = <<>> \/ h # "add",
         IsSeq(built'), Len(built') = Len(built)
  PROVE  IInv' /\ Resumes
<1>1. /\ IInv /\ Step /\ Proceed(n, ts)
      /\ Head(todo).do \notin {"parse", "declaration", "catch"}
      /\ ts = <<>> \/ Head(todo).do # "add"
      /\ Fills(ts, need, 1) /\ 1 = Need(Head(todo)) + Grow(Head(todo))
      /\ IsSeq(built') /\ Len(built') = Len(built) - Need(Head(todo)) + need
      /\ current_ + n \in DOMAIN tokens_ /\ need \in Int
  BY DEF Ready
<1> QED BY <1>1, BodyStep

LEMMA OneHigher ==
  ASSUME IInv, NEW h, NEW need, Ready(h, need),
         NEW n \in Nat, current_ + n \in DOMAIN tokens_, NEW ts, Proceed(n, ts),
         NEW x, x = need + 1, Fills(ts, x, 1), h # "add",
         IsSeq(built'), Len(built') = Len(built) + 1
  PROVE  IInv' /\ Resumes
<1>1. /\ IInv /\ Step /\ Proceed(n, ts)
      /\ Head(todo).do \notin {"parse", "declaration", "catch"}
      /\ ts = <<>> \/ Head(todo).do # "add"
      /\ Fills(ts, x, 1) /\ 1 = Need(Head(todo)) + Grow(Head(todo))
      /\ IsSeq(built') /\ Len(built') = Len(built) - Need(Head(todo)) + x
      /\ current_ + n \in DOMAIN tokens_ /\ x \in Int
  BY DEF Ready
<1> QED BY <1>1, BodyStep

LEMMA OneLower ==
  ASSUME IInv, NEW h, Ready(h, 2), Proceed(0, <<>>),
         IsSeq(built'), Len(built') = Len(built) - 1
  PROVE  IInv' /\ Resumes
<1>1. Fills(<<>>, 1, 1)
  BY FillsNothing
<1>2. /\ IInv /\ Step /\ Proceed(0, <<>>)
      /\ Head(todo).do \notin {"parse", "declaration", "catch"}
      /\ Fills(<<>>, 1, 1) /\ 1 = Need(Head(todo)) + Grow(Head(todo))
      /\ IsSeq(built') /\ Len(built') = Len(built) - Need(Head(todo)) + 1
      /\ current_ + 0 \in DOMAIN tokens_
  BY <1>1 DEF Ready
<1> QED BY <1>2, BodyStep

(* What is in front is a task of a body, and what a list is of is known.   *)
LEMMA HeadFacts ==
  ASSUME StackInv, Step, Head(todo).do \notin {"catch", "parse"}
  PROVE  /\ BodyTask(Head(todo))
         /\ Head(todo).do \in {"items", "more"} =>
              IsItem(Head(todo).item) /\ IsDelimiter(Head(todo).type)
<1>1. IsSeq(todo) /\ todo # <<>>
  BY DEF StackInv, Step
<1>2. Head(todo) = todo[1] /\ 1 \in 1 .. Len(todo)
  BY <1>1, TailIsSeq, SeqFacts
<1>3. PICK h : Placed(h, todo, 1)
  BY <1>2 DEF StackInv, Runs
<1>4. Do("parse").do = "parse"
  BY DEF Do, Task
<1>5. BodyTask(Head(todo))
  BY <1>2, <1>3, <1>4 DEF Placed
<1> QED BY <1>5 DEF BodyTask, Makers, Closers, Users

---------------------------------------------------------------------------
(* One lemma per handler.                                                  *)

LEMMA RunsNothing == ASSUME NEW x \in Int PROVE Runs(<<>>, x)
<1> DEFINE h == [i \in 1 .. 1 |-> x]
<1>1. Len(<<>>) = 0
  OBVIOUS
<1>2. Heights(h, <<>>) /\ h[1] = x
  BY <1>1 DEF Heights
<1> HIDE DEF h
<1> QED BY <1>1, <1>2 DEF Runs

LEMMA EscapeStep == ASSUME IInv, Escape PROVE IInv' /\ Resumes
<1>1. TokensInv /\ SinkInv /\ IsSeq(built) /\ current_ \in Nat
  BY TokenFacts DEF IInv, StackInv, TokensInv
<1>2. TokensInv' /\ SinkInv'
  <2>1. current_ + 0 = current_
    BY <1>1
  <2> QED BY <1>1, <2>1, GoOn DEF Escape, TokensInv
<1>3. Runs(<<>>, Len(built))
  BY <1>1, RunsNothing, SeqFacts
<1>4. IsSeq(<<>>) /\ Len(<<>>) = 0
  BY DEF IsSeq
<1>5. StackInv'
  BY <1>1, <1>3, <1>4 DEF Escape, StackInv
<1> QED BY <1>2, <1>5 DEF Escape, IInv, Resumes

LEMMA ConsumeTokenStep == ASSUME IInv, ConsumeToken PROVE IInv' /\ Resumes
<1>1. Step /\ Head(todo).do = "consume"
  BY DEF ConsumeToken, At
<1>2. Need(Head(todo)) = 0 /\ Grow(Head(todo)) = 0 /\ IsDelimiter(Head(todo).type)
  <2>1. BodyTask(Head(todo))
    BY <1>1, HeadFacts DEF IInv
  <2> QED BY <1>1, <2>1, TaskKinds DEF BodyTask, Makers, Closers, Users
<1>3. CASE Peek = Head(todo).type
  <2>1. Proceed(1, <<>>) /\ UNCHANGED built
    BY <1>3 DEF ConsumeToken
  <2>2. current_ + 1 \in DOMAIN tokens_
    BY <1>1, <1>2, <1>3, Called DEF IsDelimiter
  <2>3. IsSeq(built') /\ Len(built') = Len(built) /\ Len(built) \in Nat
    BY <1>1, <2>1, Called
  <2>4. Fills(<<>>, 0, 0)
    BY FillsNothing
  <2> QED BY <1>1, <1>2, <2>1, <2>2, <2>3, <2>4, BodyStep
<1>4. CASE Peek # Head(todo).type
  <2>1. Raise(current_, current_, Head(todo).code)
    BY <1>4 DEF ConsumeToken
  <2>2. current_ \in DOMAIN tokens_ /\ current_ \in current_ .. current_
    BY TokenFacts DEF IInv, TokensInv
  <2>3. current_ = RaisedAt
    BY <1>1, RaisedAtFacts
  <2> QED BY <1>1, <2>1, <2>2, <2>3, RaiseStep DEF Outside
<1> QED BY <1>3, <1>4

LEMMA AddStep == ASSUME IInv, Add PROVE IInv' /\ Resumes
<1>1. IInv /\ Ready("add", 2) /\ Proceed(0, <<>>)
  BY CloserReady DEF Closers, Add
<1>2. IsSeq(built') /\ Len(built') = Len(built) - 1
  BY <1>1, TwoMadeOne DEF Ready, Add
<1> QED BY <1>1, <1>2, OneLower

LEMMA DeclarationStep == ASSUME IInv, Declaration PROVE IInv' /\ Resumes
<1>1. Step /\ Head(todo).do = "declaration" /\ UNCHANGED built
  BY DEF Declaration, At
<1>2. StackInv /\ TokensInv /\ SinkInv
  BY DEF IInv
<1>3. ASSUME NEW n \in {0, 1}, NEW ts, Fills(ts, 0, 1),
             Proceed(n, ts \o <<Catch(Len(built))>>), current_ + n \in DOMAIN tokens_
      PROVE  IInv' /\ Resumes
  <2> DEFINE one == <<Catch(Len(built))>>
             all == ts \o one
  <2>1. IsSeq(ts) /\ IsSeq(one) /\ one # <<>>
    <3>1. one \in Seq({Catch(Len(built))})
      OBVIOUS
    <3> QED BY <1>3, <3>1 DEF Fills, IsSeq
  <2>2. todo' = all \o Tail(todo)
    BY <1>3 DEF Proceed
  <2>3. Runs(all \o Tail(todo), Len(built))
    BY <1>1, <1>2, <1>3, EnterDeclaration
  <2> HIDE DEF one
  <2>4. IsSeq(all)
    BY <2>1, ConcatIsSeq
  <2> HIDE DEF all
  <2>5. IsSeq(todo') /\ todo' # <<>> /\ Last(todo') = Do("parse")
    BY <1>1, <1>2, <2>2, <2>4, LastOfConcat, UnderHead
  <2>6. TokensInv' /\ SinkInv'
    BY <1>2, <1>3, GoOn DEF Proceed
  <2>7. StackInv'
    BY <1>1, <1>2, <2>2, <2>3, <2>5 DEF StackInv
  <2> QED BY <1>1, <1>3, <2>6, <2>7 DEF IInv, Proceed, Step, Resumes
<1>4. current_ + 0 \in DOMAIN tokens_ /\ (Peek # "eof" => current_ + 1 \in DOMAIN tokens_)
  BY <1>1, Called
<1>5. CASE Peek = "struct"
  <2> DEFINE a == Identifier
             b == Do("struct_or_variable")
             ts == <<a, b>>
  <2>1. Proceed(1, ts \o <<Catch(Len(built))>>)
    BY <1>5 DEF Declaration, TypeKeywords
  <2>2. Is(a, 0, 0) /\ Is(b, 0, 1)
    BY TaskFacts
  <2> HIDE DEF a, b
  <2>3. Fills(ts, 0, 1)
    BY <2>2, FillsTwo DEF Is
  <2> HIDE DEF ts
  <2> QED BY <1>3, <1>4, <1>5, <2>1, <2>3
<1>6. CASE Peek \in TypeKeywords
  <2> DEFINE a == Do("type")
             b == Identifier
             c == Do("declarator")
             ts == <<a, b, c>>
  <2>1. Proceed(0, ts \o <<Catch(Len(built))>>)
    BY <1>6 DEF Declaration, TypeKeywords
  <2>2. Is(a, 0, 1) /\ Is(b, 0, 0) /\ Is(c, 1, 0)
    BY TaskFacts
  <2> HIDE DEF a, b, c
  <2>3. Fills(ts, 0, 1)
    BY <2>2, FillsThree DEF Is
  <2> HIDE DEF ts
  <2> QED BY <1>3, <1>4, <2>1, <2>3
<1>7. CASE Peek \notin TypeKeywords \cup {"struct"}
  <2> DEFINE a == Do("statement")
             ts == <<a>>
  <2>1. Proceed(0, ts \o <<Catch(Len(built))>>)
    BY <1>7 DEF Declaration, TypeKeywords
  <2>2. Is(a, 0, 1)
    BY TaskFacts
  <2> HIDE DEF a
  <2>3. Fills(ts, 0, 1)
    BY <2>2, FillsOne DEF Is
  <2> HIDE DEF ts
  <2> QED BY <1>3, <1>4, <2>1, <2>3
<1> QED BY <1>5, <1>6, <1>7

LEMMA LeaveDeclarationStep == ASSUME IInv, LeaveDeclaration PROVE IInv' /\ Resumes
<1>1. Step /\ Head(todo).do = "catch" /\ UNCHANGED built /\ Proceed(0, <<>>)
  BY DEF LeaveDeclaration, At
<1>2. StackInv /\ TokensInv /\ SinkInv
  BY DEF IInv
<1>3. IsSeq(Tail(todo)) /\ Tail(todo) # <<>> /\ Last(Tail(todo)) = Do("parse")
  BY <1>1, <1>2, UnderHead
<1>4. todo' = Tail(todo)
  <2>1. <<>> \o Tail(todo) = Tail(todo)
    BY <1>3, NothingBefore
  <2> QED BY <1>1, <2>1 DEF Proceed
<1>5. Runs(todo', Len(built'))
  BY <1>1, <1>2, <1>4, LeaveInFront
<1>6. StackInv'
  BY <1>1, <1>2, <1>3, <1>4, <1>5 DEF StackInv
<1>7. TokensInv' /\ SinkInv'
  BY <1>1, <1>2, Called, GoOn DEF Proceed
<1> QED BY <1>1, <1>6, <1>7 DEF IInv, Proceed, Step, Resumes

LEMMA ParseStep == ASSUME IInv, Parse PROVE IInv' /\ Resumes
<1>1. Step /\ Head(todo).do = "parse" /\ UNCHANGED built
  BY DEF Parse, At
<1>2. StackInv /\ TokensInv /\ SinkInv
  BY DEF IInv
<1>3. todo = <<Do("parse")>> /\ Len(built) = 1
  <2>1. IsSeq(todo) /\ todo # <<>> /\ Head(todo) = todo[1] /\ 1 \in 1 .. Len(todo)
    BY <1>1, <1>2, TailIsSeq, SeqFacts DEF StackInv, Step
  <2>2. PICK h : h[1] = Len(built) /\ Placed(h, todo, 1)
    BY <1>2, <2>1 DEF StackInv, Runs
  <2>3. ~ BodyTask(todo[1])
    BY <1>1, <2>1 DEF BodyTask, Makers, Closers, Users
  <2>4. todo[1] = Do("parse") /\ 1 = Len(todo) /\ Len(built) = 1
    BY <1>1, <2>1, <2>2, <2>3 DEF Placed
  <2> QED BY <2>1, <2>4 DEF IsSeq
<1>4. CASE IsAtEnd
  <2>1. mode' = "parsed" /\ todo' = <<>> /\ UNCHANGED <<tokens_, current_, sink>>
    BY <1>4 DEF Parse
  <2>2. TokensInv' /\ SinkInv'
    <3>1. current_ + 0 = current_ /\ current_ + 0 \in DOMAIN tokens_
      BY <1>1, <1>2, Called, TokenFacts DEF TokensInv
    <3> QED BY <1>2, <2>1, <3>1, GoOn
  <2>3. Runs(<<>>, Len(built))
    BY <1>3, RunsNothing
  <2>4. IsSeq(<<>>)
    BY DEF IsSeq
  <2>5. StackInv'
    BY <1>1, <1>2, <2>1, <2>3, <2>4 DEF StackInv
  <2>6. IsAtEnd'
    BY <1>4, <2>1 DEF IsAtEnd, Peek, TokenAt
  <2> QED BY <1>1, <1>3, <2>1, <2>2, <2>5, <2>6 DEF IInv, Resumes
<1>5. CASE ~ IsAtEnd
  <2> DEFINE ts == <<Do("declaration"), Do("add")>>
             q == <<Do("parse")>>
             s == <<Do("declaration"), Do("add"), Do("parse")>>
  <2>1. Proceed(0, s)
    BY <1>5 DEF Parse
  <2>2. todo' = s
    BY <1>3, <2>1 DEF Proceed
  <2>3. Runs(s, 1)
    <3> DEFINE h == [i \in 1 .. 4 |-> IF i = 2 THEN 2 ELSE 1]
    <3>1. /\ Len(s) = 3 /\ s[1] = Do("declaration") /\ s[2] = Do("add")
          /\ s[3] = Do("parse")
      OBVIOUS
    <3>2. /\ h \in [1 .. Len(s) + 1 -> Int]
          /\ h[1] = 1 /\ h[2] = 2 /\ h[3] = 1 /\ h[4] = 1
      BY <3>1
    <3> HIDE DEF h, s
    <3>3. Do("parse").do = "parse"
      BY DEF Do, Task
    <3>4. Do("declaration").do = "declaration" /\ Do("add").do = "add"
      BY DEF Do, Task
    <3>5. /\ Grow(Do("declaration")) = 1 /\ Need(Do("declaration")) = 1
          /\ BodyTask(Do("declaration"))
          /\ Grow(Do("add")) = -1 /\ Need(Do("add")) = 2 /\ BodyTask(Do("add"))
          /\ Grow(Do("parse")) = 0 /\ Need(Do("parse")) = 1
      <4>1. Grow(Do("parse")) = 0 /\ Need(Do("parse")) = 1
        BY <3>3 DEF Grow, Need, Makers, Closers
      <4> QED BY <4>1, MakerFacts, CloserFacts DEF Makers, Closers
    <3>6. Heights(h, s)
      BY <3>1, <3>2, <3>5 DEF Heights
    <3>7. \A j \in 1 .. 3 : s[j].do # "catch"
      BY <3>1, <3>3, <3>4
    <3>8. \A i \in 1 .. 3 : Placed(h, s, i)
      BY <3>1, <3>2, <3>3, <3>4, <3>5, <3>7 DEF Placed, Outside
    <3> QED BY <3>1, <3>2, <3>6, <3>8 DEF Runs
  <2>4. IsSeq(s) /\ s # <<>> /\ Last(s) = Do("parse")
    <3>1. s \in Seq({Do("declaration"), Do("add"), Do("parse")}) /\ s # <<>>
      OBVIOUS
    <3>2. Len(s) = 3 /\ s[3] = Do("parse")
      OBVIOUS
    <3> QED BY <3>1, <3>2 DEF IsSeq, Last
  <2> HIDE DEF s
  <2>5. StackInv'
    BY <1>1, <1>2, <1>3, <2>2, <2>3, <2>4 DEF StackInv
  <2>6. TokensInv' /\ SinkInv'
    BY <1>1, <1>2, <2>1, Called, GoOn DEF Proceed
  <2> QED BY <1>1, <2>1, <2>5, <2>6 DEF IInv, Proceed, Step, Resumes
<1> QED BY <1>4, <1>5

LEMMA StructOrVariableStep == ASSUME IInv, StructOrVariable PROVE IInv' /\ Resumes
<1>1. IInv /\ Ready("struct_or_variable", 0)
  BY MakerReady DEF Makers, StructOrVariable
<1>2. CASE Peek = "{"
  <2> DEFINE a == Do("fields")
             ts == <<a>>
  <2>1. Proceed(1, ts)
    BY <1>1, <1>2 DEF StructOrVariable
  <2>2. IsSeq(built') /\ Len(built') = Len(built) + 1
    BY <1>1, <1>2, OneMore DEF Ready, StructOrVariable
  <2>3. current_ + 1 \in DOMAIN tokens_
    BY <1>1, <1>2 DEF Ready, IsAtEnd
  <2>4. Is(a, 1, 0)
    BY TaskFacts
  <2> HIDE DEF a
  <2>5. Fills(ts, 1, 1)
    BY <2>4, FillsOne DEF Is
  <2> HIDE DEF ts
  <2> QED BY <1>1, <2>1, <2>2, <2>3, <2>5, OneHigher
<1>3. CASE Peek # "{"
  <2> DEFINE a == Identifier
             b == Do("declarator")
             ts == <<a, b>>
  <2>1. Proceed(0, ts)
    BY <1>1, <1>3 DEF StructOrVariable
  <2>2. IsSeq(built') /\ Len(built') = Len(built) + 1
    BY <1>1, <1>3, OneMore DEF Ready, StructOrVariable
  <2>3. current_ + 0 \in DOMAIN tokens_
    BY <1>1 DEF Ready
  <2>4. Is(a, 0, 0) /\ Is(b, 1, 0)
    BY TaskFacts
  <2> HIDE DEF a, b
  <2>5. Fills(ts, 1, 1)
    BY <2>4, FillsTwo DEF Is
  <2> HIDE DEF ts
  <2> QED BY <1>1, <2>1, <2>2, <2>3, <2>5, OneHigher
<1> QED BY <1>2, <1>3

LEMMA StructFieldsStep == ASSUME IInv, StructFields PROVE IInv' /\ Resumes
<1>1. IInv /\ Ready("fields", 1)
  BY UserReady DEF Users, StructFields
<1>2. CASE Peek = "}" \/ IsAtEnd
  <2> DEFINE a == RightBrace
             b == Semicolon
             ts == <<a, b>>
  <2>1. Proceed(0, ts)
    BY <1>1, <1>2 DEF StructFields
  <2>2. IsSeq(built') /\ Len(built') = Len(built)
    BY <1>1, <1>2 DEF Ready, StructFields
  <2>3. current_ + 0 \in DOMAIN tokens_
    BY <1>1 DEF Ready
  <2>4. Is(a, 0, 0) /\ Is(b, 0, 0)
    BY TaskFacts
  <2> HIDE DEF a, b
  <2>5. Fills(ts, 1, 1)
    BY <2>4, FillsTwo DEF Is
  <2> HIDE DEF ts
  <2> QED BY <1>1, <2>1, <2>2, <2>3, <2>5, SameHeight
<1>3. CASE ~ (Peek = "}" \/ IsAtEnd)
  <2> DEFINE a == Do("type")
             b == Identifier
             c == Do("dimensions")
             d == Semicolon
             e == Do("add")
             f == Do("fields")
             ts == <<a, b, c, d, e, f>>
  <2>1. Proceed(0, ts)
    BY <1>1, <1>3 DEF StructFields
  <2>2. IsSeq(built') /\ Len(built') = Len(built)
    BY <1>1, <1>3 DEF Ready, StructFields
  <2>3. current_ + 0 \in DOMAIN tokens_
    BY <1>1 DEF Ready
  <2>4. /\ Is(a, 0, 1) /\ Is(b, 0, 0) /\ Is(c, 1, 0) /\ Is(d, 0, 0)
        /\ Is(e, 2, -1) /\ Is(f, 1, 0)
    BY TaskFacts
  <2> HIDE DEF a, b, c, d, e, f
  <2>5. Fills(ts, 1, 1)
    BY <2>4, FillsSix, SMTT(30) DEF Is
  <2> HIDE DEF ts
  <2> QED BY <1>1, <2>1, <2>2, <2>3, <2>5, SameHeight
<1> QED BY <1>2, <1>3

LEMMA DeclaratorStep == ASSUME IInv, Declarator PROVE IInv' /\ Resumes
<1>1. IInv /\ Ready("declarator", 1)
  BY UserReady DEF Users, Declarator
<1>2. CASE Peek = "("
  <2> DEFINE a == Items("parameter", ")", "expected_right_paren")
             b == Consume("{", "expected_left_brace")
             c == Do("open_block")
             d == Do("add")
             ts == <<a, b, c, d>>
  <2>1. Proceed(1, ts)
    BY <1>1, <1>2 DEF Declarator
  <2>2. IsSeq(built') /\ Len(built') = Len(built)
    BY <1>1, <1>2, TopReplaced DEF Ready, Declarator, Wrap
  <2>3. current_ + 1 \in DOMAIN tokens_
    BY <1>1, <1>2 DEF Ready, IsAtEnd
  <2>4. Is(a, 1, 0) /\ Is(b, 0, 0) /\ Is(c, 0, 1) /\ Is(d, 2, -1)
    BY TaskFacts
  <2> HIDE DEF a, b, c, d
  <2>5. Fills(ts, 1, 1)
    BY <2>4, FillsFour DEF Is
  <2> HIDE DEF ts
  <2> QED BY <1>1, <2>1, <2>2, <2>3, <2>5, SameHeight
<1>3. CASE Peek # "("
  <2> DEFINE a == Do("dimensions")
             b == Do("initializer")
             ts == <<a, b>>
  <2>1. Proceed(0, ts)
    BY <1>1, <1>3 DEF Declarator
  <2>2. IsSeq(built') /\ Len(built') = Len(built)
    BY <1>1, <1>3 DEF Ready, Declarator
  <2>3. current_ + 0 \in DOMAIN tokens_
    BY <1>1 DEF Ready
  <2>4. Is(a, 1, 0) /\ Is(b, 1, 0)
    BY TaskFacts
  <2> HIDE DEF a, b
  <2>5. Fills(ts, 1, 1)
    BY <2>4, FillsTwo DEF Is
  <2> HIDE DEF ts
  <2> QED BY <1>1, <2>1, <2>2, <2>3, <2>5, SameHeight
<1> QED BY <1>2, <1>3

LEMMA ParameterStep == ASSUME IInv, Parameter PROVE IInv' /\ Resumes
<1>1. IInv /\ Ready("parameter", 0)
  BY MakerReady DEF Makers, Parameter
<1> DEFINE a == Do("type")
           b == Identifier
           c == Do("dimensions")
           ts == <<a, b, c>>
<1>2. Proceed(0, ts)
  BY <1>1 DEF Parameter
<1>3. IsSeq(built') /\ Len(built') = Len(built)
  BY <1>1 DEF Ready, Parameter
<1>4. current_ + 0 \in DOMAIN tokens_
  BY <1>1 DEF Ready
<1>5. Is(a, 0, 1) /\ Is(b, 0, 0) /\ Is(c, 1, 0)
  BY TaskFacts
<1> HIDE DEF a, b, c
<1>6. Fills(ts, 0, 1)
  BY <1>5, FillsThree DEF Is
<1> HIDE DEF ts
<1> QED BY <1>1, <1>2, <1>3, <1>4, <1>6, SameHeight

LEMMA InitializerStep == ASSUME IInv, Initializer PROVE IInv' /\ Resumes
<1>1. IInv /\ Ready("initializer", 1)
  BY UserReady DEF Users, Initializer
<1>2. CASE Peek = "="
  <2> DEFINE a == Do("element")
             b == Do("add")
             c == Semicolon
             ts == <<a, b, c>>
  <2>1. Proceed(1, ts)
    BY <1>1, <1>2 DEF Initializer
  <2>2. IsSeq(built') /\ Len(built') = Len(built)
    BY <1>1, <1>2, TopReplaced DEF Ready, Initializer, Wrap
  <2>3. current_ + 1 \in DOMAIN tokens_
    BY <1>1, <1>2 DEF Ready, IsAtEnd
  <2>4. Is(a, 0, 1) /\ Is(b, 2, -1) /\ Is(c, 0, 0)
    BY TaskFacts
  <2> HIDE DEF a, b, c
  <2>5. Fills(ts, 1, 1)
    BY <2>4, FillsThree DEF Is
  <2> HIDE DEF ts
  <2> QED BY <1>1, <2>1, <2>2, <2>3, <2>5, SameHeight
<1>3. CASE Peek # "="
  <2> DEFINE a == Semicolon
             ts == <<a>>
  <2>1. Proceed(0, ts)
    BY <1>1, <1>3 DEF Initializer
  <2>2. IsSeq(built') /\ Len(built') = Len(built)
    BY <1>1, <1>3, TopReplaced DEF Ready, Initializer, Wrap
  <2>3. current_ + 0 \in DOMAIN tokens_
    BY <1>1 DEF Ready
  <2>4. Is(a, 0, 0)
    BY TaskFacts
  <2> HIDE DEF a
  <2>5. Fills(ts, 1, 1)
    BY <2>4, FillsOne DEF Is
  <2> HIDE DEF ts
  <2> QED BY <1>1, <2>1, <2>2, <2>3, <2>5, SameHeight
<1> QED BY <1>2, <1>3

LEMMA ParseTypeStep == ASSUME IInv, ParseType PROVE IInv' /\ Resumes
<1>1. IInv /\ Ready("type", 0)
  BY MakerReady DEF Makers, ParseType
<1>2. CASE Peek = "struct"
  <2> DEFINE a == Identifier
             ts == <<a>>
  <2>1. Proceed(1, ts)
    BY <1>1, <1>2 DEF ParseType, TypeKeywords
  <2>2. IsSeq(built') /\ Len(built') = Len(built) + 1
    BY <1>1, <1>2, OneMore DEF Ready, ParseType, TypeKeywords
  <2>3. current_ + 1 \in DOMAIN tokens_
    BY <1>1, <1>2 DEF Ready, IsAtEnd, TypeKeywords
  <2>4. Is(a, 0, 0)
    BY TaskFacts
  <2> HIDE DEF a
  <2>5. Fills(ts, 1, 1)
    BY <2>4, FillsOne DEF Is
  <2> HIDE DEF ts
  <2> QED BY <1>1, <2>1, <2>2, <2>3, <2>5, OneHigher
<1>3. CASE Peek \in TypeKeywords
  <2>1. Proceed(1, <<>>)
    BY <1>1, <1>3 DEF ParseType, TypeKeywords
  <2>2. IsSeq(built') /\ Len(built') = Len(built) + 1
    BY <1>1, <1>3, OneMore DEF Ready, ParseType, TypeKeywords
  <2>3. current_ + 1 \in DOMAIN tokens_
    BY <1>1, <1>3 DEF Ready, IsAtEnd, TypeKeywords
  <2>4. Fills(<<>>, 1, 1)
    BY FillsNothing
  <2> QED BY <1>1, <2>1, <2>2, <2>3, <2>4, OneHigher
<1>4. CASE Peek \notin TypeKeywords \cup {"struct"}
  <2>1. current_ \in DOMAIN tokens_ /\ current_ \in current_ .. current_
    BY TokenFacts DEF IInv, TokensInv
  <2>2. PICK code : Raise(current_, current_, code)
    BY <1>1, <1>4 DEF ParseType
  <2>3. current_ = RaisedAt
    BY <1>1, RaisedAtFacts DEF Ready
  <2> QED BY <1>1, <2>1, <2>2, <2>3, RaiseStep DEF Ready, Outside
<1> QED BY <1>2, <1>3, <1>4

LEMMA DimensionsStep == ASSUME IInv, Dimensions PROVE IInv' /\ Resumes
<1>1. IInv /\ Ready("dimensions", 1)
  BY UserReady DEF Users, Dimensions
<1>2. CASE Peek = "["
  <2> DEFINE a == Do("size")
             ts == <<a>>
  <2>1. Proceed(0, ts)
    BY <1>1, <1>2 DEF Dimensions
  <2>2. IsSeq(built') /\ Len(built') = Len(built) + 1
    BY <1>1, <1>2, OneMore DEF Ready, Dimensions
  <2>3. current_ + 0 \in DOMAIN tokens_
    BY <1>1 DEF Ready
  <2>4. Is(a, 2, -1)
    BY TaskFacts
  <2> HIDE DEF a
  <2>5. Fills(ts, 2, 1)
    BY <2>4, FillsOne DEF Is
  <2> HIDE DEF ts
  <2> QED BY <1>1, <2>1, <2>2, <2>3, <2>5, OneHigher
<1>3. CASE Peek # "["
  <2>1. Proceed(0, <<>>)
    BY <1>1, <1>3 DEF Dimensions
  <2>2. IsSeq(built') /\ Len(built') = Len(built)
    BY <1>1, <1>3 DEF Ready, Dimensions
  <2>3. current_ + 0 \in DOMAIN tokens_
    BY <1>1 DEF Ready
  <2>4. Fills(<<>>, 1, 1)
    BY FillsNothing
  <2> QED BY <1>1, <2>1, <2>2, <2>3, <2>4, SameHeight
<1> QED BY <1>2, <1>3

LEMMA ArraySizeStep == ASSUME IInv, ArraySize PROVE IInv' /\ Resumes
<1>1. IInv /\ Ready("size", 2)
  BY CloserReady DEF Closers, ArraySize
<1>2. CASE Peek # "["
  <2>1. Proceed(0, <<>>)
    BY <1>1, <1>2 DEF ArraySize
  <2>2. IsSeq(built') /\ Len(built') = Len(built) - 1
    BY <1>1, <1>2, TwoMadeOne DEF Ready, ArraySize
  <2> QED BY <1>1, <2>1, <2>2, OneLower
<1>3. CASE Peek = "[" /\ TokenAt(current_ + 1) = "num"
  <2> DEFINE a == Consume("]", "expected_right_bracket")
             b == Do("size")
             ts == <<a, b>>
  <2>1. Proceed(2, ts)
    BY <1>1, <1>3 DEF ArraySize, Numbers
  <2>8. PICK node : built' = Append(Front(built), node)
    BY <1>3 DEF ArraySize, Numbers
  <2>2. IsSeq(built') /\ Len(built') = Len(built)
    BY <1>1, <2>8, TopReplaced DEF Ready
  <2>3. current_ + 2 \in DOMAIN tokens_
    BY <1>1, <1>3 DEF Ready, IsAtEnd
  <2>4. Is(a, 0, 0) /\ Is(b, 2, -1)
    BY TaskFacts
  <2> HIDE DEF a, b
  <2>5. Fills(ts, 2, 1)
    BY <2>4, FillsTwo DEF Is
  <2> HIDE DEF ts
  <2> QED BY <1>1, <2>1, <2>2, <2>3, <2>5, SameHeight
<1>4. CASE Peek = "[" /\ TokenAt(current_ + 1) \in Numbers \ {"num"}
  <2>1. current_ + 2 \in DOMAIN tokens_
    BY <1>1, <1>4 DEF Ready, Numbers
  <2>2. current_ + 1 \in current_ .. current_ + 2
    BY TokenFacts DEF IInv, TokensInv
  <2>3. PICK code : Raise(current_ + 1, current_ + 2, code)
    BY <1>1, <1>4 DEF ArraySize
  <2>4. current_ + 2 = RaisedAt
    BY <1>1, RaisedAtFacts DEF Ready
  <2> QED BY <1>1, <2>1, <2>2, <2>3, <2>4, RaiseStep DEF Ready, Outside
<1>5. CASE Peek = "[" /\ TokenAt(current_ + 1) \notin Numbers
  <2> DEFINE a == Consume("]", "expected_right_bracket")
             b == Do("size")
             ts == <<a, b>>
  <2>1. Proceed(1, ts)
    BY <1>1, <1>5 DEF ArraySize, Numbers
  <2>8. PICK node : built' = Append(Front(built), node)
    BY <1>5 DEF ArraySize, Numbers
  <2>2. IsSeq(built') /\ Len(built') = Len(built)
    BY <1>1, <2>8, TopReplaced DEF Ready
  <2>3. current_ + 1 \in DOMAIN tokens_
    BY <1>1, <1>5 DEF Ready, IsAtEnd
  <2>4. Is(a, 0, 0) /\ Is(b, 2, -1)
    BY TaskFacts
  <2> HIDE DEF a, b
  <2>5. Fills(ts, 2, 1)
    BY <2>4, FillsTwo DEF Is
  <2> HIDE DEF ts
  <2> QED BY <1>1, <2>1, <2>2, <2>3, <2>5, SameHeight
<1> QED BY <1>2, <1>3, <1>4, <1>5 DEF Numbers

LEMMA StatementStep == ASSUME IInv, Statement PROVE IInv' /\ Resumes
<1>1. IInv /\ Ready("statement", 0)
  BY MakerReady DEF Makers, Statement
<1>2. CASE Peek = "while"
  <2> DEFINE a == Consume("(", "expected_left_paren_while")
             b == Do("assignment")
             c == Do("add")
             d == Consume(")", "expected_right_paren_condition")
             e == Do("statement")
             ts == <<a, b, c, d, e, c>>
  <2>1. Proceed(1, ts)
    BY <1>1, <1>2 DEF Statement, Condition
  <2>2. IsSeq(built') /\ Len(built') = Len(built) + 1
    BY <1>1, <1>2, OneMore DEF Ready, Statement, Condition
  <2>3. current_ + 1 \in DOMAIN tokens_
    BY <1>1, <1>2 DEF Ready, IsAtEnd
  <2>4. /\ Is(a, 0, 0) /\ Is(b, 0, 1) /\ Is(c, 2, -1) /\ Is(d, 0, 0)
        /\ Is(e, 0, 1)
    BY TaskFacts
  <2> HIDE DEF a, b, c, d, e
  <2>5. Fills(ts, 1, 1)
    BY <2>4, FillsSix, SMTT(30) DEF Is
  <2> HIDE DEF ts
  <2> QED BY <1>1, <2>1, <2>2, <2>3, <2>5, OneHigher
<1>3. CASE Peek = "for"
  <2> DEFINE a == Consume("(", "expected_left_paren_for")
             b == Do("for_initializer")
             c == Do("for_condition")
             d == Do("for_increment")
             e == Do("statement")
             f == Do("add")
             ts == <<a, b, c, d, e, f>>
  <2>1. Proceed(1, ts)
    BY <1>1, <1>3 DEF Statement
  <2>2. IsSeq(built') /\ Len(built') = Len(built) + 1
    BY <1>1, <1>3, OneMore DEF Ready, Statement
  <2>3. current_ + 1 \in DOMAIN tokens_
    BY <1>1, <1>3 DEF Ready, IsAtEnd
  <2>4. /\ Is(a, 0, 0) /\ Is(b, 1, 0) /\ Is(c, 1, 0) /\ Is(d, 1, 0)
        /\ Is(e, 0, 1) /\ Is(f, 2, -1)
    BY TaskFacts
  <2> HIDE DEF a, b, c, d, e, f
  <2>5. Fills(ts, 1, 1)
    BY <2>4, FillsSix, SMTT(30) DEF Is
  <2> HIDE DEF ts
  <2> QED BY <1>1, <2>1, <2>2, <2>3, <2>5, OneHigher
<1>4. CASE Peek = "if"
  <2> DEFINE a == Consume("(", "expected_left_paren_if")
             b == Do("assignment")
             c == Do("add")
             d == Consume(")", "expected_right_paren_condition")
             e == Do("statement")
             f == Do("else")
             ts == <<a, b, c, d, e, c>> \o <<f>>
  <2>1. Proceed(1, ts)
    BY <1>1, <1>4 DEF Statement, Condition
  <2>2. IsSeq(built') /\ Len(built') = Len(built) + 1
    BY <1>1, <1>4, OneMore DEF Ready, Statement, Condition
  <2>3. current_ + 1 \in DOMAIN tokens_
    BY <1>1, <1>4 DEF Ready, IsAtEnd
  <2>4. /\ Is(a, 0, 0) /\ Is(b, 0, 1) /\ Is(c, 2, -1) /\ Is(d, 0, 0)
        /\ Is(e, 0, 1) /\ Is(f, 1, 0)
    BY TaskFacts
  <2> HIDE DEF a, b, c, d, e, f
  <2>5. Fills(<<a, b, c, d, e, c>>, 1, 1)
    BY <2>4, FillsSix, SMTT(30) DEF Is
  <2>6. Fills(<<f>>, 1, 1)
    BY <2>4, FillsOne DEF Is
  <2>7. Fills(ts, 1, 1)
    BY <2>5, <2>6, FillsJoin
  <2> HIDE DEF ts
  <2> QED BY <1>1, <2>1, <2>2, <2>3, <2>7, OneHigher
<1>5. CASE Peek = "return"
  <2> DEFINE a == Do("return_value")
             ts == <<a>>
  <2>1. Proceed(1, ts)
    BY <1>1, <1>5 DEF Statement
  <2>2. IsSeq(built') /\ Len(built') = Len(built) + 1
    BY <1>1, <1>5, OneMore DEF Ready, Statement
  <2>3. current_ + 1 \in DOMAIN tokens_
    BY <1>1, <1>5 DEF Ready, IsAtEnd
  <2>4. Is(a, 1, 0)
    BY TaskFacts
  <2> HIDE DEF a
  <2>5. Fills(ts, 1, 1)
    BY <2>4, FillsOne DEF Is
  <2> HIDE DEF ts
  <2> QED BY <1>1, <2>1, <2>2, <2>3, <2>5, OneHigher
<1>6. CASE Peek = "{"
  <2> DEFINE a == Do("open_block")
             ts == <<a>>
  <2>1. Proceed(1, ts)
    BY <1>1, <1>6 DEF Statement
  <2>2. IsSeq(built') /\ Len(built') = Len(built)
    BY <1>1, <1>6 DEF Ready, Statement
  <2>3. current_ + 1 \in DOMAIN tokens_
    BY <1>1, <1>6 DEF Ready, IsAtEnd
  <2>4. Is(a, 0, 1)
    BY TaskFacts
  <2> HIDE DEF a
  <2>5. Fills(ts, 0, 1)
    BY <2>4, FillsOne DEF Is
  <2> HIDE DEF ts
  <2> QED BY <1>1, <2>1, <2>2, <2>3, <2>5, SameHeight
<1>7. CASE Peek \notin {"while", "for", "if", "return", "{"}
  <2> DEFINE a == Do("assignment")
             b == Do("add")
             c == Semicolon
             ts == <<a, b, c>>
  <2>1. Proceed(0, ts)
    BY <1>1, <1>7 DEF Statement
  <2>2. IsSeq(built') /\ Len(built') = Len(built) + 1
    BY <1>1, <1>7, OneMore DEF Ready, Statement
  <2>3. current_ + 0 \in DOMAIN tokens_
    BY <1>1 DEF Ready
  <2>4. Is(a, 0, 1) /\ Is(b, 2, -1) /\ Is(c, 0, 0)
    BY TaskFacts
  <2> HIDE DEF a, b, c
  <2>5. Fills(ts, 1, 1)
    BY <2>4, FillsThree DEF Is
  <2> HIDE DEF ts
  <2> QED BY <1>1, <2>1, <2>2, <2>3, <2>5, OneHigher
<1> QED BY <1>2, <1>3, <1>4, <1>5, <1>6, <1>7

LEMMA ForInitializerStep == ASSUME IInv, ForInitializer PROVE IInv' /\ Resumes
<1>1. IInv /\ Ready("for_initializer", 1)
  BY UserReady DEF Users, ForInitializer
<1>2. CASE Peek = ";"
  <2>1. Proceed(1, <<>>)
    BY <1>2 DEF ForInitializer, IsTypeStart, TypeKeywords
  <2>8. PICK node : built' = Append(Front(built), node)
    BY <1>2 DEF ForInitializer, AddAbsent, IsTypeStart, TypeKeywords
  <2>2. IsSeq(built') /\ Len(built') = Len(built)
    BY <1>1, <2>8, TopReplaced DEF Ready
  <2>3. current_ + 1 \in DOMAIN tokens_
    BY <1>1, <1>2 DEF Ready, IsAtEnd, IsTypeStart, TypeKeywords
  <2>4. Fills(<<>>, 1, 1)
    BY FillsNothing
  <2> QED BY <1>1, <2>1, <2>2, <2>3, <2>4, SameHeight
<1>3. CASE IsTypeStart(Peek)
  <2> DEFINE a == Do("type")
             b == Identifier
             c == Do("dimensions")
             d == Do("initializer")
             e == Do("add")
             ts == <<a, b, c, d, e>>
  <2>1. Proceed(0, ts)
    BY <1>1, <1>3 DEF ForInitializer, IsTypeStart, TypeKeywords
  <2>2. IsSeq(built') /\ Len(built') = Len(built)
    BY <1>1, <1>3 DEF Ready, ForInitializer, IsTypeStart, TypeKeywords
  <2>3. current_ + 0 \in DOMAIN tokens_
    BY <1>1 DEF Ready
  <2>4. /\ Is(a, 0, 1) /\ Is(b, 0, 0) /\ Is(c, 1, 0) /\ Is(d, 1, 0)
        /\ Is(e, 2, -1)
    BY TaskFacts
  <2> HIDE DEF a, b, c, d, e
  <2>5. Fills(ts, 1, 1)
    BY <2>4, FillsFive DEF Is
  <2> HIDE DEF ts
  <2> QED BY <1>1, <2>1, <2>2, <2>3, <2>5, SameHeight
<1>4. CASE Peek # ";" /\ ~ IsTypeStart(Peek)
  <2> DEFINE a == Do("statement")
             b == Do("add")
             ts == <<a, b>>
  <2>1. Proceed(0, ts)
    BY <1>1, <1>4 DEF ForInitializer
  <2>2. IsSeq(built') /\ Len(built') = Len(built)
    BY <1>1, <1>4 DEF Ready, ForInitializer
  <2>3. current_ + 0 \in DOMAIN tokens_
    BY <1>1 DEF Ready
  <2>4. Is(a, 0, 1) /\ Is(b, 2, -1)
    BY TaskFacts
  <2> HIDE DEF a, b
  <2>5. Fills(ts, 1, 1)
    BY <2>4, FillsTwo DEF Is
  <2> HIDE DEF ts
  <2> QED BY <1>1, <2>1, <2>2, <2>3, <2>5, SameHeight
<1> QED BY <1>2, <1>3, <1>4

LEMMA ForConditionStep == ASSUME IInv, ForCondition PROVE IInv' /\ Resumes
<1>1. IInv /\ Ready("for_condition", 1)
  BY UserReady DEF Users, ForCondition, Optional
<1>2. CASE Peek = ";"
  <2> DEFINE a == Semicolon
             ts == <<a>>
  <2>1. Proceed(0, ts)
    BY <1>2 DEF ForCondition, Optional, Semicolon, Consume, Task
  <2>2. IsSeq(built') /\ Len(built') = Len(built)
    BY <1>1, <1>2, TopReplaced
    DEF Ready, ForCondition, Wrap, Optional, AddAbsent, Semicolon, Consume,
        Task
  <2>3. current_ + 0 \in DOMAIN tokens_
    BY <1>1 DEF Ready
  <2>4. Is(a, 0, 0)
    BY TaskFacts
  <2> HIDE DEF a
  <2>5. Fills(ts, 1, 1)
    BY <2>4, FillsOne DEF Is
  <2> HIDE DEF ts
  <2> QED BY <1>1, <2>1, <2>2, <2>3, <2>5, SameHeight
<1>3. CASE Peek # ";"
  <2> DEFINE a == Do("assignment")
             b == Do("add")
             c == Semicolon
             ts == <<a, b, c>>
  <2>1. Proceed(0, ts)
    BY <1>1, <1>3 DEF ForCondition, Optional, Semicolon, Consume, Task
  <2>2. IsSeq(built') /\ Len(built') = Len(built)
    BY <1>1, <1>3 DEF Ready, ForCondition, Optional, Semicolon, Consume, Task
  <2>3. current_ + 0 \in DOMAIN tokens_
    BY <1>1 DEF Ready
  <2>4. Is(a, 0, 1) /\ Is(b, 2, -1) /\ Is(c, 0, 0)
    BY TaskFacts
  <2> HIDE DEF a, b, c
  <2>5. Fills(ts, 1, 1)
    BY <2>4, FillsThree DEF Is
  <2> HIDE DEF ts
  <2> QED BY <1>1, <2>1, <2>2, <2>3, <2>5, SameHeight
<1> QED BY <1>2, <1>3

LEMMA ForIncrementStep == ASSUME IInv, ForIncrement PROVE IInv' /\ Resumes
<1>1. IInv /\ Ready("for_increment", 1)
  BY UserReady DEF Users, ForIncrement, Optional
<1>2. CASE Peek = ")"
  <2> DEFINE a == RightParen
             ts == <<a>>
  <2>1. Proceed(0, ts)
    BY <1>2 DEF ForIncrement, Optional, RightParen, Consume, Task
  <2>2. IsSeq(built') /\ Len(built') = Len(built)
    BY <1>1, <1>2, TopReplaced
    DEF Ready, ForIncrement, Wrap, Optional, AddAbsent, RightParen, Consume,
        Task
  <2>3. current_ + 0 \in DOMAIN tokens_
    BY <1>1 DEF Ready
  <2>4. Is(a, 0, 0)
    BY TaskFacts
  <2> HIDE DEF a
  <2>5. Fills(ts, 1, 1)
    BY <2>4, FillsOne DEF Is
  <2> HIDE DEF ts
  <2> QED BY <1>1, <2>1, <2>2, <2>3, <2>5, SameHeight
<1>3. CASE Peek # ")"
  <2> DEFINE a == Do("assignment")
             b == Do("add")
             c == RightParen
             ts == <<a, b, c>>
  <2>1. Proceed(0, ts)
    BY <1>1, <1>3 DEF ForIncrement, Optional, RightParen, Consume, Task
  <2>2. IsSeq(built') /\ Len(built') = Len(built)
    BY <1>1, <1>3 DEF Ready, ForIncrement, Optional, RightParen, Consume, Task
  <2>3. current_ + 0 \in DOMAIN tokens_
    BY <1>1 DEF Ready
  <2>4. Is(a, 0, 1) /\ Is(b, 2, -1) /\ Is(c, 0, 0)
    BY TaskFacts
  <2> HIDE DEF a, b, c
  <2>5. Fills(ts, 1, 1)
    BY <2>4, FillsThree DEF Is
  <2> HIDE DEF ts
  <2> QED BY <1>1, <2>1, <2>2, <2>3, <2>5, SameHeight
<1> QED BY <1>2, <1>3

LEMMA ReturnValueStep == ASSUME IInv, ReturnValue PROVE IInv' /\ Resumes
<1>1. IInv /\ Ready("return_value", 1)
  BY UserReady DEF Users, ReturnValue, Optional
<1>2. CASE Peek = ";"
  <2> DEFINE a == Semicolon
             ts == <<a>>
  <2>1. Proceed(0, ts)
    BY <1>2 DEF ReturnValue, Optional, Semicolon, Consume, Task
  <2>2. IsSeq(built') /\ Len(built') = Len(built)
    BY <1>1, <1>2, TopReplaced
    DEF Ready, ReturnValue, Wrap, Optional, AddAbsent, Semicolon, Consume,
        Task
  <2>3. current_ + 0 \in DOMAIN tokens_
    BY <1>1 DEF Ready
  <2>4. Is(a, 0, 0)
    BY TaskFacts
  <2> HIDE DEF a
  <2>5. Fills(ts, 1, 1)
    BY <2>4, FillsOne DEF Is
  <2> HIDE DEF ts
  <2> QED BY <1>1, <2>1, <2>2, <2>3, <2>5, SameHeight
<1>3. CASE Peek # ";"
  <2> DEFINE a == Do("assignment")
             b == Do("add")
             c == Semicolon
             ts == <<a, b, c>>
  <2>1. Proceed(0, ts)
    BY <1>1, <1>3 DEF ReturnValue, Optional, Semicolon, Consume, Task
  <2>2. IsSeq(built') /\ Len(built') = Len(built)
    BY <1>1, <1>3 DEF Ready, ReturnValue, Optional, Semicolon, Consume, Task
  <2>3. current_ + 0 \in DOMAIN tokens_
    BY <1>1 DEF Ready
  <2>4. Is(a, 0, 1) /\ Is(b, 2, -1) /\ Is(c, 0, 0)
    BY TaskFacts
  <2> HIDE DEF a, b, c
  <2>5. Fills(ts, 1, 1)
    BY <2>4, FillsThree DEF Is
  <2> HIDE DEF ts
  <2> QED BY <1>1, <2>1, <2>2, <2>3, <2>5, SameHeight
<1> QED BY <1>2, <1>3

LEMMA ElseBranchStep == ASSUME IInv, ElseBranch PROVE IInv' /\ Resumes
<1>1. IInv /\ Ready("else", 1)
  BY UserReady DEF Users, ElseBranch
<1>2. CASE Peek = "else"
  <2> DEFINE a == Do("statement")
             b == Do("add")
             ts == <<a, b>>
  <2>1. Proceed(1, ts)
    BY <1>1, <1>2 DEF ElseBranch
  <2>2. IsSeq(built') /\ Len(built') = Len(built)
    BY <1>1, <1>2 DEF Ready, ElseBranch
  <2>3. current_ + 1 \in DOMAIN tokens_
    BY <1>1, <1>2 DEF Ready, IsAtEnd
  <2>4. Is(a, 0, 1) /\ Is(b, 2, -1)
    BY TaskFacts
  <2> HIDE DEF a, b
  <2>5. Fills(ts, 1, 1)
    BY <2>4, FillsTwo DEF Is
  <2> HIDE DEF ts
  <2> QED BY <1>1, <2>1, <2>2, <2>3, <2>5, SameHeight
<1>3. CASE Peek # "else"
  <2>1. Proceed(0, <<>>)
    BY <1>1, <1>3 DEF ElseBranch
  <2>2. IsSeq(built') /\ Len(built') = Len(built)
    BY <1>1, <1>3 DEF Ready, ElseBranch
  <2>3. current_ + 0 \in DOMAIN tokens_
    BY <1>1 DEF Ready
  <2>4. Fills(<<>>, 1, 1)
    BY FillsNothing
  <2> QED BY <1>1, <2>1, <2>2, <2>3, <2>4, SameHeight
<1> QED BY <1>2, <1>3

LEMMA OpenBlockStep == ASSUME IInv, OpenBlock PROVE IInv' /\ Resumes
<1>1. IInv /\ Ready("open_block", 0)
  BY MakerReady DEF Makers, OpenBlock
<1> DEFINE a == Do("block")
           ts == <<a>>
<1>2. Proceed(0, ts)
  BY <1>1 DEF OpenBlock
<1>3. IsSeq(built') /\ Len(built') = Len(built) + 1
  BY <1>1, OneMore DEF Ready, OpenBlock
<1>4. current_ + 0 \in DOMAIN tokens_
  BY <1>1 DEF Ready
<1>5. Is(a, 1, 0)
  BY TaskFacts
<1> HIDE DEF a
<1>6. Fills(ts, 1, 1)
  BY <1>5, FillsOne DEF Is
<1> HIDE DEF ts
<1> QED BY <1>1, <1>2, <1>3, <1>4, <1>6, OneHigher

LEMMA BlockStatementStep == ASSUME IInv, BlockStatement PROVE IInv' /\ Resumes
<1>1. IInv /\ Ready("block", 1)
  BY UserReady DEF Users, BlockStatement
<1>2. CASE Peek = "}" \/ IsAtEnd
  <2> DEFINE a == RightBrace
             ts == <<a>>
  <2>1. Proceed(0, ts)
    BY <1>1, <1>2 DEF BlockStatement
  <2>2. IsSeq(built') /\ Len(built') = Len(built)
    BY <1>1, <1>2 DEF Ready, BlockStatement
  <2>3. current_ + 0 \in DOMAIN tokens_
    BY <1>1 DEF Ready
  <2>4. Is(a, 0, 0)
    BY TaskFacts
  <2> HIDE DEF a
  <2>5. Fills(ts, 1, 1)
    BY <2>4, FillsOne DEF Is
  <2> HIDE DEF ts
  <2> QED BY <1>1, <2>1, <2>2, <2>3, <2>5, SameHeight
<1>3. CASE ~ (Peek = "}" \/ IsAtEnd)
  <2> DEFINE a == Do("declaration")
             b == Do("add")
             c == Do("block")
             ts == <<a, b, c>>
  <2>1. Proceed(0, ts)
    BY <1>1, <1>3 DEF BlockStatement
  <2>2. IsSeq(built') /\ Len(built') = Len(built)
    BY <1>1, <1>3 DEF Ready, BlockStatement
  <2>3. current_ + 0 \in DOMAIN tokens_
    BY <1>1 DEF Ready
  <2>4. Is(a, 1, 1) /\ Is(b, 2, -1) /\ Is(c, 1, 0)
    BY TaskFacts
  <2> HIDE DEF a, b, c
  <2>5. Fills(ts, 1, 1)
    BY <2>4, FillsThree DEF Is
  <2> HIDE DEF ts
  <2> QED BY <1>1, <2>1, <2>2, <2>3, <2>5, SameHeight
<1> QED BY <1>2, <1>3

LEMMA AssignmentStep == ASSUME IInv, Assignment PROVE IInv' /\ Resumes
<1>1. IInv /\ Ready("assignment", 0)
  BY MakerReady DEF Makers, Assignment
<1> DEFINE a == Do("unary")
           b == InfixLoop(0)
           c == Do("assign")
           ts == <<a, b, c>>
<1>2. Proceed(0, ts)
  BY <1>1 DEF Assignment
<1>3. IsSeq(built') /\ Len(built') = Len(built)
  BY <1>1 DEF Ready, Assignment
<1>4. current_ + 0 \in DOMAIN tokens_
  BY <1>1 DEF Ready
<1>5. Is(a, 0, 1) /\ Is(c, 1, 0)
  BY TaskFacts
<1>6. Is(b, 1, 0)
  BY InfixFacts DEF Is
<1> HIDE DEF a, b, c
<1>7. Fills(ts, 0, 1)
  BY <1>5, <1>6, FillsThree DEF Is
<1> HIDE DEF ts
<1> QED BY <1>1, <1>2, <1>3, <1>4, <1>7, SameHeight

LEMMA AssignmentTailStep == ASSUME IInv, AssignmentTail PROVE IInv' /\ Resumes
<1>1. IInv /\ Ready("assign", 1)
  BY UserReady DEF Users, AssignmentTail
<1>2. CASE Peek \in AssignmentOperators
  <2> DEFINE a == Do("assignment")
             b == Do("add")
             ts == <<a, b>>
  <2>1. Proceed(1, ts)
    BY <1>1, <1>2 DEF AssignmentTail, AssignmentOperators
  <2>2. IsSeq(built') /\ Len(built') = Len(built)
    BY <1>1, <1>2, TopReplaced
    DEF Ready, AssignmentTail, Wrap, AssignmentOperators
  <2>3. current_ + 1 \in DOMAIN tokens_
    BY <1>1, <1>2 DEF Ready, IsAtEnd, AssignmentOperators
  <2>4. Is(a, 0, 1) /\ Is(b, 2, -1)
    BY TaskFacts
  <2> HIDE DEF a, b
  <2>5. Fills(ts, 1, 1)
    BY <2>4, FillsTwo DEF Is
  <2> HIDE DEF ts
  <2> QED BY <1>1, <2>1, <2>2, <2>3, <2>5, SameHeight
<1>3. CASE Peek \notin AssignmentOperators
  <2>1. Proceed(0, <<>>)
    BY <1>1, <1>3 DEF AssignmentTail
  <2>2. IsSeq(built') /\ Len(built') = Len(built)
    BY <1>1, <1>3 DEF Ready, AssignmentTail
  <2>3. current_ + 0 \in DOMAIN tokens_
    BY <1>1 DEF Ready
  <2>4. Fills(<<>>, 1, 1)
    BY FillsNothing
  <2> QED BY <1>1, <2>1, <2>2, <2>3, <2>4, SameHeight
<1> QED BY <1>2, <1>3

LEMMA ParseExpressionStep == ASSUME IInv, ParseExpression PROVE IInv' /\ Resumes
<1>1. IInv /\ Ready("infix", 1)
  BY UserReady DEF Users, ParseExpression
<1>2. BodyTask(Head(todo)) /\ Need(Head(todo)) = 1 /\ Grow(Head(todo)) = 0
  <2>1. StackInv /\ Step /\ Head(todo).do = "infix"
    BY <1>1 DEF Ready, IInv
  <2> QED BY <2>1, HeadFacts, TaskKinds DEF Users
<1>3. CASE Peek \in DOMAIN InfixTable /\ InfixTable[Peek] >= Head(todo).n
  <2> DEFINE a == Do("unary")
             b == InfixLoop(RightOperand(Peek))
             c == Do("add")
             d == Head(todo)
             ts == <<a, b, c, d>>
  <2>1. Proceed(1, ts)
    BY <1>1, <1>3 DEF ParseExpression
  <2>2. IsSeq(built') /\ Len(built') = Len(built)
    BY <1>1, <1>3, TopReplaced DEF Ready, ParseExpression, Wrap
  <2>3. current_ + 1 \in DOMAIN tokens_
    BY <1>1, <1>3, EofIsNoOperator DEF Ready, IsAtEnd
  <2>4. Is(a, 0, 1) /\ Is(c, 2, -1)
    BY TaskFacts
  <2>5. Is(b, 1, 0) /\ Is(d, 1, 0)
    BY <1>2, InfixFacts DEF Is
  <2> HIDE DEF a, b, c, d
  <2>6. Fills(ts, 1, 1)
    BY <2>4, <2>5, FillsFour DEF Is
  <2> HIDE DEF ts
  <2> QED BY <1>1, <2>1, <2>2, <2>3, <2>6, SameHeight
<1>4. CASE ~ (Peek \in DOMAIN InfixTable /\ InfixTable[Peek] >= Head(todo).n)
  <2>1. Proceed(0, <<>>)
    BY <1>1, <1>4 DEF ParseExpression
  <2>2. IsSeq(built') /\ Len(built') = Len(built)
    BY <1>1, <1>4 DEF Ready, ParseExpression
  <2>3. current_ + 0 \in DOMAIN tokens_
    BY <1>1 DEF Ready
  <2>4. Fills(<<>>, 1, 1)
    BY FillsNothing
  <2> QED BY <1>1, <2>1, <2>2, <2>3, <2>4, SameHeight
<1> QED BY <1>3, <1>4

LEMMA UnaryStep == ASSUME IInv, Unary PROVE IInv' /\ Resumes
<1>1. IInv /\ Ready("unary", 0)
  BY MakerReady DEF Makers, Unary
<1>2. CASE Peek \in PrefixOperators
  <2> DEFINE a == Do("unary")
             b == Do("add")
             ts == <<a, b>>
  <2>1. Proceed(1, ts)
    BY <1>1, <1>2 DEF Unary, PrefixOperators
  <2>2. IsSeq(built') /\ Len(built') = Len(built) + 1
    BY <1>1, <1>2, OneMore DEF Ready, Unary, PrefixOperators
  <2>3. current_ + 1 \in DOMAIN tokens_
    BY <1>1, <1>2 DEF Ready, IsAtEnd, PrefixOperators
  <2>4. Is(a, 0, 1) /\ Is(b, 2, -1)
    BY TaskFacts
  <2> HIDE DEF a, b
  <2>5. Fills(ts, 1, 1)
    BY <2>4, FillsTwo DEF Is
  <2> HIDE DEF ts
  <2> QED BY <1>1, <2>1, <2>2, <2>3, <2>5, OneHigher
<1>3. CASE Peek \notin PrefixOperators
  <2> DEFINE a == Do("primary")
             b == Do("postfix")
             ts == <<a, b>>
  <2>1. Proceed(0, ts)
    BY <1>1, <1>3 DEF Unary
  <2>2. IsSeq(built') /\ Len(built') = Len(built)
    BY <1>1, <1>3 DEF Ready, Unary
  <2>3. current_ + 0 \in DOMAIN tokens_
    BY <1>1 DEF Ready
  <2>4. Is(a, 0, 1) /\ Is(b, 1, 0)
    BY TaskFacts
  <2> HIDE DEF a, b
  <2>5. Fills(ts, 0, 1)
    BY <2>4, FillsTwo DEF Is
  <2> HIDE DEF ts
  <2> QED BY <1>1, <2>1, <2>2, <2>3, <2>5, SameHeight
<1> QED BY <1>2, <1>3

LEMMA PostfixStep == ASSUME IInv, Postfix PROVE IInv' /\ Resumes
<1>1. IInv /\ Ready("postfix", 1)
  BY UserReady DEF Users, Postfix
<1>2. CASE Peek = "["
  <2> DEFINE a == Do("assignment")
             b == Do("add")
             c == Consume("]", "expected_right_bracket")
             d == Do("postfix")
             ts == <<a, b, c, d>>
  <2>1. Proceed(1, ts)
    BY <1>1, <1>2 DEF Postfix
  <2>2. IsSeq(built') /\ Len(built') = Len(built)
    BY <1>1, <1>2, TopReplaced DEF Ready, Postfix, Wrap
  <2>3. current_ + 1 \in DOMAIN tokens_
    BY <1>1, <1>2 DEF Ready, IsAtEnd
  <2>4. Is(a, 0, 1) /\ Is(b, 2, -1) /\ Is(c, 0, 0) /\ Is(d, 1, 0)
    BY TaskFacts
  <2> HIDE DEF a, b, c, d
  <2>5. Fills(ts, 1, 1)
    BY <2>4, FillsFour DEF Is
  <2> HIDE DEF ts
  <2> QED BY <1>1, <2>1, <2>2, <2>3, <2>5, SameHeight
<1>3. CASE Peek = "."
  <2> DEFINE a == Identifier
             b == Do("postfix")
             ts == <<a, b>>
  <2>1. Proceed(1, ts)
    BY <1>1, <1>3 DEF Postfix
  <2>2. IsSeq(built') /\ Len(built') = Len(built)
    BY <1>1, <1>3, TopReplaced DEF Ready, Postfix, Wrap
  <2>3. current_ + 1 \in DOMAIN tokens_
    BY <1>1, <1>3 DEF Ready, IsAtEnd
  <2>4. Is(a, 0, 0) /\ Is(b, 1, 0)
    BY TaskFacts
  <2> HIDE DEF a, b
  <2>5. Fills(ts, 1, 1)
    BY <2>4, FillsTwo DEF Is
  <2> HIDE DEF ts
  <2> QED BY <1>1, <2>1, <2>2, <2>3, <2>5, SameHeight
<1>4. CASE Peek \in {"++", "--"}
  <2> DEFINE a == Do("postfix")
             ts == <<a>>
  <2>1. Proceed(1, ts)
    BY <1>1, <1>4 DEF Postfix
  <2>2. IsSeq(built') /\ Len(built') = Len(built)
    BY <1>1, <1>4, TopReplaced DEF Ready, Postfix, Wrap
  <2>3. current_ + 1 \in DOMAIN tokens_
    BY <1>1, <1>4 DEF Ready, IsAtEnd
  <2>4. Is(a, 1, 0)
    BY TaskFacts
  <2> HIDE DEF a
  <2>5. Fills(ts, 1, 1)
    BY <2>4, FillsOne DEF Is
  <2> HIDE DEF ts
  <2> QED BY <1>1, <2>1, <2>2, <2>3, <2>5, SameHeight
<1>5. CASE Peek \notin {"[", ".", "++", "--"}
  <2>1. Proceed(0, <<>>)
    BY <1>1, <1>5 DEF Postfix
  <2>2. IsSeq(built') /\ Len(built') = Len(built)
    BY <1>1, <1>5 DEF Ready, Postfix
  <2>3. current_ + 0 \in DOMAIN tokens_
    BY <1>1 DEF Ready
  <2>4. Fills(<<>>, 1, 1)
    BY FillsNothing
  <2> QED BY <1>1, <2>1, <2>2, <2>3, <2>4, SameHeight
<1> QED BY <1>2, <1>3, <1>4, <1>5

LEMMA ItemListStep == ASSUME IInv, ItemList PROVE IInv' /\ Resumes
<1>1. IInv /\ Ready("items", 1)
  BY UserReady DEF Users, ItemList
<1> DEFINE list == Head(todo)
<1>2. /\ IsItem(list.item) /\ IsDelimiter(list.type)
      /\ BodyTask(list) /\ Need(list) = 1 /\ Grow(list) = 0
  <2>1. StackInv /\ Step /\ Head(todo).do = "items"
    BY <1>1 DEF Ready, IInv
  <2> QED BY <2>1, HeadFacts, TaskKinds DEF Users
<1>3. CASE Peek = list.type
  <2> DEFINE a == Consume(list.type, list.code)
             ts == <<a>>
  <2>1. Proceed(0, ts)
    BY <1>1, <1>3 DEF ItemList
  <2>2. IsSeq(built') /\ Len(built') = Len(built)
    BY <1>1, <1>3 DEF Ready, ItemList
  <2>3. current_ + 0 \in DOMAIN tokens_
    BY <1>1 DEF Ready
  <2>4. Is(a, 0, 0)
    BY <1>2, ConsumeFacts DEF Is
  <2> HIDE DEF a
  <2>5. Fills(ts, 1, 1)
    BY <2>4, FillsOne DEF Is
  <2> HIDE DEF ts
  <2> QED BY <1>1, <2>1, <2>2, <2>3, <2>5, SameHeight
<1>4. CASE Peek # list.type
  <2> DEFINE a == Do(list.item)
             b == Do("add")
             c == MoreItems(list.item, list.type, list.code)
             ts == <<a, b, c>>
  <2>1. Proceed(0, ts)
    BY <1>1, <1>4 DEF ItemList
  <2>2. IsSeq(built') /\ Len(built') = Len(built)
    BY <1>1, <1>4 DEF Ready, ItemList
  <2>3. current_ + 0 \in DOMAIN tokens_
    BY <1>1 DEF Ready
  <2>4. Is(b, 2, -1)
    BY TaskFacts
  <2>5. Is(a, 0, 1) /\ Is(c, 1, 0)
    BY <1>2, ListFacts, MakerFacts DEF Is, IsItem, Makers
  <2> HIDE DEF a, b, c
  <2>6. Fills(ts, 1, 1)
    BY <2>4, <2>5, FillsThree DEF Is
  <2> HIDE DEF ts
  <2> QED BY <1>1, <2>1, <2>2, <2>3, <2>6, SameHeight
<1> QED BY <1>3, <1>4

LEMMA NextItemStep == ASSUME IInv, NextItem PROVE IInv' /\ Resumes
<1>1. IInv /\ Ready("more", 1)
  BY UserReady DEF Users, NextItem
<1> DEFINE list == Head(todo)
<1>2. /\ IsItem(list.item) /\ IsDelimiter(list.type)
      /\ BodyTask(list) /\ Need(list) = 1 /\ Grow(list) = 0
  <2>1. StackInv /\ Step /\ Head(todo).do = "more"
    BY <1>1 DEF Ready, IInv
  <2> QED BY <2>1, HeadFacts, TaskKinds DEF Users
<1>3. CASE Peek = ","
  <2> DEFINE a == Do(list.item)
             b == Do("add")
             c == list
             ts == <<a, b, c>>
  <2>1. Proceed(1, ts)
    BY <1>1, <1>3 DEF NextItem
  <2>2. IsSeq(built') /\ Len(built') = Len(built)
    BY <1>1, <1>3 DEF Ready, NextItem
  <2>3. current_ + 1 \in DOMAIN tokens_
    BY <1>1, <1>3 DEF Ready, IsAtEnd
  <2>4. Is(b, 2, -1)
    BY TaskFacts
  <2>5. Is(a, 0, 1) /\ Is(c, 1, 0)
    BY <1>2, MakerFacts DEF Is, IsItem, Makers
  <2> HIDE DEF a, b, c
  <2>6. Fills(ts, 1, 1)
    BY <2>4, <2>5, FillsThree DEF Is
  <2> HIDE DEF ts
  <2> QED BY <1>1, <2>1, <2>2, <2>3, <2>6, SameHeight
<1>4. CASE Peek # ","
  <2> DEFINE a == Consume(list.type, list.code)
             ts == <<a>>
  <2>1. Proceed(0, ts)
    BY <1>1, <1>4 DEF NextItem
  <2>2. IsSeq(built') /\ Len(built') = Len(built)
    BY <1>1, <1>4 DEF Ready, NextItem
  <2>3. current_ + 0 \in DOMAIN tokens_
    BY <1>1 DEF Ready
  <2>4. Is(a, 0, 0)
    BY <1>2, ConsumeFacts DEF Is
  <2> HIDE DEF a
  <2>5. Fills(ts, 1, 1)
    BY <2>4, FillsOne DEF Is
  <2> HIDE DEF ts
  <2> QED BY <1>1, <2>1, <2>2, <2>3, <2>5, SameHeight
<1> QED BY <1>3, <1>4

LEMMA ElementStep == ASSUME IInv, Element PROVE IInv' /\ Resumes
<1>1. IInv /\ Ready("element", 0)
  BY MakerReady DEF Makers, Element
<1>2. CASE Peek = "{"
  <2> DEFINE a == Items("element", "}", "expected_right_brace")
             ts == <<a>>
  <2>1. Proceed(1, ts)
    BY <1>1, <1>2 DEF Element, OpenList
  <2>2. IsSeq(built') /\ Len(built') = Len(built) + 1
    BY <1>1, <1>2, OneMore DEF Ready, Element, OpenList
  <2>3. current_ + 1 \in DOMAIN tokens_
    BY <1>1, <1>2 DEF Ready, IsAtEnd
  <2>4. Is(a, 1, 0)
    BY TaskFacts
  <2> HIDE DEF a
  <2>5. Fills(ts, 1, 1)
    BY <2>4, FillsOne DEF Is
  <2> HIDE DEF ts
  <2> QED BY <1>1, <2>1, <2>2, <2>3, <2>5, OneHigher
<1>3. CASE Peek # "{"
  <2> DEFINE a == Do("assignment")
             ts == <<a>>
  <2>1. Proceed(0, ts)
    BY <1>1, <1>3 DEF Element
  <2>2. IsSeq(built') /\ Len(built') = Len(built)
    BY <1>1, <1>3 DEF Ready, Element
  <2>3. current_ + 0 \in DOMAIN tokens_
    BY <1>1 DEF Ready
  <2>4. Is(a, 0, 1)
    BY TaskFacts
  <2> HIDE DEF a
  <2>5. Fills(ts, 0, 1)
    BY <2>4, FillsOne DEF Is
  <2> HIDE DEF ts
  <2> QED BY <1>1, <2>1, <2>2, <2>3, <2>5, SameHeight
<1> QED BY <1>2, <1>3

LEMMA PrimaryStep == ASSUME IInv, Primary PROVE IInv' /\ Resumes
<1>1. IInv /\ Ready("primary", 0)
  BY MakerReady DEF Makers, Primary
<1>2. CASE Peek \in {"num", "zero", "str", "true", "false"}
  <2>1. Proceed(1, <<>>)
    BY <1>1, <1>2 DEF Primary
  <2>2. IsSeq(built') /\ Len(built') = Len(built) + 1
    BY <1>1, <1>2, OneMore DEF Ready, Primary
  <2>3. current_ + 1 \in DOMAIN tokens_
    BY <1>1, <1>2 DEF Ready, IsAtEnd
  <2>4. Fills(<<>>, 1, 1)
    BY FillsNothing
  <2> QED BY <1>1, <2>1, <2>2, <2>3, <2>4, OneHigher
<1>3. CASE Peek = "huge"
  <2>1. Escape
    BY <1>3 DEF Primary
  <2> QED BY <1>1, <2>1, EscapeStep
<1>4. CASE Peek = "bad_str"
  <2>1. current_ + 1 \in DOMAIN tokens_
    BY <1>1, <1>4 DEF Ready, Numbers
  <2>2. current_ \in current_ .. current_ + 1
    BY TokenFacts DEF IInv, TokensInv
  <2>3. PICK code : Raise(current_, current_ + 1, code)
    BY <1>1, <1>4 DEF Primary
  <2>4. current_ + 1 = RaisedAt
    BY <1>1, <1>4, RaisedAtFacts DEF Ready
  <2> QED BY <1>1, <2>1, <2>2, <2>3, <2>4, RaiseStep DEF Ready, Outside
<1>5. CASE Peek = "id" /\ TokenAt(current_ + 1) = "("
  <2> DEFINE a == Items("assignment", ")", "expected_right_paren")
             ts == <<a>>
  <2>1. Proceed(2, ts)
    BY <1>1, <1>5 DEF Primary
  <2>2. IsSeq(built') /\ Len(built') = Len(built) + 1
    BY <1>1, <1>5, OneMore DEF Ready, Primary
  <2>3. current_ + 2 \in DOMAIN tokens_
    BY <1>1, <1>5 DEF Ready, IsAtEnd
  <2>4. Is(a, 1, 0)
    BY TaskFacts
  <2> HIDE DEF a
  <2>5. Fills(ts, 1, 1)
    BY <2>4, FillsOne DEF Is
  <2> HIDE DEF ts
  <2> QED BY <1>1, <2>1, <2>2, <2>3, <2>5, OneHigher
<1>6. CASE Peek = "id" /\ TokenAt(current_ + 1) # "("
  <2>1. Proceed(1, <<>>)
    BY <1>1, <1>6 DEF Primary
  <2>2. IsSeq(built') /\ Len(built') = Len(built) + 1
    BY <1>1, <1>6, OneMore DEF Ready, Primary
  <2>3. current_ + 1 \in DOMAIN tokens_
    BY <1>1, <1>6 DEF Ready, IsAtEnd
  <2>4. Fills(<<>>, 1, 1)
    BY FillsNothing
  <2> QED BY <1>1, <2>1, <2>2, <2>3, <2>4, OneHigher
<1>7. CASE Peek = "("
  <2> DEFINE a == Do("assignment")
             b == RightParen
             ts == <<a, b>>
  <2>1. Proceed(1, ts)
    BY <1>1, <1>7 DEF Primary
  <2>2. IsSeq(built') /\ Len(built') = Len(built)
    BY <1>1, <1>7 DEF Ready, Primary
  <2>3. current_ + 1 \in DOMAIN tokens_
    BY <1>1, <1>7 DEF Ready, IsAtEnd
  <2>4. Is(a, 0, 1) /\ Is(b, 0, 0)
    BY TaskFacts
  <2> HIDE DEF a, b
  <2>5. Fills(ts, 0, 1)
    BY <2>4, FillsTwo DEF Is
  <2> HIDE DEF ts
  <2> QED BY <1>1, <2>1, <2>2, <2>3, <2>5, SameHeight
<1>8. CASE Peek = "{"
  <2> DEFINE a == Items("element", "}", "expected_right_brace")
             ts == <<a>>
  <2>1. Proceed(1, ts)
    BY <1>1, <1>8 DEF Primary, OpenList
  <2>2. IsSeq(built') /\ Len(built') = Len(built) + 1
    BY <1>1, <1>8, OneMore DEF Ready, Primary, OpenList
  <2>3. current_ + 1 \in DOMAIN tokens_
    BY <1>1, <1>8 DEF Ready, IsAtEnd
  <2>4. Is(a, 1, 0)
    BY TaskFacts
  <2> HIDE DEF a
  <2>5. Fills(ts, 1, 1)
    BY <2>4, FillsOne DEF Is
  <2> HIDE DEF ts
  <2> QED BY <1>1, <2>1, <2>2, <2>3, <2>5, OneHigher
<1>9. CASE Peek \notin {"num", "zero", "str", "true", "false", "huge", "bad_str", "id", "(", "{"}
  <2>1. current_ \in DOMAIN tokens_ /\ current_ \in current_ .. current_
    BY TokenFacts DEF IInv, TokensInv
  <2>2. PICK code : Raise(current_, current_, code)
    BY <1>1, <1>9 DEF Primary
  <2>3. current_ = RaisedAt
    BY <1>1, <1>9, RaisedAtFacts DEF Ready
  <2> QED BY <1>1, <2>1, <2>2, <2>3, RaiseStep DEF Ready, Outside
<1> QED BY <1>2, <1>3, <1>4, <1>5, <1>6, <1>7, <1>8, <1>9

---------------------------------------------------------------------------
(* The theorems.                                                           *)

LEMMA InitStep == Init => IInv
<1> SUFFICES ASSUME NEW text \in Sources, Start(text) PROVE IInv
  BY DEF Init
<1>1. /\ tokens_ = Append(text, "eof") /\ current_ = 1 /\ sink = <<>>
      /\ todo = <<Do("parse")>> /\ Len(built) = 1 /\ IsSeq(built)
      /\ mode = "parsing"
  <2>1. built = <<Open("program")>> /\ <<Open("program")>> \in Seq({Open("program")})
    BY DEF Start
  <2>2. Len(<<Open("program")>>) = 1
    OBVIOUS
  <2> QED BY <2>1, <2>2 DEF Start, IsSeq
<1>2. TokensInv
  <2>1. text \in Seq(STRING \ {"eof", "outside"})
    BY ParserAssumption
  <2>2. IsSeq(text) /\ Len(text) \in Nat
    BY <2>1 DEF IsSeq
  <2>3. /\ IsSeq(tokens_) /\ Len(tokens_) = Len(text) + 1 /\ DOMAIN tokens_ = 1 .. Len(tokens_)
        /\ tokens_[Len(text) + 1] = "eof"
    BY <1>1, <2>2, AppendIsSeq, SeqFacts
  <2>4. tokens_ # <<>> /\ Last(tokens_) = "eof"
    BY <2>2, <2>3 DEF Last
  <2>5. ASSUME NEW i \in DOMAIN tokens_ PROVE tokens_[i] # "outside"
    <3>1. CASE i = Len(text) + 1
      BY <2>3, <3>1
    <3>2. CASE i # Len(text) + 1
      BY <1>1, <2>1, <2>3, <3>2
    <3> QED BY <3>1, <3>2
  <2>6. current_ \in DOMAIN tokens_
    BY <1>1, <2>2, <2>3
  <2> QED BY <2>3, <2>4, <2>5, <2>6 DEF TokensInv
<1>3. SinkInv
  BY <1>1 DEF SinkInv, IsSeq
<1>4. StackInv
  <2> DEFINE s == <<Do("parse")>>
             h == [i \in 1 .. 2 |-> 1]
  <2>1. Len(s) = 1 /\ s[1] = Do("parse") /\ s # <<>> /\ s \in Seq({Do("parse")})
    OBVIOUS
  <2>2. Do("parse").do = "parse"
    BY DEF Do, Task
  <2>3. Grow(Do("parse")) = 0 /\ Need(Do("parse")) = 1
    BY <2>2 DEF Grow, Need, Makers, Closers
  <2>4. h \in [1 .. Len(s) + 1 -> Int] /\ h[1] = 1 /\ h[2] = 1
    BY <2>1
  <2> HIDE DEF h, s
  <2>5. Heights(h, s)
    BY <2>1, <2>3, <2>4 DEF Heights
  <2>6. Placed(h, s, 1)
    BY <2>1, <2>2, <2>3, <2>4 DEF Placed, Outside
  <2>7. Runs(s, 1)
    BY <2>1, <2>4, <2>5, <2>6 DEF Runs
  <2>8. todo = s /\ Last(s) = Do("parse")
    BY <1>1, <2>1 DEF Last, s
  <2> QED BY <1>1, <2>1, <2>7, <2>8 DEF StackInv, IsSeq
<1> QED BY <1>1, <1>2, <1>3, <1>4 DEF IInv

LEMMA NextStep == IInv /\ [Next]_vars => IInv' /\ Resumes
<1> SUFFICES ASSUME IInv, [Next]_vars PROVE IInv' /\ Resumes
  OBVIOUS
<1>1. CASE ConsumeToken \/ Add \/ Parse \/ Declaration \/ LeaveDeclaration
  BY <1>1, ConsumeTokenStep, AddStep, ParseStep, DeclarationStep,
     LeaveDeclarationStep
<1>2. CASE StructOrVariable \/ StructFields \/ Declarator \/ Parameter \/ Initializer
  BY <1>2, StructOrVariableStep, StructFieldsStep, DeclaratorStep, ParameterStep,
     InitializerStep
<1>3. CASE ParseType \/ Dimensions \/ ArraySize \/ Statement \/ ForInitializer
  BY <1>3, ParseTypeStep, DimensionsStep, ArraySizeStep, StatementStep,
     ForInitializerStep
<1>4. CASE ForCondition \/ ForIncrement \/ ReturnValue \/ ElseBranch \/ OpenBlock
  BY <1>4, ForConditionStep, ForIncrementStep, ReturnValueStep, ElseBranchStep,
     OpenBlockStep
<1>5. CASE BlockStatement \/ Assignment \/ AssignmentTail \/ ParseExpression
  BY <1>5, BlockStatementStep, AssignmentStep, AssignmentTailStep, ParseExpressionStep
<1>6. CASE Unary \/ Postfix \/ ItemList \/ NextItem \/ Element \/ Primary
  BY <1>6, UnaryStep, PostfixStep, ItemListStep, NextItemStep, ElementStep, PrimaryStep
<1>7. CASE UNCHANGED vars
  <2>1. UNCHANGED <<tokens_, current_, todo, built, sink, mode>>
    BY <1>7 DEF vars
  <2>2. TokensInv' /\ StackInv'
    BY <2>1 DEF IInv, TokensInv, StackInv
  <2>3. SinkInv'
    BY <2>1 DEF IInv, SinkInv, TokenAt
  <2> QED BY <2>1, <2>2, <2>3 DEF IInv, IsAtEnd, Peek, TokenAt, Resumes
<1> QED BY <1>1, <1>2, <1>3, <1>4, <1>5, <1>6, <1>7 DEF Next

LEMMA TypeFollows == IInv => TypeOK
<1> SUFFICES ASSUME IInv PROVE TypeOK
  OBVIOUS
<1>1. /\ IsSeq(todo) /\ IsSeq(built) /\ IsSeq(sink)
      /\ DOMAIN todo = 1 .. Len(todo) /\ DOMAIN built = 1 .. Len(built)
      /\ DOMAIN sink = 1 .. Len(sink)
      /\ Len(todo) \in Nat /\ Len(built) \in Nat
  BY SeqFacts DEF IInv, StackInv, SinkInv
<1>2. PICK h : /\ Heights(h, todo) /\ h[1] = Len(built)
               /\ \A i \in 1 .. Len(todo) : Placed(h, todo, i)
  BY DEF IInv, StackInv, Runs
<1>3. ASSUME NEW i \in DOMAIN todo, todo[i].do = "catch"
      PROVE  todo[i].n \in DOMAIN built
  <2>1. i \in 1 .. Len(todo) /\ 1 \in 1 .. Len(todo)
    BY <1>1
  <2>2. todo[i].n \in Nat \ {0}
    BY <1>2, <1>3, <2>1, CatchFacts DEF Placed
  <2>3. h[1] >= todo[i].n + Need(todo[1])
    BY <1>1, <1>2, <1>3, <2>1 DEF Placed
  <2>4. Need(todo[1]) \in 0 .. 2
    BY DEF Need
  <2> QED BY <1>1, <1>2, <2>2, <2>3, <2>4
<1>4. ASSUME Step, Head(todo).do \notin {"parse", "declaration", "add"}
      PROVE  \E i \in DOMAIN todo : todo[i].do = "catch"
  <2>1. todo # <<>> /\ Head(todo) = todo[1] /\ 1 \in 1 .. Len(todo)
    BY <1>1, <1>4, TailIsSeq DEF Step
  <2>2. Placed(h, todo, 1)
    BY <1>2, <2>1
  <2>3. \E j \in 1 .. Len(todo) : todo[j].do = "catch"
    BY <1>4, <2>1, <2>2 DEF Placed, Outside
  <2> QED BY <1>1, <2>3
<1>5. current_ \in DOMAIN tokens_
  BY DEF IInv, TokensInv
<1>6. mode = "parsing" => todo # <<>> /\ Last(todo) = Do("parse")
  BY DEF IInv, StackInv
<1>7. \A i \in DOMAIN sink : sink[i].at \in 1 .. current_
  BY <1>1 DEF IInv, SinkInv
<1>8. /\ mode \in {"parsing", "parsed", "escaped"}
      /\ mode = "parsed" => IsAtEnd /\ Len(built) = 1
  BY DEF IInv
<1> QED BY <1>3, <1>4, <1>5, <1>6, <1>7, <1>8 DEF TypeOK

(* For every sequence of tokens the parser stays inside them, and each     *)
(* parse_error finds the declaration() that catches it, with the nodes     *)
(* that declaration() found still under construction.                      *)
THEOREM ParserTypeCorrect == Spec => []TypeOK
<1>1. Init => IInv
  BY InitStep
<1>2. IInv /\ [Next]_vars => IInv'
  BY NextStep
<1>3. IInv => TypeOK
  BY TypeFollows
<1> QED BY <1>1, <1>2, <1>3, PTL DEF Spec

(* No token but the end is reported twice, and reports come in the order   *)
(* of the source, because synchronize() goes past what was reported.       *)
THEOREM ParserReportsAdvance == Spec => []ReportsAdvance
<1>1. Init => IInv
  BY InitStep
<1>2. IInv /\ [Next]_vars => IInv'
  BY NextStep
<1>3. IInv => ReportsAdvance
  BY DEF IInv, SinkInv, ReportsAdvance
<1> QED BY <1>1, <1>2, <1>3, PTL DEF Spec

(* On every text, wherever the error is, recovery passes blocks as a whole *)
(* and leaves no block but the one it is in (synchronize()).               *)
THEOREM ParserRecoveryKeepsNesting == Spec => RecoveryKeepsNesting
<1>1. Init => IInv
  BY InitStep
<1>2. IInv /\ [Next]_vars => IInv'
  BY NextStep
<1>3. IInv /\ [Next]_vars => [Resumes]_vars
  BY NextStep
<1>4. Spec => [][Resumes]_vars
  BY <1>1, <1>2, <1>3, PTL DEF Spec
<1> QED BY <1>4 DEF RecoveryKeepsNesting, Resumes, KeepsNesting
=============================================================================
