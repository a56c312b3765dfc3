------------------------- MODULE TypeChecker_proofs -------------------------
(***************************************************************************)
(* Theorems about the type checker for every table of nodes the parser can *)
(* build and every program over it.                                        *)
(*                                                                         *)
(* Scopes (CInv): each task on the stack is the check of a node or a       *)
(* scope_guard; what a handler puts on the stack holds a scope_guard       *)
(* exactly when it opens a scope.  What the expressions' types are plays   *)
(* no part: only that a redeclaration gives none.                          *)
(*                                                                         *)
(* Acceptance (XInv): if every task on the stack is supplied, that is if   *)
(* the variables it uses are in the table it will find, then the program   *)
(* is closed.  A handler that reports nothing has found the variables of   *)
(* its own expressions, so the old stack is supplied if the new one is;    *)
(* the empty stack is.  That an expression with a type has been looked at  *)
(* to the end, and that one without has been reported, is ExpressionsSound,*)
(* by induction over the height of a node; that no struct of a program     *)
(* whose types are known is lost on the way, by induction over its rank.   *)
(* Progress says which statements are done, and that the symbols of the    *)
(* global scope are those that they declare.                               *)
(***************************************************************************)
EXTENDS TypeChecker, ScopeEntries_proofs

TaskSet ==
  [do : {"check"}, node : DOMAIN Ast]
  \cup [do : {"head"}, node : {n \in DOMAIN Ast : Ast[n].kind = "for"}]
  \cup {ScopeGuard}

Guards(s) == CountIn(s, {ScopeGuard})

(* Two entries of one name and depth are parameters of one function.       *)
NoneTwice(es) ==
  \A i, j \in DOMAIN es :
     /\ i < j /\ es[i].name = es[j].name
     /\ es[i].scope_depth = es[j].scope_depth
     => ParameterTwice(es[j].name)

Symbols(es, d) == IsTable(es) /\ Sorted(es, d) /\ NoneTwice(es)

CInv ==
  /\ todo \in Seq(TaskSet)
  /\ symbols_depth = Guards(todo)
  /\ Symbols(symbols_, symbols_depth)

---------------------------------------------------------------------------
(* The nodes: what each kind has for children.                             *)

Expr == OfKind(Ast, ExpressionKinds)
Branch == OfKind(Ast, BranchKinds)

LEMMA KindFacts ==
  /\ Expr \subseteq DOMAIN Ast /\ Branch \subseteq DOMAIN Ast
  /\ None \notin DOMAIN Ast
  /\ \A n \in Expr : Ast[n].kind \in ExpressionKinds
  /\ \A n \in Branch : Ast[n].kind \in BranchKinds
BY AstAssumption DEF Expr, Branch, OfKind, WellFormed

LEMMA KidsKind ==
  ASSUME NEW n \in DOMAIN Ast
  PROVE  /\ Ast[n].kids \in Children(Ast, Ast[n].kind)
         /\ Ast[n].kind \in ExpressionKinds \cup StatementKinds \cup {"builtin"}
BY AstAssumption DEF WellFormed

LEMMA LeafShape ==
  ASSUME NEW n \in DOMAIN Ast,
         Ast[n].kind \in {"literal", "variable", "struct", "builtin"}
  PROVE  Ast[n].kids = <<>>
BY KidsKind DEF Children

LEMMA OneShape ==
  ASSUME NEW n \in DOMAIN Ast,
         Ast[n].kind \in {"unary", "postfix", "member", "expression"}
  PROVE  DOMAIN Ast[n].kids = {1} /\ Ast[n].kids[1] \in Expr
<1>1. Ast[n].kids \in [1 .. 1 -> Expr]
  BY KidsKind, Zenon DEF Children, Expr
<1> QED BY <1>1

LEMMA TwoShape ==
  ASSUME NEW n \in DOMAIN Ast,
         Ast[n].kind \in {"binary", "assignment", "index"}
  PROVE  /\ DOMAIN Ast[n].kids = {1, 2}
         /\ Ast[n].kids[1] \in Expr /\ Ast[n].kids[2] \in Expr
<1>1. Ast[n].kids \in Expr \X Expr
  BY KidsKind DEF Children, Expr
<1> QED BY <1>1

LEMMA ListShape ==
  ASSUME NEW n \in DOMAIN Ast, Ast[n].kind \in {"call", "list"}
  PROVE  Ast[n].kids \in Seq(Expr)
BY KidsKind DEF Children, Expr

LEMMA MaybeShape ==
  ASSUME NEW n \in DOMAIN Ast, Ast[n].kind \in {"var", "return"}
  PROVE  DOMAIN Ast[n].kids = {1} /\ Ast[n].kids[1] \in Expr \cup {None}
<1>1. Ast[n].kids \in [1 .. 1 -> Expr \cup {None}]
  BY KidsKind DEF Children, Expr, Optional
<1> QED BY <1>1

LEMMA BlockShape ==
  ASSUME NEW n \in DOMAIN Ast, Ast[n].kind = "block"
  PROVE  Ast[n].kids \in Seq(DOMAIN Ast)
<1>1. Ast[n].kids \in Seq(OfKind(Ast, StatementKinds))
  BY KidsKind DEF Children
<1>2. OfKind(Ast, StatementKinds) \subseteq DOMAIN Ast
  BY DEF OfKind
<1> QED BY <1>1, <1>2

LEMMA LoopShape ==
  ASSUME NEW n \in DOMAIN Ast, Ast[n].kind \in {"while", "for"}
  PROVE  /\ DOMAIN Ast[n].kids = {1, 2, 3, 4}
         /\ Ast[n].kids[1] \in DOMAIN Ast \cup {None}
         /\ Ast[n].kids[2] \in Expr \cup {None}
         /\ Ast[n].kids[3] \in Expr \cup {None}
         /\ Ast[n].kids[4] \in Branch
         /\ Ast[n].kind = "while" =>
              /\ Ast[n].kids[1] = None /\ Ast[n].kids[3] = None
              /\ Ast[n].kids[2] \in Expr
<1>1. CASE Ast[n].kind = "while"
  <2>1. Ast[n].kids \in {None} \X Expr \X {None} \X Branch
    BY <1>1, KidsKind DEF Children, Expr, Branch
  <2> QED BY <1>1, <2>1
<1>2. CASE Ast[n].kind = "for"
  <2> DEFINE First == OfKind(Ast, BranchKinds \cup {"var"})
  <2>1. Ast[n].kids \in
          (First \cup {None}) \X (Expr \cup {None}) \X (Expr \cup {None}) \X Branch
    BY <1>2, KidsKind DEF Children, Expr, Branch, Optional
  <2>2. First \subseteq DOMAIN Ast
    BY DEF OfKind
  <2> QED BY <1>2, <2>1, <2>2
<1> QED BY <1>1, <1>2

LEMMA IfShape ==
  ASSUME NEW n \in DOMAIN Ast, Ast[n].kind = "if"
  PROVE  /\ DOMAIN Ast[n].kids = {1, 2, 3} /\ Ast[n].kids[1] \in Expr
         /\ Ast[n].kids[2] \in Branch /\ Ast[n].kids[3] \in Branch \cup {None}
<1>1. Ast[n].kids \in Expr \X Branch \X (Branch \cup {None})
  BY KidsKind DEF Children, Expr, Branch, Optional
<1> QED BY <1>1

LEMMA FuncShape ==
  ASSUME NEW n \in DOMAIN Ast, Ast[n].kind = "func"
  PROVE  /\ DOMAIN Ast[n].kids = {1} /\ Ast[n].kids[1] \in DOMAIN Ast
         /\ Ast[Ast[n].kids[1]].kind = "block"
         /\ Ast[Ast[n].kids[1]].kids \in Seq(DOMAIN Ast)
<1>1. Ast[n].kids \in [1 .. 1 -> OfKind(Ast, {"block"})]
  BY KidsKind, Zenon DEF Children
<1>2. DOMAIN Ast[n].kids = {1} /\ Ast[n].kids[1] \in OfKind(Ast, {"block"})
  BY <1>1
<1> QED BY <1>2, BlockShape DEF OfKind

LEMMA ParamShape ==
  ASSUME NEW n \in DOMAIN Ast
  PROVE  Ast[n].params \in Seq([name : STRING, type : WrittenTypes])
BY AstAssumption DEF WellFormed

LEMMA ProgramShape ==
  ASSUME NEW prog \in Programs
  PROVE  prog \in Seq(DOMAIN Ast)
<1>1. prog \in Seq(OfKind(Ast, StatementKinds))
  BY AstAssumption
<1>2. OfKind(Ast, StatementKinds) \subseteq DOMAIN Ast
  BY DEF OfKind
<1> QED BY <1>1, <1>2

---------------------------------------------------------------------------
(* The table.                                                              *)

LEMMA EnterSymbols ==
  ASSUME NEW es, NEW d \in Nat, Symbols(es, d) PROVE Symbols(es, d + 1)
<1>1. \A i \in DOMAIN es : es[i].scope_depth \in Nat
  BY TableFacts DEF Symbols
<1> QED BY <1>1 DEF Symbols, Sorted

LEMMA LeaveSymbols ==
  ASSUME NEW es, NEW d \in Nat \ {0}, Symbols(es, d)
  PROVE  Symbols(PopEntries(es, d), d - 1)
<1> DEFINE fs == PopEntries(es, d)
<1>1. /\ IsTable(fs) /\ Sorted(fs, d - 1)
      /\ SameSlots(es, fs) /\ DOMAIN fs \subseteq DOMAIN es
  BY PopTable DEF Symbols
<1> HIDE DEF fs
<1>2. NoneTwice(fs)
  BY <1>1 DEF SameSlots, NoneTwice, Symbols
<1> QED BY <1>1, <1>2 DEF Symbols, fs

LEMMA DefineSymbols ==
  ASSUME NEW es, NEW d \in Nat, Symbols(es, d), NEW name, NEW value,
         ~ DeclaredInCurrentScope(es, d, name)
  PROVE  Symbols(DefineEntry(es, d, name, value), d)
<1> DEFINE new == <<Entry(name, value, d)>>
           fs == es \o new
<1>1. IsTable(es) /\ Sorted(es, d) /\ NoneTwice(es)
  BY DEF Symbols
<1>2. /\ IsTable(new) /\ DOMAIN new = {1} /\ new[1].name = name
      /\ new[1].scope_depth = d
  <2>1. IsTable(new)
    BY EntryTable
  <2>2. DOMAIN new = {1} /\ new[1] = Entry(name, value, d)
    OBVIOUS
  <2> HIDE DEF new
  <2> QED BY <2>1, <2>2 DEF Entry
<1> HIDE DEF new
<1>3. /\ IsTable(fs) /\ Sorted(fs, d) /\ SameSlots(es, fs)
  BY <1>1, <1>2, ExtendTable
<1>4. \A i \in DOMAIN fs :
        \/ i \in DOMAIN es /\ fs[i] = es[i]
        \/ i > Len(es) /\ i - Len(es) = 1 /\ fs[i] = new[1]
  BY <1>1, <1>2, ConcatTable
<1>5. /\ DOMAIN es = 1 .. Len(es) /\ Len(es) \in Nat
      /\ DOMAIN fs = 1 .. Len(fs) /\ Len(fs) \in Nat
      /\ \A i \in DOMAIN es : es[i].scope_depth \in Nat
  BY <1>1, <1>3, TableFacts
<1> HIDE DEF fs
<1>6. ASSUME NEW i \in DOMAIN fs, NEW j \in DOMAIN fs, i < j,
             fs[i].name = fs[j].name, fs[i].scope_depth = fs[j].scope_depth
      PROVE  ParameterTwice(fs[j].name)
  <2>1. CASE j \in DOMAIN es
    <3>1. i \in DOMAIN es
      BY <1>5, <1>6, <2>1
    <3> QED BY <1>1, <1>4, <1>5, <1>6, <2>1, <3>1 DEF NoneTwice
  <2>2. CASE j \notin DOMAIN es
    <3>1. j - Len(es) = 1 /\ fs[j] = new[1]
      BY <1>4, <2>2
    <3>2. i \in DOMAIN es /\ fs[i] = es[i]
      BY <1>4, <1>5, <1>6, <3>1
    <3>3. es[i].name = name /\ es[i].scope_depth >= d
      BY <1>2, <1>5, <1>6, <3>1, <3>2
    <3> QED BY <3>2, <3>3 DEF DeclaredInCurrentScope
  <2> QED BY <2>1, <2>2
<1>7. NoneTwice(fs)
  BY <1>6 DEF NoneTwice
<1>8. DefineEntry(es, d, name, value) = fs
  BY <1>1, DefineIsConcat DEF fs, new
<1> QED BY <1>3, <1>7, <1>8 DEF Symbols

LEMMA ParameterTable ==
  ASSUME NEW n \in DOMAIN Ast, NEW d \in Nat
  PROVE  IsTable([i \in DOMAIN Ast[n].params |->
                    Entry(Ast[n].params[i].name, Ast[n].params[i].type, d)])
<1> DEFINE ps == Ast[n].params
           new == [i \in DOMAIN ps |-> Entry(ps[i].name, ps[i].type, d)]
           N == {ps[i].name : i \in DOMAIN ps}
           V == {ps[i].type : i \in DOMAIN ps}
           S == EntriesOver(N, V)
<1>1. Len(ps) \in Nat /\ DOMAIN ps = 1 .. Len(ps)
  BY ParamShape
<1> HIDE DEF ps
<1>2. \A i \in DOMAIN ps : Entry(ps[i].name, ps[i].type, d) \in S
  BY DEF Entry, EntriesOver
<1> HIDE DEF S
<1>3. new \in [1 .. Len(ps) -> S]
  BY <1>1, <1>2
<1>4. new \in Seq(S)
  <2> HIDE DEF new
  <2> QED BY <1>1, <1>3
<1> HIDE DEF new, N, V
<1>5. IsTable(new)
  BY <1>4 DEF S, IsTable
<1> QED BY <1>5 DEF new, ps

(* The parameters of a function, in the scope of its own.                  *)
LEMMA ParameterSymbols ==
  ASSUME NEW es, NEW d \in Nat, Symbols(es, d),
         NEW n \in DOMAIN Ast, Ast[n].kind = "func"
  PROVE  Symbols(es \o [i \in DOMAIN Ast[n].params |->
                          Entry(Ast[n].params[i].name, Ast[n].params[i].type,
                                d + 1)],
                 d + 1)
<1> DEFINE ps == Ast[n].params
           new == [i \in DOMAIN ps |-> Entry(ps[i].name, ps[i].type, d + 1)]
           fs == es \o new
<1>1. IsTable(es) /\ Sorted(es, d) /\ NoneTwice(es)
  BY DEF Symbols
<1>2. Len(ps) \in Nat /\ DOMAIN ps = 1 .. Len(ps)
  BY ParamShape
<1> HIDE DEF ps
<1>3. /\ DOMAIN new = DOMAIN ps
      /\ \A i \in DOMAIN ps : /\ new[i].name = ps[i].name
                              /\ new[i].scope_depth = d + 1
  BY DEF Entry
<1>4. IsTable(new)
  <2>1. d + 1 \in Nat
    OBVIOUS
  <2> QED BY <2>1, ParameterTable, Zenon DEF ps
<1> HIDE DEF new
<1>5. IsTable(fs) /\ Sorted(fs, d + 1)
  <2>1. d + 1 \in Nat /\ d <= d + 1
    OBVIOUS
  <2> QED BY <1>1, <1>3, <1>4, <2>1, ExtendTable
<1>6. \A i \in DOMAIN fs :
        \/ i \in DOMAIN es /\ fs[i] = es[i]
        \/ i > Len(es) /\ i - Len(es) \in DOMAIN ps /\ fs[i] = new[i - Len(es)]
  BY <1>1, <1>3, <1>4, ConcatTable
<1>7. /\ DOMAIN es = 1 .. Len(es) /\ Len(es) \in Nat
      /\ DOMAIN fs = 1 .. Len(fs) /\ Len(fs) \in Nat
      /\ \A i \in DOMAIN es : es[i].scope_depth \in Nat
  BY <1>1, <1>5, TableFacts
<1> HIDE DEF fs
<1>8. ASSUME NEW i \in DOMAIN fs, NEW j \in DOMAIN fs, i < j,
             fs[i].name = fs[j].name, fs[i].scope_depth = fs[j].scope_depth
      PROVE  ParameterTwice(fs[j].name)
  <2>1. CASE j \in DOMAIN es
    <3>1. i \in DOMAIN es
      BY <1>7, <1>8, <2>1
    <3> QED BY <1>1, <1>6, <1>7, <1>8, <2>1, <3>1 DEF NoneTwice
  <2>2. CASE j \notin DOMAIN es
    <3>1. /\ j - Len(es) \in DOMAIN ps /\ fs[j] = new[j - Len(es)]
          /\ fs[j].scope_depth = d + 1
      BY <1>3, <1>6, <2>2
    <3>2. i \notin DOMAIN es
      <4>1. CASE i \in DOMAIN es
        <5>1. es[i].scope_depth <= d /\ fs[i] = es[i]
          BY <1>1, <1>6, <1>7, <4>1 DEF Sorted
        <5> QED BY <1>7, <1>8, <3>1, <4>1, <5>1
      <4> QED BY <4>1
    <3>3. i - Len(es) \in DOMAIN ps /\ fs[i] = new[i - Len(es)]
      BY <1>6, <3>2
    <3>4. i - Len(es) < j - Len(es)
      BY <1>7, <1>8
    <3>5. /\ ps[i - Len(es)].name = fs[j].name
          /\ ps[j - Len(es)].name = fs[j].name
      BY <1>3, <1>8, <3>1, <3>3
    <3> QED BY <3>1, <3>3, <3>4, <3>5 DEF ParameterTwice, ps
  <2> QED BY <2>1, <2>2
<1>9. NoneTwice(fs)
  BY <1>8 DEF NoneTwice
<1> QED BY <1>5, <1>9 DEF Symbols, fs, new, ps

---------------------------------------------------------------------------
(* The stack.                                                              *)

LEMMA CheckTask ==
  ASSUME NEW n \in DOMAIN Ast
  PROVE  Check(n) \in TaskSet /\ Check(n) # ScopeGuard
BY DEF Check, TaskSet, ScopeGuard

LEMMA TasksOfNodes ==
  ASSUME NEW nodes \in Seq(DOMAIN Ast)
  PROVE  Tasks(nodes) \in Seq(TaskSet) /\ Guards(Tasks(nodes)) = 0
<1> DEFINE t == Tasks(nodes)
           n == Len(nodes)
<1>1. n \in Nat /\ \A i \in 1 .. n : nodes[n + 1 - i] \in DOMAIN Ast
  OBVIOUS
<1>2. \A i \in 1 .. n : t[i] \in TaskSet /\ t[i] # ScopeGuard
  BY <1>1, CheckTask DEF Tasks
<1>3. t \in [1 .. n -> TaskSet]
  BY <1>1, CheckTask DEF Tasks
<1> HIDE DEF t
<1>4. t \in Seq(TaskSet) /\ DOMAIN t = 1 .. n
  BY <1>1, <1>3
<1>5. {i \in DOMAIN t : t[i] \in {ScopeGuard}} = {}
  BY <1>2, <1>4
<1>6. Guards(t) = 0
  BY <1>5, FS_EmptySet DEF Guards, CountIn
<1> QED BY <1>4, <1>6 DEF t

LEMMA OneTask ==
  ASSUME NEW task \in TaskSet
  PROVE  /\ <<task>> \in Seq(TaskSet)
         /\ Guards(<<task>>) = IF task = ScopeGuard THEN 1 ELSE 0
<1>1. <<>> \in Seq(TaskSet) /\ <<task>> = Append(<<>>, task)
  OBVIOUS
<1>2. CountIn(Append(<<>>, task), {ScopeGuard}) =
        CountIn(<<>>, {ScopeGuard}) + (IF task \in {ScopeGuard} THEN 1 ELSE 0)
  BY <1>1, CountAppend
<1>3. CountIn(<<>>, {ScopeGuard}) = 0
  BY CountEmpty
<1>4. Guards(<<task>>) = IF task = ScopeGuard THEN 1 ELSE 0
  BY <1>1, <1>2, <1>3 DEF Guards
<1> QED BY <1>4

LEMMA NoTasks == <<>> \in Seq(TaskSet) /\ Guards(<<>>) = 0
BY CountEmpty DEF Guards

LEMMA MoreTasks ==
  ASSUME NEW s \in Seq(TaskSet), NEW t \in Seq(TaskSet)
  PROVE  /\ s \o t \in Seq(TaskSet)
         /\ Guards(s \o t) = Guards(s) + Guards(t)
         /\ Guards(s) \in Nat
<1> DEFINE F == {ScopeGuard}
<1> HIDE DEF F
<1>1. CountIn(s \o t, F) = CountIn(s, F) + CountIn(t, F)
  BY CountConcat
<1>2. CountIn(s, F) \in Nat
  BY CountType
<1>3. s \o t \in Seq(TaskSet)
  OBVIOUS
<1> QED BY <1>1, <1>2, <1>3 DEF Guards, F

LEMMA JoinThree ==
  ASSUME NEW s \in Seq(TaskSet), NEW t \in Seq(TaskSet), NEW u \in Seq(TaskSet)
  PROVE  (s \o t) \o u = s \o (t \o u)
BY ConcatAssociative

(* A scope_guard under the tasks of the scope it closes.                    *)
LEMMA GuardedTasks ==
  ASSUME NEW rest \in Seq(TaskSet), Guards(rest) = 0
  PROVE  /\ <<ScopeGuard>> \o rest \in Seq(TaskSet)
         /\ Guards(<<ScopeGuard>> \o rest) = 1
<1>1. ScopeGuard \in TaskSet
  BY DEF TaskSet
<1>2. <<ScopeGuard>> \in Seq(TaskSet) /\ Guards(<<ScopeGuard>>) = 1
  BY <1>1, OneTask
<1> HIDE DEF ScopeGuard
<1>3. /\ <<ScopeGuard>> \o rest \in Seq(TaskSet)
      /\ Guards(<<ScopeGuard>> \o rest) = Guards(<<ScopeGuard>>) + Guards(rest)
  BY <1>2, MoreTasks
<1> QED BY <1>2, <1>3

(* A handler takes its own task off the stack and puts others on it.       *)
LEMMA ContinueGuards ==
  ASSUME todo \in Seq(TaskSet), todo # <<>>, NEW tasks \in Seq(TaskSet),
         Continue(tasks)
  PROVE  /\ todo' \in Seq(TaskSet)
         /\ Guards(todo') = Guards(todo) + Guards(tasks)
                              - (IF Task = ScopeGuard THEN 1 ELSE 0)
         /\ Guards(todo) \in Nat /\ Guards(tasks) \in Nat
         /\ Task = ScopeGuard => Guards(todo) # 0
<1>1. Front(todo) \in Seq(TaskSet)
  BY FrontLast
<1>2. /\ Guards(todo) = Guards(Front(todo)) + (IF Task = ScopeGuard THEN 1 ELSE 0)
      /\ Guards(Front(todo)) \in Nat /\ Guards(tasks) \in Nat
  <2>1. CountIn(todo, {ScopeGuard}) =
          CountIn(Front(todo), {ScopeGuard})
            + (IF Last(todo) \in {ScopeGuard} THEN 1 ELSE 0)
    BY CountFront
  <2> QED BY <1>1, <2>1, MoreTasks DEF Guards, Task
<1>3. /\ Front(todo) \o tasks \in Seq(TaskSet)
      /\ Guards(Front(todo) \o tasks) = Guards(Front(todo)) + Guards(tasks)
  BY <1>1, MoreTasks
<1> QED BY <1>2, <1>3 DEF Continue

---------------------------------------------------------------------------
(* The handlers.  What each adds to the stack, and what it does to the     *)
(* table, are put together by ContinueKeeps.                               *)

Ready == CInv /\ todo # <<>>

LEMMA ReadyFacts ==
  ASSUME Ready
  PROVE  /\ symbols_depth \in Nat /\ Task \in TaskSet
         /\ Task.do = "leave" <=> Task = ScopeGuard
         /\ Task.do # "leave" => Task.node \in DOMAIN Ast
         /\ Task.do = "head" => Ast[Task.node].kind = "for"
<1>1. Task \in TaskSet
  BY FrontLast DEF Ready, CInv, Task
<1>2. symbols_depth \in Nat
  BY CountType DEF Ready, CInv, Guards
<1> QED BY <1>1, <1>2 DEF TaskSet, ScopeGuard

LEMMA ContinueKeeps ==
  ASSUME Ready, NEW tasks \in Seq(TaskSet), Continue(tasks), Task # ScopeGuard,
         symbols_depth' = symbols_depth + Guards(tasks),
         Symbols(symbols_', symbols_depth')
  PROVE  CInv'
<1>1. todo' \in Seq(TaskSet) /\ symbols_depth' = Guards(todo')
  BY ContinueGuards DEF Ready, CInv
<1> QED BY <1>1
        DEF CInv, TaskSet, Guards, CountIn, Symbols, IsTable, Sorted, NoneTwice,
            ParameterTwice

(* The handlers that open no scope and declare nothing.                    *)
LEMMA PlainKeeps ==
  ASSUME Ready, Task.do # "leave", NEW tasks \in Seq(TaskSet), Continue(tasks),
         Guards(tasks) = 0, SameScopes
  PROVE  CInv'
<1>1. symbols_depth \in Nat /\ Task # ScopeGuard
  BY ReadyFacts
<1>2. symbols_depth' = symbols_depth + Guards(tasks)
  BY <1>1 DEF SameScopes
<1>3. Symbols(symbols_', symbols_depth')
  BY DEF SameScopes, Ready, CInv, Symbols
<1> QED BY <1>1, <1>2, <1>3, ContinueKeeps

(* And those that open one, whose guard is the first of their tasks.       *)
LEMMA EnterKeeps ==
  ASSUME Ready, Task.do # "leave", NEW rest \in Seq(TaskSet), Guards(rest) = 0,
         Continue(<<ScopeGuard>> \o rest), Enter, UNCHANGED symbols_
  PROVE  CInv'
<1>1. symbols_depth \in Nat /\ Task # ScopeGuard
  BY ReadyFacts
<1>2. /\ <<ScopeGuard>> \o rest \in Seq(TaskSet)
      /\ Guards(<<ScopeGuard>> \o rest) = 1
  BY GuardedTasks
<1>3. Symbols(symbols_', symbols_depth')
  BY <1>1, EnterSymbols DEF Enter, Ready, CInv
<1> QED BY <1>1, <1>2, <1>3, ContinueKeeps DEF Enter

LEMMA NodeFacts ==
  ASSUME Ready, Task.do # "leave"
  PROVE  /\ Node.kind = "block" => Node.kids \in Seq(DOMAIN Ast)
         /\ Node.kind \in {"while", "for"} =>
              /\ Kid(4) \in DOMAIN Ast
              /\ Has(1) => Kid(1) \in DOMAIN Ast
         /\ Node.kind = "if" =>
              /\ Kid(2) \in DOMAIN Ast
              /\ Has(3) => Kid(3) \in DOMAIN Ast
         /\ Node.kind = "func" =>
              Kid(1) \in DOMAIN Ast /\ Ast[Kid(1)].kids \in Seq(DOMAIN Ast)
<1>1. Task.node \in DOMAIN Ast
  BY ReadyFacts
<1>2. Node.kind = "block" => Node.kids \in Seq(DOMAIN Ast)
  BY <1>1, BlockShape DEF Node
<1>3. Node.kind \in {"while", "for"} =>
        Kid(4) \in DOMAIN Ast /\ (Has(1) => Kid(1) \in DOMAIN Ast)
  BY <1>1, LoopShape, KindFacts DEF Node, Kid, Has
<1>4. Node.kind = "if" =>
        Kid(2) \in DOMAIN Ast /\ (Has(3) => Kid(3) \in DOMAIN Ast)
  BY <1>1, IfShape, KindFacts DEF Node, Kid, Has
<1>5. Node.kind = "func" =>
        Kid(1) \in DOMAIN Ast /\ Ast[Kid(1)].kids \in Seq(DOMAIN Ast)
  BY <1>1, FuncShape DEF Node, Kid
<1> QED BY <1>2, <1>3, <1>4, <1>5

LEMMA OnCheckFacts ==
  ASSUME NEW kind, OnCheck(kind)
  PROVE  todo # <<>> /\ Task.do # "leave" /\ Node.kind = kind
BY DEF OnCheck

LEMMA SimpleKeeps ==
  ASSUME CInv, CheckExpression \/ CheckReturn \/ CheckStruct PROVE CInv'
<1>1. /\ Ready /\ Task.do # "leave" /\ Continue(<<>>) /\ SameScopes
  BY OnCheckFacts DEF CheckExpression, CheckReturn, CheckStruct, Ready
<1> QED BY <1>1, NoTasks, PlainKeeps

(* A name that is declared in the scope gets no type.                      *)
LEMMA RedeclarationUnknown ==
  ASSUME DeclaredInCurrentScope(symbols_, symbols_depth, Node.name)
  PROVE  IsUnknown(VarResult)
<1>1. \A codes : IsUnknown(Untyped(codes))
  BY DEF IsUnknown, Untyped, Typed
<1> HIDE DEF IsUnknown
<1> QED BY <1>1, Zenon DEF VarResult

LEMMA VarKeeps == ASSUME CInv, CheckVar PROVE CInv'
<1>1. Ready /\ Task.do # "leave"
  BY OnCheckFacts DEF CheckVar, Ready
<1>2. symbols_depth \in Nat /\ Task # ScopeGuard /\ symbols_depth' = symbols_depth
  BY <1>1, ReadyFacts DEF CheckVar
<1>3. Symbols(symbols_', symbols_depth)
  <2>1. CASE IsUnknown(VarResult)
    BY <2>1 DEF CheckVar, CInv, Symbols
  <2>2. CASE ~ IsUnknown(VarResult)
    <3>1. ~ DeclaredInCurrentScope(symbols_, symbols_depth, Node.name)
      BY <2>2, RedeclarationUnknown
    <3>2. symbols_' = DefineEntry(symbols_, symbols_depth, Node.name, VarResult.type)
      BY <2>2 DEF CheckVar, Declare
    <3> QED BY <1>2, <3>1, <3>2, DefineSymbols DEF CInv
  <2> QED BY <2>1, <2>2
<1>4. Continue(<<>>) /\ symbols_depth' = symbols_depth + Guards(<<>>)
  BY <1>2, NoTasks DEF CheckVar
<1>5. Symbols(symbols_', symbols_depth')
  BY <1>2, <1>3
<1> QED BY <1>1, <1>2, <1>4, <1>5, NoTasks, ContinueKeeps

LEMMA BlockKeeps == ASSUME CInv, CheckBlock PROVE CInv'
<1>1. Ready /\ Task.do # "leave" /\ Node.kind = "block"
  BY OnCheckFacts DEF CheckBlock, Ready
<1>2. Tasks(Node.kids) \in Seq(TaskSet) /\ Guards(Tasks(Node.kids)) = 0
  BY <1>1, NodeFacts, TasksOfNodes
<1>3. CASE HasDeclarations
  BY <1>1, <1>2, <1>3, EnterKeeps DEF CheckBlock, BlockGuard
<1>4. CASE ~ HasDeclarations
  <2>1. Continue(<<>> \o Tasks(Node.kids)) /\ SameScopes
    BY <1>4 DEF CheckBlock, BlockGuard, SameScopes
  <2>2. /\ <<>> \o Tasks(Node.kids) \in Seq(TaskSet)
        /\ Guards(<<>> \o Tasks(Node.kids)) = 0
    BY <1>2, NoTasks, MoreTasks
  <2> QED BY <1>1, <2>1, <2>2, PlainKeeps
<1> QED BY <1>3, <1>4

LEMMA WhileKeeps == ASSUME CInv, CheckWhile PROVE CInv'
<1>1. Ready /\ Task.do # "leave" /\ Node.kind = "while"
  BY OnCheckFacts DEF CheckWhile, Ready
<1> DEFINE rest == <<Check(Kid(4))>>
<1>2. rest \in Seq(TaskSet) /\ Guards(rest) = 0
  BY <1>1, NodeFacts, CheckTask, OneTask
<1>3. Continue(<<ScopeGuard>> \o rest) /\ Enter /\ UNCHANGED symbols_
  <2>1. <<ScopeGuard, Check(Kid(4))>> = <<ScopeGuard>> \o rest
    OBVIOUS
  <2> QED BY <2>1 DEF CheckWhile
<1> HIDE DEF rest
<1> QED BY <1>1, <1>2, <1>3, EnterKeeps

LEMMA ForKeeps == ASSUME CInv, CheckFor PROVE CInv'
<1> DEFINE head == <<ForHead(Task.node)>>
           init == IF Has(1) THEN <<Check(Kid(1))>> ELSE <<>>
<1>1. Ready /\ Task.do # "leave" /\ Node.kind = "for"
  BY OnCheckFacts DEF CheckFor, Ready
<1>2. ForHead(Task.node) \in TaskSet /\ ForHead(Task.node) # ScopeGuard
  BY <1>1, ReadyFacts DEF ForHead, TaskSet, ScopeGuard, Node
<1>3. head \in Seq(TaskSet) /\ Guards(head) = 0
  BY <1>2, OneTask
<1>4. init \in Seq(TaskSet) /\ Guards(init) = 0
  BY <1>1, NodeFacts, CheckTask, OneTask, NoTasks
<1>5. Enter /\ UNCHANGED symbols_ /\ Continue(<<ScopeGuard>> \o (head \o init))
  <2> DEFINE first == <<ScopeGuard, ForHead(Task.node)>>
  <2>1. first = <<ScopeGuard>> \o head
    OBVIOUS
  <2>2. Enter /\ UNCHANGED symbols_ /\ Continue(first \o init)
    BY DEF CheckFor
  <2>3. <<ScopeGuard>> \in Seq(TaskSet)
    BY DEF TaskSet
  <2> HIDE DEF first, head, init
  <2>4. (<<ScopeGuard>> \o head) \o init = <<ScopeGuard>> \o (head \o init)
    BY <1>3, <1>4, <2>3, JoinThree
  <2> QED BY <2>1, <2>2, <2>4
<1> HIDE DEF head, init
<1>6. head \o init \in Seq(TaskSet) /\ Guards(head \o init) = 0
  BY <1>3, <1>4, MoreTasks
<1> QED BY <1>1, <1>5, <1>6, EnterKeeps

LEMMA HeadKeeps == ASSUME CInv, CheckForHead PROVE CInv'
<1>1. /\ Ready /\ Task.do # "leave" /\ Node.kind = "for"
      /\ Continue(<<Check(Kid(4))>>) /\ SameScopes
  BY ReadyFacts DEF CheckForHead, Ready, Node
<1>2. <<Check(Kid(4))>> \in Seq(TaskSet) /\ Guards(<<Check(Kid(4))>>) = 0
  BY <1>1, NodeFacts, CheckTask, OneTask
<1> QED BY <1>1, <1>2, PlainKeeps

LEMMA IfKeeps == ASSUME CInv, CheckIf PROVE CInv'
<1> DEFINE nodes == IF Has(3) THEN <<Kid(2), Kid(3)>> ELSE <<Kid(2)>>
<1>1. /\ Ready /\ Task.do # "leave" /\ Node.kind = "if"
      /\ Continue(Tasks(nodes)) /\ SameScopes
  BY OnCheckFacts DEF CheckIf, Ready
<1>2. nodes \in Seq(DOMAIN Ast)
  <2>1. /\ Kid(2) \in DOMAIN Ast
        /\ Has(3) => Kid(3) \in DOMAIN Ast
    BY <1>1, NodeFacts
  <2>2. \A a, b \in DOMAIN Ast :
          <<a>> \in Seq(DOMAIN Ast) /\ <<a, b>> \in Seq(DOMAIN Ast)
    OBVIOUS
  <2> QED BY <2>1, <2>2
<1> HIDE DEF nodes
<1> QED BY <1>1, <1>2, TasksOfNodes, PlainKeeps

LEMMA FuncKeeps == ASSUME CInv, CheckFunc PROVE CInv'
<1> DEFINE rest == Tasks(Ast[Kid(1)].kids)
           new == [i \in DOMAIN Node.params |->
                     Entry(Node.params[i].name, Node.params[i].type,
                           symbols_depth + 1)]
<1>1. Ready /\ Task.do # "leave" /\ Node.kind = "func"
  BY OnCheckFacts DEF CheckFunc, Ready
<1>2. /\ symbols_depth \in Nat /\ Task # ScopeGuard
      /\ Task.node \in DOMAIN Ast
  BY <1>1, ReadyFacts
<1>3. /\ rest \in Seq(TaskSet) /\ Guards(rest) = 0
  BY <1>1, NodeFacts, TasksOfNodes
<1>4. /\ symbols_depth' = symbols_depth + 1
      /\ symbols_' = symbols_ \o new
      /\ Continue(<<ScopeGuard>> \o rest)
  BY DEF CheckFunc, Enter
<1>5. Symbols(symbols_ \o new, symbols_depth + 1)
  BY <1>1, <1>2, ParameterSymbols DEF CInv, Node
<1> HIDE DEF rest, new
<1>6. /\ <<ScopeGuard>> \o rest \in Seq(TaskSet)
      /\ Guards(<<ScopeGuard>> \o rest) = 1
  BY <1>3, GuardedTasks
<1> QED BY <1>1, <1>2, <1>4, <1>5, <1>6, ContinueKeeps

LEMMA LeaveKeeps == ASSUME CInv, LeaveScope PROVE CInv'
<1>1. Ready /\ Task = ScopeGuard /\ Continue(<<>>)
  BY ReadyFacts DEF LeaveScope, Ready
<1>2. /\ todo' \in Seq(TaskSet) /\ Guards(todo) \in Nat \ {0}
      /\ Guards(todo') = Guards(todo) - 1
  <2>1. todo \in Seq(TaskSet) /\ todo # <<>> /\ <<>> \in Seq(TaskSet)
    BY <1>1 DEF Ready, CInv
  <2>2. /\ todo' \in Seq(TaskSet)
        /\ Guards(todo') = Guards(todo) + Guards(<<>>)
                             - (IF Task = ScopeGuard THEN 1 ELSE 0)
        /\ Guards(todo) \in Nat
        /\ Task = ScopeGuard => Guards(todo) # 0
    BY <1>1, <2>1, ContinueGuards
  <2> QED BY <1>1, <2>2, NoTasks
<1>3. symbols_depth \in Nat \ {0} /\ symbols_depth' = Guards(todo')
  BY <1>2 DEF CInv, LeaveScope
<1>4. Symbols(symbols_', symbols_depth')
  BY <1>3, LeaveSymbols DEF CInv, LeaveScope
<1> QED BY <1>2, <1>3, <1>4
        DEF CInv, TaskSet, Guards, CountIn, Symbols, IsTable, Sorted, NoneTwice,
            ParameterTwice

---------------------------------------------------------------------------

LEMMA StartedCInv == ASSUME program \in Programs, Started PROVE CInv
<1>1. program \in Seq(DOMAIN Ast) /\ todo = Tasks(program)
  BY ProgramShape DEF Started
<1>2. todo \in Seq(TaskSet) /\ Guards(todo) = 0
  BY <1>1, TasksOfNodes
<1>3. Symbols(<<>>, 0)
  <2>1. <<>> \in Seq(EntriesOver({}, {}))
    OBVIOUS
  <2>2. IsTable(<<>>)
    BY <2>1 DEF IsTable
  <2> QED BY <2>2 DEF Symbols, Sorted, NoneTwice
<1> QED BY <1>2, <1>3 DEF Started, CInv

LEMMA InitCInv == Init => CInv
BY StartedCInv DEF Init

LEMMA StepCInv == CInv /\ [Next \/ (Checked /\ UNCHANGED vars)]_vars => CInv'
<1> SUFFICES ASSUME CInv, Next \/ UNCHANGED vars PROVE CInv'
  OBVIOUS
<1>1. CASE Next
  BY <1>1, SimpleKeeps, VarKeeps, BlockKeeps, WhileKeeps, ForKeeps, HeadKeeps,
     IfKeeps, FuncKeeps, LeaveKeeps DEF Next
<1>2. CASE UNCHANGED vars
  BY <1>2 DEF vars, checker, CInv, Symbols
<1> QED BY <1>1, <1>2

LEMMA SpecCInv == Spec => []CInv
BY InitCInv, StepCInv, PTL DEF Spec

(* The checker's scopes are those of the guards still to run, and nothing  *)
(* of a closed one is left, whatever the program (type_check.cpp:101-161). *)
THEOREM CheckerBalanced == Spec => []GuardsBalanced
<1>1. CInv => GuardsBalanced
  <2> SUFFICES ASSUME CInv PROVE GuardsBalanced
    OBVIOUS
  <2>1. \A i \in DOMAIN todo : todo[i].do = "leave" <=> todo[i] \in {ScopeGuard}
    BY DEF CInv, TaskSet, ScopeGuard
  <2>2. {i \in DOMAIN todo : todo[i].do = "leave"} =
          {i \in DOMAIN todo : todo[i] \in {ScopeGuard}}
    BY <2>1
  <2> QED BY <2>2 DEF CInv, Guards, CountIn, GuardsBalanced, Symbols, Sorted
<1> QED BY SpecCInv, <1>1, PTL

(* No scope of the checker declares a name twice, except through the       *)
(* parameters of a function (type_check.cpp:53-56, 150-161).               *)
THEOREM CheckerDeclaresOnce == Spec => []RepeatedNamesAreParameters
<1>1. CInv => RepeatedNamesAreParameters
  BY DEF CInv, Symbols, NoneTwice, RepeatedNamesAreParameters, Repeats
<1> QED BY SpecCInv, <1>1, PTL

---------------------------------------------------------------------------
(* Induction, as facts about sets: the provers do not instantiate the      *)
(* library's theorems on operators.                                        *)

LEMMA AllNumbers ==
  ASSUME NEW A \in SUBSET Nat, 0 \in A, \A k \in A : k + 1 \in A
  PROVE  A = Nat
<1> DEFINE T == Nat \ A
<1>1. ASSUME T # {} PROVE FALSE
  <2>1. PICK m \in T : \A y \in T : ~ (<<y, m>> \in LessThan)
    <3> HIDE DEF T
    <3>1. T \subseteq Nat
      BY DEF T
    <3> QED BY <1>1, <3>1, LessThanWellFounded, WFMin
  <2>2. m \in Nat /\ m # 0 /\ m - 1 \in Nat /\ m = (m - 1) + 1
    OBVIOUS
  <2>3. m - 1 \in T
    BY <2>2
  <2>4. <<m - 1, m>> \in LessThan
    BY <2>2 DEF LessThan
  <2> QED BY <2>1, <2>3, <2>4
<1> QED BY <1>1

LEMMA KidInTable ==
  ASSUME NEW n \in DOMAIN Ast, NEW i \in DOMAIN Ast[n].kids
  PROVE  /\ Ast[n].kids[i] \in DOMAIN Ast \cup {None}
         /\ Ast[n].kids[i] # None => Ast[n].kids[i] \in Kids(n)
<1> DEFINE kind == Ast[n].kind
<1>1. Expr \subseteq DOMAIN Ast /\ Branch \subseteq DOMAIN Ast
  BY KindFacts
<1>2. Ast[n].kids[i] \in DOMAIN Ast \cup {None}
  <2>1. CASE kind \in {"literal", "variable", "struct", "builtin"}
    BY <2>1, LeafShape
  <2>2. CASE kind \in {"unary", "postfix", "member", "expression"}
    BY <1>1, <2>2, OneShape
  <2>3. CASE kind \in {"binary", "assignment", "index"}
    BY <1>1, <2>3, TwoShape
  <2>4. CASE kind \in {"call", "list"}
    BY <1>1, <2>4, ListShape
  <2>5. CASE kind \in {"var", "return"}
    BY <1>1, <2>5, MaybeShape
  <2>6. CASE kind = "block"
    BY <2>6, BlockShape
  <2>7. CASE kind \in {"while", "for"}
    BY <1>1, <2>7, LoopShape
  <2>8. CASE kind = "if"
    BY <1>1, <2>8, IfShape
  <2>9. CASE kind = "func"
    BY <1>1, <2>9, FuncShape
  <2> QED BY <2>1, <2>2, <2>3, <2>4, <2>5, <2>6, <2>7, <2>8, <2>9, KidsKind
          DEF ExpressionKinds, StatementKinds, BranchKinds
<1> QED BY <1>2 DEF Kids, Range

LEMMA KidsInTable ==
  ASSUME NEW n \in DOMAIN Ast PROVE Kids(n) \subseteq DOMAIN Ast
BY KidInTable DEF Kids, Range

(* A set that has a node whenever it has its children has every node.      *)
LEMMA AllNodes ==
  ASSUME NEW X, \A n \in DOMAIN Ast : Kids(n) \subseteq X => n \in X
  PROVE  DOMAIN Ast \subseteq X
<1> DEFINE A == {k \in Nat : \A n \in DOMAIN Ast : Height(n) < k => n \in X}
<1>1. \A n \in DOMAIN Ast : /\ Height(n) \in Nat \ {0}
                            /\ \A k \in Kids(n) : Height(k) < Height(n)
  BY AstAssumption, FS_CardinalityType DEF IsTree
<1>2. \A n \in DOMAIN Ast : Kids(n) \subseteq DOMAIN Ast
  BY KidsInTable
<1> HIDE DEF Height, Kids
<1>3. 0 \in A
  BY <1>1
<1>4. ASSUME NEW k \in A PROVE k + 1 \in A
  <2>1. ASSUME NEW n \in DOMAIN Ast, Height(n) < k + 1 PROVE n \in X
    <3>1. \A c \in Kids(n) : Height(c) < k
      BY <1>1, <1>2, <2>1
    <3>2. Kids(n) \subseteq X
      BY <1>2, <3>1
    <3> QED BY <3>2
  <2> QED BY <2>1
<1>5. A = Nat
  <2> HIDE DEF A
  <2>1. A \in SUBSET Nat
    BY DEF A
  <2> QED BY <1>3, <1>4, <2>1, AllNumbers
<1>6. \A n \in DOMAIN Ast : Height(n) + 1 \in A
  BY <1>1, <1>5
<1> QED BY <1>1, <1>6

(* A recursive definition over a set with a measure that goes down has a   *)
(* solution: what S makes of f at x depends on f below x only.             *)
Measure(h, D) == h \in [D -> Nat] /\ \E N \in Nat : \A x \in D : h[x] < N
Step(S, D, V, h) ==
  /\ S \in [[D -> V] -> [D -> V]]
  /\ \A x \in D : \A f, g \in [D -> V] :
        (\A y \in D : h[y] < h[x] => f[y] = g[y]) => S[f][x] = S[g][x]

LEMMA Recursion ==
  ASSUME NEW D, NEW V, NEW S, NEW h, V # {}, Measure(h, D), Step(S, D, V, h)
  PROVE  \E f \in [D -> V] : f = S[f]
<1> USE DEF Measure, Step
<1>0. PICK N \in Nat, v \in V : \A x \in D : h[x] < N
  OBVIOUS
<1> DEFINE A == {k \in Nat : \E f \in [D -> V] :
                    \A x \in D : h[x] < k => f[x] = S[f][x]}
<1>1. 0 \in A
  <2>1. [x \in D |-> v] \in [D -> V]
    OBVIOUS
  <2>2. \A x \in D : ~ (h[x] < 0)
    OBVIOUS
  <2> QED BY <2>1, <2>2
<1>2. ASSUME NEW k \in A PROVE k + 1 \in A
  <2>1. PICK f \in [D -> V] : \A x \in D : h[x] < k => f[x] = S[f][x]
    OBVIOUS
  <2> DEFINE g == S[f]
  <2>2. g \in [D -> V]
    OBVIOUS
  <2>3. ASSUME NEW x \in D, h[x] < k + 1 PROVE g[x] = S[g][x]
    <3>1. \A y \in D : h[y] < h[x] => f[y] = g[y]
      BY <2>1, <2>3
    <3>2. S[f][x] = S[g][x]
      <4> HIDE DEF g
      <4> QED BY <2>2, <3>1
    <3> QED BY <3>2
  <2> HIDE DEF g
  <2> QED BY <2>2, <2>3
<1>3. A = Nat
  <2> HIDE DEF A
  <2>1. A \in SUBSET Nat
    BY DEF A
  <2> QED BY <1>1, <1>2, <2>1, AllNumbers
<1>4. PICK f \in [D -> V] : \A x \in D : h[x] < N => f[x] = S[f][x]
  BY <1>3
<1>5. S[f] \in [D -> V] /\ \A x \in D : f[x] = S[f][x]
  BY <1>0, <1>4
<1>6. f = S[f]
  BY <1>5
<1> QED BY <1>6

(* The measure of Recursion for definitions over the nodes.                *)
LEMMA Heights ==
  \E h : /\ Measure(h, DOMAIN Ast)
         /\ \A n \in DOMAIN Ast : \A k \in Kids(n) :
               k \in DOMAIN Ast /\ h[k] < h[n]
<1> DEFINE N == Cardinality(DOMAIN Ast) + 1
           h == [n \in DOMAIN Ast |-> Height(n)]
<1>1. Cardinality(DOMAIN Ast) \in Nat
  BY AstAssumption, FS_CardinalityType
<1>2. \A n \in DOMAIN Ast : /\ Height(n) \in Nat /\ Height(n) < N
                            /\ \A k \in Kids(n) : Height(k) < Height(n)
  BY <1>1, AstAssumption DEF IsTree
<1>3. \A n \in DOMAIN Ast : Kids(n) \subseteq DOMAIN Ast
  BY KidsInTable
<1>4. N \in Nat
  BY <1>1
<1> HIDE DEF Height, Kids, N
<1>5. h \in [DOMAIN Ast -> Nat] /\ \A n \in DOMAIN Ast : h[n] < N
  BY <1>2
<1>6. \A n \in DOMAIN Ast : \A k \in Kids(n) : k \in DOMAIN Ast /\ h[k] < h[n]
  BY <1>2, <1>3
<1> HIDE DEF h
<1> QED BY <1>4, <1>5, <1>6 DEF Measure

LEMMA WithinIs ==
  ASSUME NEW n \in DOMAIN Ast
  PROVE  Within[n] = {n} \cup UNION {Within[k] : k \in Kids(n)}
<1> DEFINE D == DOMAIN Ast
           V == SUBSET D
           Body(f, m) == {m} \cup UNION {f[k] : k \in Kids(m)}
           S == [f \in [D -> V] |-> [m \in D |-> Body(f, m)]]
<1>1. PICK h : /\ Measure(h, D)
               /\ \A m \in D : \A k \in Kids(m) : k \in D /\ h[k] < h[m]
  BY Heights
<1> HIDE DEF Kids
<1>2. \A f \in [D -> V] : \A m \in D : Body(f, m) \in V
  BY <1>1
<1>3. \A m \in D : \A f, g \in [D -> V] :
         (\A y \in D : h[y] < h[m] => f[y] = g[y]) => Body(f, m) = Body(g, m)
  BY <1>1
<1> HIDE DEF Body
<1>4. Step(S, D, V, h)
  BY <1>2, <1>3 DEF Step
<1>5. PICK f \in [D -> V] : f = S[f]
  <2> HIDE DEF S
  <2>1. V # {}
    OBVIOUS
  <2> HIDE DEF V, D
  <2> QED BY <1>1, <1>4, <2>1, Recursion
<1>6. f = [m \in D |-> Body(f, m)]
  BY <1>5
<1>7. Within = [m \in D |-> Body(Within, m)]
  BY <1>6 DEF Within, Body
<1> QED BY <1>7 DEF Body

(* The free variables of a node, from those of its children.               *)
FreeOf(F, k) == IF k = None THEN {} ELSE F[k]
InSequence(F, nodes) ==
  UNION {FreeOf(F, nodes[i]) \ UNION {Declared(nodes[j]) : j \in 1 .. i - 1} :
         i \in DOMAIN nodes}
ParamNames(n) == {Ast[n].params[i].name : i \in DOMAIN Ast[n].params}

LEMMA FreeFromIs ==
  ASSUME NEW F, NEW n
  PROVE  /\ Ast[n].kind = "variable" => FreeFrom(F, n) = {Ast[n].name}
         /\ Ast[n].kind \in {"block", "for", "while"} =>
              FreeFrom(F, n) = InSequence(F, Ast[n].kids)
         /\ Ast[n].kind = "func" =>
              FreeFrom(F, n) =
                InSequence(F, Ast[Ast[n].kids[1]].kids) \ ParamNames(n)
         /\ Ast[n].kind \notin {"variable", "block", "for", "while", "func"} =>
              FreeFrom(F, n) = UNION {FreeOf(F, Ast[n].kids[i]) : i \in DOMAIN Ast[n].kids}
<1>1. \A nodes :
        UNION {(IF nodes[i] = None THEN {} ELSE F[nodes[i]])
                 \ UNION {Declared(nodes[j]) : j \in 1 .. i - 1} : i \in DOMAIN nodes}
        = InSequence(F, nodes)
  BY DEF InSequence, FreeOf
<1> QED BY <1>1 DEF FreeFrom, FreeOf, ParamNames

(* Functions that agree on what nodes stand for give a sequence the same.  *)
LEMMA SameInSequence ==
  ASSUME NEW F, NEW G, NEW nodes,
         \A i \in DOMAIN nodes : FreeOf(F, nodes[i]) = FreeOf(G, nodes[i])
  PROVE  InSequence(F, nodes) = InSequence(G, nodes)
BY DEF InSequence

LEMMA FreeIs ==
  ASSUME NEW n \in DOMAIN Ast
  PROVE  Free[n] = FreeFrom(Free, n)
<1> DEFINE D == DOMAIN Ast
           names == {Ast[m].name : m \in D}
           V == SUBSET names
           S == [f \in [D -> V] |-> [m \in D |-> FreeFrom(f, m)]]
<1>1. PICK h : /\ Measure(h, D)
               /\ \A m \in D : \A k \in Kids(m) : k \in D /\ h[k] < h[m]
  BY Heights
<1> HIDE DEF Kids
<1>2. ASSUME NEW m \in D, NEW i \in DOMAIN Ast[m].kids
      PROVE  LET k == Ast[m].kids[i]
             IN k \in D \cup {None} /\ (k # None => h[k] < h[m])
  BY <1>1, KidInTable
<1>3. ASSUME NEW m \in D, Ast[m].kind = "func",
             NEW i \in DOMAIN Ast[Ast[m].kids[1]].kids
      PROVE  LET k == Ast[Ast[m].kids[1]].kids[i]
             IN k \in D \cup {None} /\ (k # None => h[k] < h[m])
  <2> DEFINE b == Ast[m].kids[1]
  <2>1. b \in D /\ h[b] < h[m]
    BY <1>2, <1>3, FuncShape, KindFacts
  <2> HIDE DEF b
  <2>2. Ast[b].kids[i] \in D \cup {None}
    BY <1>2, <2>1 DEF b
  <2>3. Ast[b].kids[i] # None => h[Ast[b].kids[i]] < h[b]
    BY <1>2, <2>1 DEF b
  <2>4. h \in [D -> Nat]
    BY <1>1 DEF Measure
  <2> HIDE DEF D
  <2>5. Ast[b].kids[i] # None => h[Ast[b].kids[i]] < h[m]
    BY <2>1, <2>2, <2>3, <2>4
  <2> QED BY <2>2, <2>5 DEF b
<1>4. ASSUME NEW f \in [D -> V], NEW k \in D \cup {None}
      PROVE  FreeOf(f, k) \subseteq names
  BY DEF FreeOf
<1>5. ASSUME NEW f \in [D -> V], NEW m \in D PROVE FreeFrom(f, m) \in V
  <2>1. CASE Ast[m].kind = "variable"
    BY <2>1, FreeFromIs
  <2>2. CASE Ast[m].kind \in {"block", "for", "while"}
    <3>1. InSequence(f, Ast[m].kids) \subseteq names
      BY <1>2, <1>4 DEF InSequence
    <3> QED BY <2>2, <3>1, FreeFromIs
  <2>3. CASE Ast[m].kind = "func"
    <3>1. InSequence(f, Ast[Ast[m].kids[1]].kids) \subseteq names
      BY <1>3, <1>4, <2>3 DEF InSequence
    <3> QED BY <2>3, <3>1, FreeFromIs
  <2>4. CASE Ast[m].kind \notin {"variable", "block", "for", "while", "func"}
    <3>1. \A i \in DOMAIN Ast[m].kids : FreeOf(f, Ast[m].kids[i]) \subseteq names
      BY <1>2, <1>4
    <3> QED BY <2>4, <3>1, FreeFromIs
  <2> QED BY <2>1, <2>2, <2>3, <2>4
<1>6. ASSUME NEW m \in D, NEW f \in [D -> V], NEW g \in [D -> V],
             \A y \in D : h[y] < h[m] => f[y] = g[y]
      PROVE  FreeFrom(f, m) = FreeFrom(g, m)
  <2>1. ASSUME NEW k \in D \cup {None}, k # None => h[k] < h[m]
        PROVE  FreeOf(f, k) = FreeOf(g, k)
    BY <1>6, <2>1 DEF FreeOf
  <2>2. \A i \in DOMAIN Ast[m].kids :
          FreeOf(f, Ast[m].kids[i]) = FreeOf(g, Ast[m].kids[i])
    BY <1>2, <2>1
  <2>3. CASE Ast[m].kind = "variable"
    BY <2>3, FreeFromIs
  <2>4. CASE Ast[m].kind \in {"block", "for", "while"}
    BY <2>2, <2>4, FreeFromIs, SameInSequence
  <2>5. CASE Ast[m].kind = "func"
    <3>1. \A i \in DOMAIN Ast[Ast[m].kids[1]].kids :
            FreeOf(f, Ast[Ast[m].kids[1]].kids[i]) = FreeOf(g, Ast[Ast[m].kids[1]].kids[i])
      BY <1>3, <2>1, <2>5
    <3> HIDE DEF D, V
    <3>2. InSequence(f, Ast[Ast[m].kids[1]].kids) = InSequence(g, Ast[Ast[m].kids[1]].kids)
      BY <3>1, SameInSequence
    <3>3. FreeFrom(f, m) = InSequence(f, Ast[Ast[m].kids[1]].kids) \ ParamNames(m)
      BY <2>5, FreeFromIs
    <3>4. FreeFrom(g, m) = InSequence(g, Ast[Ast[m].kids[1]].kids) \ ParamNames(m)
      BY <2>5, FreeFromIs
    <3> QED BY <3>2, <3>3, <3>4
  <2>6. CASE Ast[m].kind \notin {"variable", "block", "for", "while", "func"}
    <3>1. UNION {FreeOf(f, Ast[m].kids[i]) : i \in DOMAIN Ast[m].kids}
            = UNION {FreeOf(g, Ast[m].kids[i]) : i \in DOMAIN Ast[m].kids}
      BY <2>2
    <3> HIDE DEF D, V
    <3>2. FreeFrom(f, m) = UNION {FreeOf(f, Ast[m].kids[i]) : i \in DOMAIN Ast[m].kids}
      BY <2>6, FreeFromIs
    <3>3. FreeFrom(g, m) = UNION {FreeOf(g, Ast[m].kids[i]) : i \in DOMAIN Ast[m].kids}
      BY <2>6, FreeFromIs
    <3> QED BY <3>1, <3>2, <3>3
  <2> QED BY <2>3, <2>4, <2>5, <2>6
<1>7. Step(S, D, V, h)
  BY <1>5, <1>6 DEF Step
<1>8. PICK f \in [D -> V] : f = S[f]
  <2> HIDE DEF S
  <2>1. V # {}
    OBVIOUS
  <2> HIDE DEF V, D
  <2> QED BY <1>1, <1>7, <2>1, Recursion
<1>9. f = [m \in D |-> FreeFrom(f, m)]
  BY <1>8
<1>10. Free = [m \in D |-> FreeFrom(Free, m)]
  <2> HIDE DEF FreeFrom
  <2> QED BY <1>9 DEF Free
<1> QED BY <1>10

(* The type of a node, from those of its children.                         *)
KidTypes(T, n) == [i \in DOMAIN Ast[n].kids |-> T[Ast[n].kids[i]]]

LEMMA TypeFromKids ==
  ASSUME NEW T, NEW U, NEW n \in DOMAIN Ast, \A k \in Kids(n) : T[k] = U[k]
  PROVE  TypeFrom(T, n) = TypeFrom(U, n)
<1> DEFINE e == Ast[n]
<1>1. \A i \in DOMAIN e.kids : e.kids[i] # None => T[e.kids[i]] = U[e.kids[i]]
  BY KidInTable
<1>2. None \notin Expr
  BY KindFacts
<1>3. CASE e.kind \in {"unary", "postfix", "member"}
  <2>1. T[e.kids[1]] = U[e.kids[1]]
    BY <1>1, <1>2, <1>3, OneShape
  <2> QED BY <1>3, <2>1 DEF TypeFrom
<1>4. CASE e.kind \in {"binary", "assignment", "index"}
  <2>1. T[e.kids[1]] = U[e.kids[1]] /\ T[e.kids[2]] = U[e.kids[2]]
    BY <1>1, <1>2, <1>4, TwoShape
  <2> QED BY <1>4, <2>1 DEF TypeFrom
<1>5. CASE e.kind \in {"call", "list"}
  <2>1. \A i \in DOMAIN e.kids : T[e.kids[i]] = U[e.kids[i]]
    BY <1>1, <1>2, <1>5, ListShape
  <2>2. KidTypes(T, n) = KidTypes(U, n)
    BY <2>1 DEF KidTypes
  <2>3. \A X : TypeFrom(X, n) = IF e.kind = "call" THEN CallType(e.name, KidTypes(X, n))
                                ELSE ListType(KidTypes(X, n))
    BY <1>5 DEF TypeFrom, KidTypes
  <2> QED BY <2>2, <2>3
<1>6. CASE e.kind \notin {"unary", "postfix", "member", "binary", "assignment", "index",
                        "call", "list"}
  BY <1>6 DEF TypeFrom
<1> QED BY <1>3, <1>4, <1>5, <1>6

Typing == [n \in DOMAIN Ast |-> TypeOf(n)]

LEMMA TypeOfIs ==
  ASSUME NEW n \in DOMAIN Ast
  PROVE  TypeOf(n) = TypeFrom(Typing, n)
<1> DEFINE D == DOMAIN Ast
           OnTable(f) == f = [m \in D |-> f[m]]
<1>1. PICK h : /\ Measure(h, D)
               /\ \A m \in D : \A k \in Kids(m) : k \in D /\ h[k] < h[m]
  BY Heights
<1>2. PICK N \in Nat : h \in [D -> Nat] /\ \A m \in D : h[m] < N
  BY <1>1 DEF Measure
<1> DEFINE A == {k \in Nat : \E f : OnTable(f) /\ \A m \in D : h[m] < k => f[m] = TypeFrom(f, m)}
<1> HIDE DEF Kids, TypeFrom
<1>3. 0 \in A
  <2>1. OnTable([m \in D |-> {}])
    OBVIOUS
  <2>2. \A m \in D : ~ (h[m] < 0)
    BY <1>2
  <2> QED BY <2>1, <2>2
<1>4. ASSUME NEW k \in A PROVE k + 1 \in A
  <2>1. PICK f : OnTable(f) /\ \A m \in D : h[m] < k => f[m] = TypeFrom(f, m)
    OBVIOUS
  <2> DEFINE g == [m \in D |-> TypeFrom(f, m)]
  <2>2. OnTable(g)
    OBVIOUS
  <2>3. ASSUME NEW m \in D, h[m] < k + 1 PROVE g[m] = TypeFrom(g, m)
    <3>1. \A c \in Kids(m) : f[c] = g[c]
      BY <1>1, <1>2, <2>1, <2>3
    <3>2. TypeFrom(f, m) = TypeFrom(g, m)
      <4> HIDE DEF g
      <4> QED BY <3>1, TypeFromKids
    <3> QED BY <3>2
  <2> HIDE DEF g
  <2>4. k \in Nat
    OBVIOUS
  <2> QED BY <2>2, <2>3, <2>4
<1>5. A = Nat
  <2> HIDE DEF A
  <2>1. A \in SUBSET Nat
    BY DEF A
  <2> QED BY <1>3, <1>4, <2>1, AllNumbers
<1>6. PICK f : OnTable(f) /\ \A m \in D : f[m] = TypeFrom(f, m)
  <2>1. N \in A
    BY <1>5
  <2> QED BY <1>2, <2>1
<1>7. f = [m \in D |-> TypeFrom(f, m)]
  BY <1>6
<1> DEFINE T == CHOOSE T : T = [m \in D |-> TypeFrom(T, m)]
<1>8. T = [m \in D |-> TypeFrom(T, m)]
  BY <1>7
<1>9. \A m : TypeOf(m) = T[m]
  BY DEF TypeOf
<1> HIDE DEF T
<1>10. Typing = T
  BY <1>8, <1>9 DEF Typing
<1> QED BY <1>8, <1>9, <1>10

---------------------------------------------------------------------------
(* Types.  In a program whose types are known every type that is met has a *)
(* declaration, and is of lower rank than the structs it is resolved in.   *)

Ground == program \in Programs /\ registry_ = RegistryOf(program)

Descends(rank) ==
  /\ rank \in [Structs -> 1 .. Cardinality(Structs)]
  /\ \A s \in Structs : \A p \in Range(Fields(s)) :
        p.type.base \in Structs => rank[p.type.base] < rank[s]
Known(rank) ==
  Mentioned \subseteq Scalar \cup {"void"} \cup Structs /\ Descends(rank)

GoodTypes ==
  [base : Scalar \cup {"void"} \cup Structs, dims : Seq(Nat), seen : SUBSET Structs]
Good(rank, t) ==
  /\ t \in GoodTypes
  /\ t.base \in Structs => \A s \in t.seen : rank[s] > rank[t.base]

LEMMA SomeRank == KnownTypes <=> \E rank : Known(rank)
BY DEF KnownTypes, Known, Descends

(* A type as it is written is good if what it is made of is known.         *)
LEMMA WrittenGood ==
  ASSUME NEW rank, Known(rank), NEW t \in WrittenTypes, t.base \in Mentioned
  PROVE  Good(rank, t)
BY DEF Good, Known, WrittenTypes, GoodTypes

LEMMA Elements ==
  ASSUME NEW S, NEW s \in Seq(S), NEW i \in DOMAIN s PROVE s[i] \in S
OBVIOUS

LEMMA ParamTypes ==
  ASSUME NEW ps \in Seq([name : STRING, type : WrittenTypes]), NEW j \in DOMAIN ps
  PROVE  ps[j].type \in WrittenTypes
<1> DEFINE S == [name : STRING, type : WrittenTypes]
<1>1. ps[j] \in S
  <2>1. ps \in Seq(S)
    OBVIOUS
  <2> HIDE DEF S
  <2> QED BY <2>1, Elements
<1> QED BY <1>1

LEMMA RegistryFacts ==
  ASSUME Ground
  PROVE  /\ IsFiniteSet(DOMAIN registry_)
         /\ \A s \in DOMAIN registry_ :
               \/ registry_[s] \in Builtins
               \/ \E i \in DOMAIN program :
                     /\ registry_[s] = program[i]
                     /\ Ast[program[i]].kind \in {"func", "struct"}
         /\ \A s \in DOMAIN registry_ : Ast[registry_[s]].name = s
<1> DEFINE nodes == Builtins \cup {program[i] : i \in Added(program)}
           names == {Ast[n].name : n \in nodes}
<1>1. program \in Seq(DOMAIN Ast)
  BY ProgramShape DEF Ground
<1>2. Builtins \subseteq DOMAIN Ast /\ IsFiniteSet(DOMAIN Ast)
  BY AstAssumption DEF OfKind
<1>3. Added(program) \subseteq DeclaredAt(program) /\ DeclaredAt(program) \subseteq DOMAIN program
  BY DEF Added, DeclaredAt
<1>4. nodes \subseteq DOMAIN Ast
  BY <1>1, <1>2, <1>3
<1>5. IsFiniteSet(nodes)
  BY <1>2, <1>4, FS_Subset
<1>6. registry_ = [s \in names |-> CHOOSE n \in nodes : Ast[n].name = s]
  BY DEF Ground, RegistryOf
<1>7. \A n \in nodes : n \in Builtins \/ \E i \in DOMAIN program :
         n = program[i] /\ Ast[program[i]].kind \in {"func", "struct"}
  BY <1>3 DEF DeclaredAt
<1> HIDE DEF nodes
<1>8. IsFiniteSet(names)
  <2> DEFINE f == [n \in nodes |-> Ast[n].name]
  <2>1. f \in Surjection(nodes, names)
    BY DEF Surjection
  <2> HIDE DEF f, names
  <2> QED BY <1>5, <2>1, FS_Surjection
<1>9. \A s \in names : /\ registry_[s] \in nodes
                       /\ Ast[registry_[s]].name = s
  BY <1>6
<1> QED BY <1>6, <1>7, <1>8, <1>9

LEMMA ParamsMentioned ==
  ASSUME NEW n \in Text(program), NEW j \in DOMAIN Ast[n].params
  PROVE  Ast[n].params[j].type.base \in Mentioned
<1> DEFINE bases == {p.type.base : p \in Range(Ast[n].params)}
<1>1. Ast[n].params[j] \in Range(Ast[n].params)
  BY DEF Range
<1>2. Ast[n].params[j].type.base \in bases
  BY <1>1
<1> QED BY <1>2 DEF Mentioned

LEMMA StructFacts ==
  ASSUME Ground, NEW s \in Structs
  PROVE  /\ s \in STRING /\ s \notin Scalar \cup {"void", "unknown"}
         /\ Fields(s) \in Seq([name : STRING, type : WrittenTypes])
         /\ \A i \in DOMAIN Fields(s) :
               Fields(s)[i].type \in WrittenTypes /\ Fields(s)[i].type.base \in Mentioned
<1> DEFINE n == registry_[s]
<1>1. s \in DOMAIN registry_ /\ Ast[n].kind = "struct"
  BY DEF Structs, HasStruct
<1>2. \A b \in Builtins : Ast[b].kind = "builtin"
  BY AstAssumption DEF OfKind
<1>3. PICK i \in DOMAIN program : n = program[i]
  BY <1>1, <1>2, RegistryFacts
<1>4. n \in DOMAIN Ast /\ Ast[n].name = s
  BY <1>1, <1>3, RegistryFacts, ProgramShape DEF Ground
<1>5. n \in Text(program)
  BY <1>3, <1>4, WithinIs DEF Text
<1>6. Fields(s) \in Seq([name : STRING, type : WrittenTypes])
  BY <1>4, ParamShape DEF Fields
<1>7. \A j \in DOMAIN Fields(s) : Fields(s)[j].type \in WrittenTypes
  BY <1>6, ParamTypes
<1>8. \A j \in DOMAIN Fields(s) : Fields(s)[j].type.base \in Mentioned
  BY <1>5, ParamsMentioned DEF Fields
<1>9. Ast[n].name \in STRING \ (Scalar \cup {"void", "unknown"})
  BY <1>1, <1>4, AstAssumption DEF WellFormed
<1> QED BY <1>4, <1>6, <1>7, <1>8, <1>9

(* Resolves[x], from what it is further down.                              *)
ResolvesFrom(R, x) ==
  LET name == x[1]
      inner(i) == R[<<Fields(name)[i].type.base, Resolving(name, i, x[2])>>]
  IN /\ HasStruct(name)
     /\ name \notin x[2]
     /\ \A i \in DOMAIN Fields(name) : IsStruct(Fields(name)[i].type) => inner(i)

LEMMA FewerStructs ==
  ASSUME Ground, NEW s \in Structs, NEW seen, s \notin seen
  PROVE  /\ Cardinality(Structs \ (seen \cup {s})) \in Nat
         /\ Cardinality(Structs \ seen) \in Nat
         /\ Cardinality(Structs \ (seen \cup {s})) < Cardinality(Structs \ seen)
<1> DEFINE S == Structs \ seen
<1>1. IsFiniteSet(Structs)
  BY RegistryFacts, FS_Subset DEF Structs
<1>2. IsFiniteSet(S)
  BY <1>1, FS_Subset
<1>3. s \in S /\ Structs \ (seen \cup {s}) = S \ {s}
  OBVIOUS
<1> HIDE DEF S
<1>4. /\ IsFiniteSet(S \ {s})
      /\ Cardinality(S \ {s}) = Cardinality(S) - 1
  BY <1>2, <1>3, FS_RemoveElement
<1>5. Cardinality(S) \in Nat /\ Cardinality(S \ {s}) \in Nat
  BY <1>2, <1>4, FS_CardinalityType
<1>6. Cardinality(S \ {s}) < Cardinality(S)
  BY <1>4, <1>5
<1> QED BY <1>3, <1>5, <1>6 DEF S

LEMMA ResolvesIs ==
  ASSUME Ground, NEW x \in STRING \X SUBSET STRING
  PROVE  Resolves[x] = ResolvesFrom(Resolves, x)
<1> DEFINE D == STRING \X SUBSET STRING
           V == BOOLEAN
           S == [f \in [D -> V] |-> [y \in D |-> ResolvesFrom(f, y)]]
           h == [y \in D |-> Cardinality(Structs \ y[2])]
           N == Cardinality(Structs) + 1
<1>1. IsFiniteSet(Structs)
  BY RegistryFacts, FS_Subset DEF Structs
<1>2. \A y \in D : /\ Cardinality(Structs \ y[2]) \in Nat
                   /\ Cardinality(Structs \ y[2]) < N
  <2> TAKE y \in D
  <2>1. Structs \ y[2] \subseteq Structs
    OBVIOUS
  <2>2. Cardinality(Structs \ y[2]) <= Cardinality(Structs)
    BY <1>1, <2>1, FS_Subset
  <2>3. Cardinality(Structs) \in Nat /\ Cardinality(Structs \ y[2]) \in Nat
    BY <1>1, <2>1, FS_Subset, FS_CardinalityType
  <2> QED BY <2>2, <2>3
<1>3. Measure(h, D)
  <2>1. N \in Nat
    BY <1>1, FS_CardinalityType
  <2>2. h \in [D -> Nat]
    BY <1>2
  <2>3. \A y \in D : h[y] < N
    BY <1>2
  <2> HIDE DEF N, h, D
  <2> QED BY <2>1, <2>2, <2>3 DEF Measure
<1>4. \A f, y : ResolvesFrom(f, y) \in V
  BY DEF ResolvesFrom
<1>5. ASSUME NEW y \in D, NEW f \in [D -> V], NEW g \in [D -> V],
             \A z \in D : h[z] < h[y] => f[z] = g[z]
      PROVE  ResolvesFrom(f, y) = ResolvesFrom(g, y)
  <2> DEFINE name == y[1]
             below(i) == <<Fields(name)[i].type.base, Resolving(name, i, y[2])>>
  <2>1. CASE HasStruct(name) /\ name \notin y[2]
    <3>1. name \in Structs
      BY <2>1 DEF Structs, HasStruct
    <3>2. ASSUME NEW i \in DOMAIN Fields(name) PROVE f[below(i)] = g[below(i)]
      <4>1. Fields(name)[i].type.base \in STRING
        BY <3>1, StructFacts DEF WrittenTypes
      <4>2. Resolving(name, i, y[2]) = y[2] \cup {name} /\ y[2] \cup {name} \in SUBSET STRING
        BY <3>1 DEF Resolving
      <4>3. below(i) \in D /\ below(i)[2] = y[2] \cup {name}
        BY <4>1, <4>2
      <4>4. Cardinality(Structs \ (y[2] \cup {name})) < Cardinality(Structs \ y[2])
        BY <2>1, <3>1, FewerStructs
      <4>5. h[below(i)] < h[y]
        <5> HIDE DEF below
        <5> QED BY <4>3, <4>4
      <4> HIDE DEF below, h
      <4> QED BY <1>5, <4>3, <4>5
    <3> QED BY <3>2 DEF ResolvesFrom
  <2>2. CASE ~ (HasStruct(name) /\ name \notin y[2])
    BY <2>2 DEF ResolvesFrom
  <2> QED BY <2>1, <2>2
<1> HIDE DEF h
<1>6. Step(S, D, V, h)
  <2> HIDE DEF D, V
  <2>1. S \in [[D -> V] -> [D -> V]]
    BY <1>4
  <2>2. \A f \in [D -> V], y \in D : S[f][y] = ResolvesFrom(f, y)
    OBVIOUS
  <2> HIDE DEF S
  <2> QED BY <1>5, <2>1, <2>2 DEF Step
<1>7. PICK f \in [D -> V] : f = S[f]
  <2> HIDE DEF S
  <2>1. V # {}
    OBVIOUS
  <2> HIDE DEF V, D
  <2> QED BY <1>3, <1>6, <2>1, Recursion
<1>8. f = [y \in D |-> ResolvesFrom(f, y)]
  BY <1>7
<1>9. Resolves = [y \in D |-> ResolvesFrom(Resolves, y)]
  BY <1>8, Zenon DEF Resolves, ResolvesFrom
<1> QED BY <1>9

LEMMA RankFacts ==
  ASSUME Ground, NEW rank, Known(rank), NEW s \in Structs
  PROVE  rank[s] \in Nat /\ s \in STRING
<1>1. IsFiniteSet(Structs)
  BY RegistryFacts, FS_Subset DEF Structs
<1>2. Cardinality(Structs) \in Nat
  BY <1>1, FS_CardinalityType
<1>3. rank[s] \in 1 .. Cardinality(Structs)
  BY DEF Known, Descends
<1> QED BY <1>2, <1>3, StructFacts

(* A struct resolves inside structs of higher rank.                        *)
LEMMA ResolvesKnown ==
  ASSUME Ground, NEW rank, Known(rank), NEW s \in Structs,
         NEW seen \in SUBSET Structs, \A t \in seen : rank[t] > rank[s]
  PROVE  Resolves[<<s, seen>>]
<1> DEFINE Higher(t, in) == \A u \in in : rank[u] > rank[t]
           A == {k \in Nat : \A t \in Structs : \A in \in SUBSET Structs :
                   rank[t] < k /\ Higher(t, in) => Resolves[<<t, in>>]}
<1>1. \A t \in Structs : rank[t] \in Nat /\ t \in STRING
  BY RankFacts
<1>2. 0 \in A
  BY <1>1
<1>3. ASSUME NEW k \in A PROVE k + 1 \in A
  <2>1. ASSUME NEW t \in Structs, NEW in \in SUBSET Structs, rank[t] < k + 1, Higher(t, in)
        PROVE  Resolves[<<t, in>>]
    <3>1. HasStruct(t)
      BY DEF Structs
    <3>2. t \notin in
      BY <1>1, <2>1
    <3>3. ASSUME NEW i \in DOMAIN Fields(t), IsStruct(Fields(t)[i].type)
          PROVE  Resolves[<<Fields(t)[i].type.base, Resolving(t, i, in)>>]
      <4> DEFINE u == Fields(t)[i].type.base
      <4>1. u \in Structs
        <5>1. u \in Mentioned
          BY StructFacts
        <5>2. u \notin Scalar \cup {"void", "unknown"}
          BY <3>3 DEF IsStruct
        <5> QED BY <5>1, <5>2 DEF Known
      <4>2. rank[u] < rank[t]
        BY <4>1 DEF Known, Descends, Range
      <4>3. in \cup {t} \in SUBSET Structs
        OBVIOUS
      <4> HIDE DEF u
      <4>4. rank[u] < k /\ Higher(u, in \cup {t})
        BY <1>1, <2>1, <4>1, <4>2
      <4>5. Resolves[<<u, in \cup {t}>>]
        BY <4>1, <4>3, <4>4
      <4> QED BY <4>5 DEF Resolving, u
    <3>4. <<t, in>> \in STRING \X SUBSET STRING
      BY <1>1
    <3> HIDE DEF A
    <3>5. ResolvesFrom(Resolves, <<t, in>>)
      BY <3>1, <3>2, <3>3 DEF ResolvesFrom
    <3> HIDE DEF Resolves
    <3> QED BY <3>4, <3>5, ResolvesIs
  <2> QED BY <2>1
<1>4. A = Nat
  <2> HIDE DEF A
  <2>1. A \in SUBSET Nat
    BY DEF A
  <2> QED BY <1>2, <1>3, <2>1, AllNumbers
<1>5. rank[s] + 1 \in A /\ rank[s] < rank[s] + 1
  BY <1>1, <1>4
<1> QED BY <1>5

LEMMA ResolvedGood ==
  ASSUME Ground, NEW rank, Known(rank), NEW t, Good(rank, t)
  PROVE  Resolved(t) = t
<1>1. t \in GoodTypes
  BY DEF Good
<1>2. [t EXCEPT !.seen = t.seen] = t
  BY <1>1 DEF GoodTypes
<1>3. CASE t.base \in Scalar \cup {"void"}
  BY <1>3 DEF Resolved, Resolve
<1>4. CASE t.base \notin Scalar \cup {"void"}
  <2>1. /\ t.base \in Structs
        /\ t.seen \in SUBSET Structs /\ \A s \in t.seen : rank[s] > rank[t.base]
    BY <1>1, <1>4 DEF Good, GoodTypes
  <2>2. Resolves[<<t.base, t.seen>>]
    BY <2>1, ResolvesKnown
  <2>3. t.base \notin Scalar \cup {"void", "unknown"}
    BY <2>1, StructFacts
  <2> QED BY <1>2, <2>2, <2>3 DEF Resolved, Resolve
<1> QED BY <1>3, <1>4

LEMMA FieldGood ==
  ASSUME Ground, NEW rank, Known(rank), NEW t, Good(rank, t),
         t.base \in Structs, NEW i \in DOMAIN Fields(t.base)
  PROVE  Good(rank, FieldType(t, i))
<1> DEFINE f == Fields(t.base)[i].type
           in == t.seen \cup {t.base}
<1>1. f \in WrittenTypes /\ f.base \in Mentioned
  BY StructFacts
<1>2. Good(rank, f) /\ f \in GoodTypes /\ f.base # "unknown"
  BY <1>1, WrittenGood DEF Good, WrittenTypes
<1>3. FieldType(t, i) = Resolve(f, in)
  BY DEF FieldType, Resolving
<1>4. CASE f.base \in Scalar \cup {"void"}
  BY <1>2, <1>3, <1>4 DEF Resolve
<1>5. CASE f.base \notin Scalar \cup {"void"}
  <2>1. f.base \in Structs
    BY <1>2, <1>5 DEF GoodTypes
  <2>2. rank[f.base] < rank[t.base]
    BY <2>1 DEF Known, Descends, Range
  <2>3. t.seen \in SUBSET Structs /\ \A s \in t.seen : rank[s] > rank[t.base]
    BY DEF Good, GoodTypes
  <2>4. \A s \in Structs : rank[s] \in Nat /\ s \in STRING
    BY RankFacts
  <2>5. in \in SUBSET Structs /\ \A s \in in : rank[s] > rank[f.base]
    <3> HIDE DEF f
    <3> QED BY <2>1, <2>2, <2>3, <2>4
  <2>6. Resolves[<<f.base, in>>]
    BY <2>1, <2>5, ResolvesKnown
  <2> HIDE DEF f, in
  <2>7. Resolve(f, in) = [f EXCEPT !.seen = in]
    BY <1>2, <1>5, <2>6 DEF Resolve
  <2>8. [f EXCEPT !.seen = in] \in GoodTypes
    BY <1>2, <2>5 DEF GoodTypes
  <2>9. [f EXCEPT !.seen = in].base = f.base /\ [f EXCEPT !.seen = in].seen = in
    BY <1>2 DEF GoodTypes
  <2> QED BY <1>3, <2>1, <2>5, <2>7, <2>8, <2>9 DEF Good
<1> QED BY <1>4, <1>5

---------------------------------------------------------------------------
(* Expressions: one that is given no type is reported, and one that is     *)
(* given a type has a good one and all its variables in the table.         *)

Names(es) == {es[i].name : i \in DOMAIN es}
GoodSymbols(rank) == \A i \in DOMAIN symbols_ : Good(rank, symbols_[i].value)

IsSequence(s) == \E S : s \in Seq(S)

Fine(rank, r) ==
  /\ IsSequence(r.reports)
  /\ IsUnknown(r) => r.reports # <<>>
  /\ ~ IsUnknown(r) => Good(rank, r.type)

LEMMA ConcatSequences ==
  ASSUME NEW s, NEW t, IsSequence(s), IsSequence(t)
  PROVE  IsSequence(s \o t) /\ (s \o t = <<>> => s = <<>> /\ t = <<>>)
<1>1. PICK S, T : s \in Seq(S) /\ t \in Seq(T)
  BY DEF IsSequence
<1>2. s \in Seq(S \cup T) /\ t \in Seq(S \cup T)
  BY <1>1
<1>3. s \o t \in Seq(S \cup T) /\ Len(s \o t) = Len(s) + Len(t)
  BY <1>2
<1>4. Len(s) \in Nat /\ Len(t) \in Nat
  BY <1>2
<1>5. s \o t = <<>> => Len(s) = 0 /\ Len(t) = 0
  BY <1>3, <1>4
<1> QED BY <1>2, <1>3, <1>5 DEF IsSequence

LEMMA OneReport == ASSUME NEW code PROVE IsSequence(<<code>>)
<1>1. <<code>> \in Seq({code})
  OBVIOUS
<1> QED BY <1>1 DEF IsSequence

LEMMA NoReport == IsSequence(<<>>)
<1>1. <<>> \in Seq({})
  OBVIOUS
<1> QED BY <1>1 DEF IsSequence

LEMMA SimpleGood ==
  ASSUME NEW rank, NEW b \in Scalar \cup {"void"}, Ground
  PROVE  Good(rank, Simple(b))
<1>1. Simple(b) \in GoodTypes /\ Simple(b).seen = {}
  BY DEF Simple, GoodTypes
<1> QED BY <1>1 DEF Good

LEMMA GoodIsKnown ==
  ASSUME Ground, NEW rank, NEW t, Good(rank, t) PROVE t # Unknown
<1>1. t.base # "unknown"
  BY StructFacts DEF Good, GoodTypes, Scalar
<1> QED BY <1>1 DEF Unknown, Simple

LEMMA ReportFine ==
  ASSUME NEW rank, NEW code
  PROVE  Fine(rank, Untyped(<<code>>)) /\ IsUnknown(Untyped(<<code>>))
BY OneReport DEF Fine, Untyped, Typed, IsUnknown

LEMMA RequireFine ==
  ASSUME NEW rank, NEW ok, NEW t, NEW code, ok => Good(rank, t), Ground
  PROVE  Fine(rank, Require(ok, t, code))
<1>1. CASE ok
  <2>1. t # Unknown
    BY <1>1, GoodIsKnown
  <2> QED BY <1>1, <2>1, NoReport DEF Fine, Require, Typed, IsUnknown
<1>2. CASE ~ ok
  BY <1>2, ReportFine DEF Require
<1> QED BY <1>1, <1>2

LEMMA TypedFine ==
  ASSUME Ground, NEW rank, NEW t, Good(rank, t)
  PROVE  Fine(rank, Typed(t, <<>>)) /\ ~ IsUnknown(Typed(t, <<>>))
BY GoodIsKnown, NoReport DEF Fine, Typed, IsUnknown

LEMMA BothFine ==
  ASSUME NEW rank, NEW a, NEW b, NEW r, Fine(rank, a), Fine(rank, b),
         ~ IsUnknown(a) /\ ~ IsUnknown(b) => Fine(rank, r)
  PROVE  /\ Fine(rank, Both(a, b, r))
         /\ ~ IsUnknown(Both(a, b, r)) => ~ IsUnknown(a) /\ ~ IsUnknown(b)
<1>1. CASE IsUnknown(a) \/ IsUnknown(b)
  <2>1. Both(a, b, r) = Untyped(a.reports \o b.reports)
    BY <1>1 DEF Both
  <2>3. IsSequence(a.reports) /\ IsSequence(b.reports)
    BY DEF Fine
  <2>4. IsSequence(a.reports \o b.reports) /\ a.reports \o b.reports # <<>>
    BY <1>1, <2>3, ConcatSequences DEF Fine
  <2> QED BY <2>1, <2>4 DEF Fine, Untyped, Typed, IsUnknown
<1>2. CASE ~ (IsUnknown(a) \/ IsUnknown(b))
  BY <1>2 DEF Both
<1> QED BY <1>1, <1>2

LEMMA MinOf ==
  ASSUME NEW S \in SUBSET Nat, S # {} PROVE Min(S) \in S
<1>1. PICK m \in S : \A y \in S : ~ (<<y, m>> \in LessThan)
  BY LessThanWellFounded, WFMin
<1>2. ASSUME NEW y \in S PROVE m <= y
  <2>1. m \in Nat /\ y \in Nat /\ ~ (<<y, m>> \in LessThan)
    BY <1>1
  <2>2. ~ (y < m)
    BY <2>1 DEF LessThan
  <2> QED BY <2>1, <2>2
<1> QED BY <1>2 DEF Min

LEMMA InOrderFine ==
  ASSUME Ground, NEW rank, NEW typed, NEW n \in Nat, DOMAIN typed = 1 .. n,
         \A i \in DOMAIN typed : Fine(rank, typed[i]),
         NEW wrong \in SUBSET DOMAIN typed, NEW code, NEW t,
         (\A i \in DOMAIN typed : ~ IsUnknown(typed[i])) => Good(rank, t)
  PROVE  /\ Fine(rank, InOrder(typed, wrong, code, t))
         /\ ~ IsUnknown(InOrder(typed, wrong, code, t)) =>
              \A i \in DOMAIN typed : ~ IsUnknown(typed[i])
<1> DEFINE bad == {i \in DOMAIN typed : IsUnknown(typed[i]) \/ i \in wrong}
<1>1. CASE bad = {}
  <2>1. \A i \in DOMAIN typed : ~ IsUnknown(typed[i])
    BY <1>1
  <2>2. InOrder(typed, wrong, code, t) = Typed(t, <<>>)
    BY <1>1 DEF InOrder
  <2> QED BY <2>1, <2>2, TypedFine
<1>2. CASE bad # {}
  <2> DEFINE i == Min(bad)
             codes == IF IsUnknown(typed[i]) THEN typed[i].reports ELSE <<code>>
  <2>1. i \in bad
    <3>1. bad \in SUBSET Nat
      OBVIOUS
    <3> HIDE DEF bad
    <3> QED BY <1>2, <3>1, MinOf
  <2>2. InOrder(typed, wrong, code, t) = Untyped(codes)
    BY <1>2 DEF InOrder
  <2> HIDE DEF i
  <2>3. IsSequence(codes) /\ codes # <<>>
    BY <2>1, OneReport DEF Fine
  <2> QED BY <2>2, <2>3 DEF Fine, Untyped, Typed, IsUnknown
<1> QED BY <1>1, <1>2

(* The rules, given operands with good types.                              *)
LEMMA BinaryFine ==
  ASSUME Ground, NEW rank, NEW op, NEW l, NEW r, Good(rank, l), Good(rank, r)
  PROVE  Fine(rank, BinaryType(op, l, r))
<1>1. Good(rank, Simple("double")) /\ Good(rank, Simple("bool"))
  BY SimpleGood DEF Scalar
<1>2. Good(rank, IF IsInt(l) /\ IsInt(r) THEN l ELSE Simple("double"))
  BY <1>1
<1> DEFINE d == IF IsInt(l) /\ IsInt(r) THEN l ELSE Simple("double")
<1>4. \A ok, code :
        /\ Fine(rank, Require(ok, d, code))
        /\ Fine(rank, Require(ok, l, code))
        /\ Fine(rank, Require(ok, Simple("bool"), code))
  BY <1>1, <1>2, RequireFine
<1> QED BY <1>4, Zenon DEF BinaryType

LEMMA StepFine ==
  ASSUME Ground, NEW rank, NEW operand, NEW t, Good(rank, t)
  PROVE  Fine(rank, StepType(operand, t))
<1>1. Fine(rank, Untyped(<<"increment_requires_numeric">>))
  BY ReportFine
<1>2. Fine(rank, Require(IsLvalue[operand], t, "increment_requires_lvalue"))
  BY RequireFine
<1> QED BY <1>1, <1>2 DEF StepType

LEMMA UnaryFine ==
  ASSUME Ground, NEW rank, NEW op, NEW operand, NEW t, Good(rank, t)
  PROVE  Fine(rank, UnaryType(op, operand, t))
<1>1. \A ok, code : Fine(rank, Require(ok, t, code))
  BY RequireFine
<1>2. Fine(rank, StepType(operand, t))
  BY StepFine
<1> QED BY <1>1, <1>2, Zenon DEF UnaryType

LEMMA AssignmentFine ==
  ASSUME Ground, NEW rank, NEW op, NEW target, NEW t, NEW v, Good(rank, t)
  PROVE  Fine(rank, AssignmentType(op, target, t, v))
<1>1. \A ok, code : Fine(rank, Require(ok, t, code))
  BY RequireFine
<1>2. Fine(rank, Untyped(<<"compound_requires_lvalue">>))
  BY ReportFine
<1> QED BY <1>1, <1>2, Zenon DEF AssignmentType

LEMMA ElementGood ==
  ASSUME NEW rank, NEW t, Good(rank, t), IsArray(t)
  PROVE  Good(rank, Element(t))
<1>1. t \in GoodTypes /\ t.dims \in Seq(Nat) /\ t.dims # <<>>
  BY DEF Good, IsArray, GoodTypes
<1>2. Tail(t.dims) \in Seq(Nat)
  BY <1>1
<1>3. /\ Element(t) \in GoodTypes
      /\ Element(t).base = t.base /\ Element(t).seen = t.seen
  BY <1>1, <1>2 DEF Element, GoodTypes
<1> QED BY <1>3 DEF Good

LEMMA ArrayGood ==
  ASSUME NEW rank, NEW t, Good(rank, t), NEW n \in Nat
  PROVE  Good(rank, ArrayOf(t, n))
<1>1. t \in GoodTypes /\ t.dims \in Seq(Nat)
  BY DEF Good, GoodTypes
<1>2. <<n>> \o t.dims \in Seq(Nat)
  BY <1>1
<1>3. /\ ArrayOf(t, n) \in GoodTypes
      /\ ArrayOf(t, n).base = t.base /\ ArrayOf(t, n).seen = t.seen
  BY <1>1, <1>2 DEF ArrayOf, GoodTypes
<1> QED BY <1>3 DEF Good

LEMMA IndexFine ==
  ASSUME Ground, NEW rank, NEW t, NEW i, Good(rank, t)
  PROVE  Fine(rank, IndexType(t, i))
<1>1. Fine(rank, Untyped(<<"indexing_non_array">>))
  BY ReportFine
<1>2. IsArray(t) => Fine(rank, Require(IsInt(i), Element(t), "index_must_be_integer"))
  BY ElementGood, RequireFine
<1> QED BY <1>1, <1>2 DEF IndexType

(* The first field of that name, which is one of them.                     *)
LEMMA FieldIndexIs ==
  ASSUME NEW t, NEW name, FieldIndex(t, name) # 0,
         NEW S, Fields(t.base) \in Seq(S)
  PROVE  FieldIndex(t, name) \in DOMAIN Fields(t.base)
<1> DEFINE fs == Fields(t.base)
           I == {i \in 1 .. Len(fs) : fs[i].name = name}
<1>1. FieldIndex(t, name) = IF I # {} THEN Min(I) ELSE 0
  BY DEF FieldIndex, SelectInSeq
<1>2. I # {} /\ FieldIndex(t, name) = Min(I)
  BY <1>1
<1>3. I \in SUBSET Nat
  OBVIOUS
<1>4. Min(I) \in I
  <2> HIDE DEF I
  <2> QED BY <1>2, <1>3, MinOf
<1> QED BY <1>2, <1>4

LEMMA MemberFine ==
  ASSUME Ground, NEW rank, Known(rank), NEW t, NEW member, Good(rank, t)
  PROVE  Fine(rank, MemberType(t, member))
<1> DEFINE i == FieldIndex(t, member)
<1>1. Resolved(t) = t /\ t # Unknown
  BY ResolvedGood, GoodIsKnown
<1>2. /\ Fine(rank, Untyped(<<"not_a_struct">>))
      /\ Fine(rank, Untyped(<<"no_such_field">>))
  BY ReportFine
<1>3. ASSUME IsStruct(t), i # 0 PROVE Fine(rank, Typed(FieldType(t, i), <<>>))
  <2>1. t.base \in Structs
    BY <1>3 DEF IsStruct, Good, GoodTypes
  <2>2. i \in DOMAIN Fields(t.base)
    BY <1>3, <2>1, StructFacts, FieldIndexIs
  <2>3. Good(rank, FieldType(t, i))
    BY <2>1, <2>2, FieldGood
  <2> HIDE DEF i
  <2> QED BY <2>3, TypedFine
<1> HIDE DEF i
<1>4. MemberType(t, member) =
        IF ~ IsStruct(t) THEN Untyped(<<"not_a_struct">>)
        ELSE IF i = 0 THEN Untyped(<<"no_such_field">>) ELSE Typed(FieldType(t, i), <<>>)
  BY <1>1 DEF MemberType, i
<1> QED BY <1>2, <1>3, <1>4

LEMMA ListFine ==
  ASSUME Ground, NEW rank, NEW typed, NEW n \in Nat, DOMAIN typed = 1 .. n, Len(typed) = n,
         \A i \in DOMAIN typed : Fine(rank, typed[i])
  PROVE  /\ Fine(rank, ListType(typed))
         /\ ~ IsUnknown(ListType(typed)) => \A i \in DOMAIN typed : ~ IsUnknown(typed[i])
<1>1. CASE typed = <<>>
  BY <1>1, ReportFine DEF ListType
<1>2. CASE typed # <<>>
  <2> DEFINE wrong == {i \in DOMAIN typed : ~ SameType(typed[i].type, typed[1].type)}
             t == ArrayOf(typed[1].type, Len(typed))
  <2>1. (\A i \in DOMAIN typed : ~ IsUnknown(typed[i])) => Good(rank, t)
    <3>1. CASE n = 0
      <4>1. typed = <<>>
        BY <3>1
      <4> QED BY <1>2, <4>1
    <3>2. CASE n # 0
      <4>1. 1 \in DOMAIN typed
        BY <3>2
      <4> QED BY <4>1, ArrayGood DEF Fine
    <3> QED BY <3>1, <3>2
  <2>2. wrong \in SUBSET DOMAIN typed
    OBVIOUS
  <2>3. ListType(typed) = InOrder(typed, wrong, "initializer_list_inconsistent_types", t)
    BY <1>2 DEF ListType
  <2> HIDE DEF wrong, t
  <2> QED BY <2>1, <2>2, <2>3, InOrderFine
<1> QED BY <1>1, <1>2

LEMMA FunctionType ==
  ASSUME Ground, NEW rank, Known(rank), NEW name \in DOMAIN registry_, ~ HasStruct(name)
  PROVE  Good(rank, Ast[registry_[name]].type)
<1> DEFINE n == registry_[name]
<1>1. CASE n \in Builtins
  <2>1. n \in DOMAIN Ast /\ Ast[n].kind = "builtin" /\ Ast[n].type.base \in Scalar \cup {"void"}
    BY <1>1, AstAssumption DEF OfKind
  <2>2. Ast[n].type \in WrittenTypes
    BY <2>1, AstAssumption DEF WellFormed
  <2> QED BY <2>1, <2>2 DEF Good, GoodTypes, WrittenTypes
<1>2. CASE n \notin Builtins
  <2>1. PICK i \in DOMAIN program : n = program[i] /\ Ast[n].kind \in {"func", "struct"}
    BY <1>2, RegistryFacts
  <2>2. Ast[n].kind = "func"
    BY <2>1 DEF HasStruct
  <2>3. n \in DOMAIN Ast
    BY <2>1, ProgramShape DEF Ground
  <2>4. n \in Text(program)
    BY <2>1, <2>3, WithinIs DEF Text
  <2>5. Ast[n].type \in WrittenTypes
    BY <2>2, <2>3, AstAssumption DEF WellFormed
  <2>6. Ast[n].type.base \in Mentioned
    BY <2>2, <2>3, <2>4 DEF Mentioned, OfKind
  <2> QED BY <2>5, <2>6, WrittenGood
<1> QED BY <1>1, <1>2

LEMMA CallFine ==
  ASSUME Ground, NEW rank, Known(rank), NEW callee,
         NEW typed, NEW n \in Nat, DOMAIN typed = 1 .. n,
         \A i \in DOMAIN typed : Fine(rank, typed[i])
  PROVE  /\ Fine(rank, CallType(callee, typed))
         /\ ~ IsUnknown(CallType(callee, typed)) =>
              /\ \A i \in DOMAIN typed : ~ IsUnknown(typed[i])
              /\ callee \in DOMAIN registry_ /\ ~ HasStruct(callee)
              /\ Len(Ast[registry_[callee]].params) = Len(typed)
<1> DEFINE func == Ast[registry_[callee]]
           wrong == {i \in DOMAIN typed : ~ SameType(typed[i].type, func.params[i].type)}
           result == InOrder(typed, wrong, "argument_type_mismatch", func.type)
<1>1. \A code : Fine(rank, Untyped(<<code>>)) /\ IsUnknown(Untyped(<<code>>))
  BY ReportFine
<1>2. CASE callee \in DOMAIN registry_ /\ ~ HasStruct(callee) /\ Len(func.params) = Len(typed)
  <2>1. Good(rank, func.type)
    BY <1>2, FunctionType
  <2>2. wrong \in SUBSET DOMAIN typed
    OBVIOUS
  <2>3. CallType(callee, typed) = result
    BY <1>2, Zenon DEF CallType
  <2>4. Len(Ast[registry_[callee]].params) = Len(typed)
    BY <1>2
  <2> HIDE DEF wrong, func
  <2> QED BY <1>2, <2>1, <2>2, <2>3, <2>4, InOrderFine
<1>3. CASE ~ (callee \in DOMAIN registry_ /\ ~ HasStruct(callee)
              /\ Len(func.params) = Len(typed))
  <2> HIDE DEF wrong
  <2>1. \E code : CallType(callee, typed) = Untyped(<<code>>)
    <3>1. CASE callee \notin DOMAIN registry_
      <4>1. ~ HasStruct(callee)
        BY <3>1 DEF HasStruct
      <4>2. CallType(callee, typed) = Untyped(<<"undefined_function">>)
        BY <3>1, <4>1, Zenon DEF CallType
      <4> QED BY <4>2
    <3>2. CASE callee \in DOMAIN registry_ /\ HasStruct(callee)
      BY <3>2, Zenon DEF CallType
    <3>3. CASE callee \in DOMAIN registry_ /\ ~ HasStruct(callee)
      <4>1. Len(func.params) # Len(typed)
        BY <1>3, <3>3
      <4>2. CallType(callee, typed) = Untyped(<<"argument_count_mismatch">>)
        BY <3>3, <4>1, Zenon DEF CallType
      <4> QED BY <4>2
    <3> QED BY <3>1, <3>2, <3>3
  <2> QED BY <1>1, <2>1
<1> QED BY <1>2, <1>3

LEMMA VariableFine ==
  ASSUME Ground, NEW rank, GoodSymbols(rank), IsTable(symbols_), NEW name
  PROVE  /\ Fine(rank, VariableType(name))
         /\ ~ IsUnknown(VariableType(name)) => name \in Names(symbols_)
<1> DEFINE i == FindEntry(symbols_, name)
<1>1. i # 0 => i \in DOMAIN symbols_ /\ symbols_[i].name = name
  BY FindEntryProperties DEF IsTable
<1> HIDE DEF i
<1>2. VariableType(name) = IF i = 0 THEN Untyped(<<"undefined_variable">>)
                           ELSE Typed(symbols_[i].value, <<>>)
  BY DEF VariableType, i
<1>3. i # 0 => Fine(rank, Typed(symbols_[i].value, <<>>))
  BY <1>1, TypedFine DEF GoodSymbols
<1> QED BY <1>1, <1>2, <1>3, ReportFine DEF Names

(* Every call in the text of n fits a declaration.                         *)
Fits(n) == \A m \in Within[n] : CallFits(m)

LEMMA FitsIs ==
  ASSUME NEW n \in DOMAIN Ast
  PROVE  Fits(n) <=> CallFits(n) /\ \A k \in Kids(n) : Fits(k)
BY WithinIs DEF Fits

LEMMA FitsOfKids ==
  ASSUME NEW n \in DOMAIN Ast, CallFits(n),
         \A i \in DOMAIN Ast[n].kids : Ast[n].kids[i] # None => Fits(Ast[n].kids[i])
  PROVE  Fits(n)
<1>1. \A k \in Kids(n) : Fits(k)
  BY DEF Kids, Range
<1> QED BY <1>1, FitsIs

(* What holds of an expression n, by induction over its height.            *)
Sound(rank, n) ==
  /\ Fine(rank, TypeOf(n))
  /\ ~ IsUnknown(TypeOf(n)) => Free[n] \subseteq Names(symbols_) /\ Fits(n)

TypingContext(rank) ==
  Ground /\ Known(rank) /\ GoodSymbols(rank) /\ IsTable(symbols_)

LEMMA ShortSequences ==
  ASSUME NEW S
  PROVE  <<>> \in Seq(S) /\ [1 .. 1 -> S] \subseteq Seq(S) /\ S \X S \subseteq Seq(S)
<1>1. ASSUME NEW s \in [1 .. 1 -> S] PROVE s \in Seq(S)
  <2>1. s = [i \in 1 .. 1 |-> s[i]] /\ s[1] \in S
    OBVIOUS
  <2>2. s = <<s[1]>>
    BY <2>1
  <2>3. \A x \in S : <<x>> \in Seq(S)
    OBVIOUS
  <2> QED BY <2>1, <2>2, <2>3
<1>2. ASSUME NEW s \in S \X S PROVE s \in Seq(S)
  <2>1. PICK x \in S, y \in S : s = <<x, y>>
    OBVIOUS
  <2>2. <<x, y>> \in Seq(S)
    OBVIOUS
  <2> QED BY <2>1, <2>2
<1>3. <<>> \in Seq(S)
  OBVIOUS
<1> QED BY <1>1, <1>2, <1>3

LEMMA ExprShape ==
  ASSUME NEW n \in Expr
  PROVE  /\ n \in DOMAIN Ast /\ Ast[n].kind \in ExpressionKinds
         /\ Ast[n].kids \in Seq(Expr)
         /\ \A i \in DOMAIN Ast[n].kids :
               Ast[n].kids[i] \in Expr /\ Ast[n].kids[i] \in Kids(n)
<1>1. n \in DOMAIN Ast /\ Ast[n].kind \in ExpressionKinds
  BY DEF Expr, OfKind
<1>2. Ast[n].kids \in Seq(Expr)
  <2>1. CASE Ast[n].kind \in {"literal", "variable"}
    BY <1>1, <2>1, LeafShape, ShortSequences
  <2>2. CASE Ast[n].kind \in {"unary", "postfix", "member"}
    <3>1. Ast[n].kids \in [1 .. 1 -> Expr]
      BY <1>1, <2>2, KidsKind, Zenon DEF Children, Expr
    <3> QED BY <3>1, ShortSequences
  <2>3. CASE Ast[n].kind \in {"binary", "assignment", "index"}
    <3>1. Ast[n].kids \in Expr \X Expr
      BY <1>1, <2>3, KidsKind DEF Children, Expr
    <3> QED BY <3>1, ShortSequences
  <2>4. CASE Ast[n].kind \in {"call", "list"}
    BY <1>1, <2>4, ListShape
  <2> QED BY <1>1, <2>1, <2>2, <2>3, <2>4 DEF ExpressionKinds
<1>3. \A i \in DOMAIN Ast[n].kids : Ast[n].kids[i] \in Expr
  BY <1>2, Elements
<1>4. \A i \in DOMAIN Ast[n].kids : Ast[n].kids[i] \in Kids(n)
  BY <1>1, <1>3, KindFacts, KidInTable
<1> QED BY <1>1, <1>2, <1>3, <1>4

(* The variables of an expression are those of its operands.               *)
LEMMA FreeOfKids ==
  ASSUME NEW n \in Expr, Ast[n].kind # "variable", NEW X,
         \A i \in DOMAIN Ast[n].kids : Free[Ast[n].kids[i]] \subseteq X
  PROVE  Free[n] \subseteq X
<1>1. Ast[n].kind \notin {"variable", "block", "for", "while", "func"} /\ n \in DOMAIN Ast
  BY ExprShape DEF ExpressionKinds
<1>2. Free[n] = UNION {FreeOf(Free, Ast[n].kids[i]) : i \in DOMAIN Ast[n].kids}
  <2>1. Free[n] = FreeFrom(Free, n)
    BY <1>1, FreeIs
  <2>2. FreeFrom(Free, n) = UNION {FreeOf(Free, Ast[n].kids[i]) : i \in DOMAIN Ast[n].kids}
    BY <1>1, FreeFromIs
  <2> QED BY <2>1, <2>2
<1>3. \A i \in DOMAIN Ast[n].kids : FreeOf(Free, Ast[n].kids[i]) \subseteq X
  BY ExprShape, KindFacts DEF FreeOf
<1> HIDE DEF Free
<1> QED BY <1>2, <1>3

LEMMA SoundStep ==
  ASSUME NEW rank, TypingContext(rank), NEW n \in Expr,
         \A i \in DOMAIN Ast[n].kids : Sound(rank, Ast[n].kids[i])
  PROVE  Sound(rank, n)
<1> DEFINE e == Ast[n]
           kid(i) == TypeOf(e.kids[i])
           kids == [i \in DOMAIN e.kids |-> TypeOf(e.kids[i])]
           one(typed) == IF IsUnknown(kid(1)) THEN kid(1) ELSE typed
<1> USE DEF TypingContext
<1>1. /\ n \in DOMAIN Ast /\ e.kind \in ExpressionKinds /\ e.kids \in Seq(Expr)
      /\ \A i \in DOMAIN e.kids : Typing[e.kids[i]] = kid(i)
  <2>1. \A i \in DOMAIN e.kids : e.kids[i] \in DOMAIN Ast
    BY ExprShape
  <2> QED BY <2>1, ExprShape DEF Typing
<1>2. TypeOf(n) = TypeFrom(Typing, n)
  BY <1>1, TypeOfIs
<1>3. \A i \in DOMAIN e.kids : Fine(rank, kid(i))
  BY DEF Sound
<1>4. ASSUME e.kind # "variable", \A i \in DOMAIN e.kids : ~ IsUnknown(kid(i))
      PROVE  Free[n] \subseteq Names(symbols_) /\ (CallFits(n) => Fits(n))
  BY <1>1, <1>4, FreeOfKids, FitsOfKids DEF Sound
<1> HIDE DEF Sound
<1>5. SUFFICES /\ Fine(rank, TypeOf(n))
               /\ ~ IsUnknown(TypeOf(n)) =>
                    \/ e.kind = "variable" /\ e.name \in Names(symbols_)
                    \/ /\ e.kind # "variable" /\ \A i \in DOMAIN e.kids : ~ IsUnknown(kid(i))
                       /\ CallFits(n)
  <2>1. e.kind = "variable" => Free[n] = {e.name} /\ Fits(n)
    <3>1. e.kind = "variable" => DOMAIN e.kids = {}
      BY <1>1, LeafShape
    <3> QED BY <1>1, <3>1, FreeIs, FreeFromIs, FitsOfKids DEF CallFits
  <2> QED BY <1>4, <1>5, <2>1 DEF Sound
<1>6. e.kind # "call" => CallFits(n)
  BY DEF CallFits
<1>7. CASE e.kind = "literal"
  <2>1. e.value.t \in Scalar
    BY <1>1, <1>7, AstAssumption DEF WellFormed
  <2>2. TypeOf(n) = Typed(Simple(e.value.t), <<>>)
    BY <1>2, <1>7 DEF TypeFrom
  <2>3. DOMAIN e.kids = {}
    BY <1>1, <1>7, LeafShape
  <2> QED BY <1>6, <1>7, <2>1, <2>2, <2>3, SimpleGood, TypedFine
<1>8. CASE e.kind = "variable"
  <2>1. TypeOf(n) = VariableType(e.name)
    BY <1>2, <1>8 DEF TypeFrom
  <2> QED BY <1>8, <2>1, VariableFine
<1>9. CASE e.kind \in {"unary", "postfix", "member"}
  <2> DEFINE k == kid(1)
             r == CASE e.kind = "unary" -> UnaryType(e.op, e.kids[1], k.type)
                    [] e.kind = "postfix" -> StepType(e.kids[1], k.type)
                    [] OTHER -> MemberType(k.type, e.name)
  <2>1. DOMAIN e.kids = {1} /\ Typing[e.kids[1]] = k
    BY <1>1, <1>9, OneShape
  <2>2. Fine(rank, k)
    BY <1>3, <2>1
  <2>3. TypeOf(n) = IF IsUnknown(k) THEN k ELSE r
    BY <1>2, <1>9, <2>1 DEF TypeFrom
  <2> HIDE DEF k
  <2>4. ~ IsUnknown(k) => Fine(rank, r)
    <3>1. SUFFICES ASSUME Good(rank, k.type) PROVE Fine(rank, r)
      BY <2>2 DEF Fine
    <3>2. /\ Fine(rank, UnaryType(e.op, e.kids[1], k.type))
          /\ Fine(rank, StepType(e.kids[1], k.type))
          /\ Fine(rank, MemberType(k.type, e.name))
      BY <3>1, UnaryFine, StepFine, MemberFine
    <3> QED BY <3>2
  <2> HIDE DEF r
  <2> QED BY <1>6, <1>9, <2>1, <2>2, <2>3, <2>4 DEF k
<1>10. CASE e.kind \in {"binary", "assignment", "index"}
  <2> DEFINE a == kid(1)
             b == kid(2)
             r == CASE e.kind = "binary" -> BinaryType(e.op, a.type, b.type)
                    [] e.kind = "assignment" ->
                         AssignmentType(e.op, e.kids[1], a.type, b.type)
                    [] OTHER -> IndexType(a.type, b.type)
  <2>1. DOMAIN e.kids = {1, 2} /\ Typing[e.kids[1]] = a /\ Typing[e.kids[2]] = b
    BY <1>1, <1>10, TwoShape
  <2>2. Fine(rank, a) /\ Fine(rank, b)
    BY <1>3, <2>1
  <2>3. TypeOf(n) = Both(a, b, r)
    BY <1>2, <1>10, <2>1 DEF TypeFrom
  <2>4. \A i \in DOMAIN e.kids : kid(i) = a \/ kid(i) = b
    BY <2>1
  <2> HIDE DEF a, b
  <2>5. ~ IsUnknown(a) /\ ~ IsUnknown(b) => Fine(rank, r)
    <3>1. SUFFICES ASSUME Good(rank, a.type), Good(rank, b.type) PROVE Fine(rank, r)
      BY <2>2 DEF Fine
    <3>2. /\ Fine(rank, BinaryType(e.op, a.type, b.type))
          /\ Fine(rank, AssignmentType(e.op, e.kids[1], a.type, b.type))
          /\ Fine(rank, IndexType(a.type, b.type))
      BY <3>1, BinaryFine, AssignmentFine, IndexFine
    <3> QED BY <3>2
  <2> HIDE DEF r
  <2>6. /\ Fine(rank, Both(a, b, r))
        /\ ~ IsUnknown(Both(a, b, r)) => ~ IsUnknown(a) /\ ~ IsUnknown(b)
    BY <2>2, <2>5, BothFine
  <2> QED BY <1>6, <1>10, <2>3, <2>4, <2>6
<1>11. CASE e.kind \in {"call", "list"}
  <2>1. DOMAIN kids = 1 .. Len(e.kids) /\ Len(e.kids) \in Nat /\ Len(kids) = Len(e.kids)
    BY <1>1
  <2>2. \A i \in DOMAIN kids : kids[i] = kid(i) /\ Fine(rank, kids[i])
    BY <1>3
  <2>3. kids = [i \in DOMAIN e.kids |-> Typing[e.kids[i]]] /\ DOMAIN kids = DOMAIN e.kids
    BY <1>1
  <2>4. TypeOf(n) = IF e.kind = "call" THEN CallType(e.name, kids) ELSE ListType(kids)
    BY <1>2, <1>11, <2>3 DEF TypeFrom
  <2> HIDE DEF kids
  <2>5. /\ Fine(rank, CallType(e.name, kids))
        /\ ~ IsUnknown(CallType(e.name, kids)) =>
             /\ \A i \in DOMAIN kids : ~ IsUnknown(kids[i])
             /\ CallFits(n)
    BY <2>1, <2>2, CallFine DEF CallFits
  <2>6. /\ Fine(rank, ListType(kids))
        /\ ~ IsUnknown(ListType(kids)) => \A i \in DOMAIN kids : ~ IsUnknown(kids[i])
    BY <2>1, <2>2, ListFine
  <2> QED BY <1>11, <1>6, <2>2, <2>3, <2>4, <2>5, <2>6
<1> QED BY <1>1, <1>7, <1>8, <1>9, <1>10, <1>11 DEF ExpressionKinds

LEMMA ExpressionsSound ==
  ASSUME NEW rank, TypingContext(rank), NEW n \in Expr
  PROVE  Sound(rank, n)
<1> DEFINE X == {m \in DOMAIN Ast : m \in Expr => Sound(rank, m)}
<1>1. ASSUME NEW m \in DOMAIN Ast, Kids(m) \subseteq X PROVE m \in X
  <2>1. ASSUME m \in Expr PROVE Sound(rank, m)
    <3>1. \A i \in DOMAIN Ast[m].kids : Sound(rank, Ast[m].kids[i])
      BY <1>1, <2>1, ExprShape
    <3> QED BY <2>1, <3>1, SoundStep
  <2> QED BY <2>1
<1> HIDE DEF X
<1>2. DOMAIN Ast \subseteq X
  BY <1>1, AllNodes
<1> QED BY <1>2, ExprShape DEF X

---------------------------------------------------------------------------
(* Declarations.                                                           *)

LEMMA StructListFine ==
  ASSUME Ground, NEW rank, NEW elements, NEW t, Good(rank, t)
  PROVE  Fine(rank, StructListResult(elements, t))
<1>1. \A ok, code : Fine(rank, Require(ok, t, code))
  BY RequireFine
<1>2. \A code : Fine(rank, Untyped(<<code>>))
  BY ReportFine
<1> QED BY <1>1, <1>2, Zenon DEF StructListResult

LEMMA VarSound ==
  ASSUME NEW rank, TypingContext(rank), Task.node \in DOMAIN Ast, Node.kind = "var",
         Node.type.base \in Mentioned
  PROVE  /\ Fine(rank, VarResult)
         /\ ~ IsUnknown(VarResult) /\ Has(1) =>
              Free[Kid(1)] \subseteq Names(symbols_) /\ Fits(Kid(1))
<1> USE DEF TypingContext
<1> DEFINE t == Node.type
           init == TypeOf(Kid(1))
           struct == IsStruct(t) /\ Ast[Kid(1)].kind = "list"
           unsized == IsArray(t) /\ Head(t.dims) = 0 /\ IsArray(init.type)
           inferred == ArrayOf(Element(t), Head(init.type.dims))
           ofList == StructListResult(Ast[Kid(1)].kids, t)
           ofUnsized == Require(SameType(Element(t), Element(init.type)), inferred,
                                "type_mismatch_initialization")
           ofOther == Require(SameType(t, init.type), t, "type_mismatch_initialization")
           void == Untyped(<<"void_variable">>)
           twice == Untyped(<<"redeclaration">>)
           InScope == DeclaredInCurrentScope(symbols_, symbols_depth, Node.name)
           result == IF ~ Has(1) THEN Typed(t, <<>>)
                     ELSE IF IsUnknown(init) THEN init
                     ELSE IF struct THEN ofList
                     ELSE IF unsized THEN ofUnsized ELSE ofOther
<1>1. t \in WrittenTypes
  BY AstAssumption DEF WellFormed, Node
<1>2. Good(rank, t) /\ t # Unknown /\ Resolved(t) = t
  BY <1>1, WrittenGood, GoodIsKnown, ResolvedGood
<1>3. Has(1) => Kid(1) \in Expr
  BY MaybeShape DEF Has, Kid, Node
<1>4. Has(1) => Sound(rank, Kid(1))
  BY <1>3, ExpressionsSound
<1>5. VarResult = IF t = Simple("void") THEN void ELSE IF InScope THEN twice ELSE result
  <2>1. CASE t = Simple("void")
    BY <1>2, <2>1, Zenon DEF VarResult
  <2>2. CASE t # Simple("void") /\ InScope
    <3>1. t \notin {Unknown, Simple("void")}
      BY <1>2, <2>2
    <3> QED BY <1>2, <2>2, <3>1, Zenon DEF VarResult
  <2>3. CASE t # Simple("void") /\ ~ InScope
    <3>1. IsStruct(t) => ~ IsArray(t)
      BY DEF IsStruct
    <3> QED BY <1>2, <2>3, <3>1, Zenon DEF VarResult
  <2> QED BY <2>1, <2>2, <2>3
<1>6. Fine(rank, void) /\ IsUnknown(void) /\ Fine(rank, twice) /\ IsUnknown(twice)
  BY ReportFine
<1>7. Fine(rank, Typed(t, <<>>)) /\ Fine(rank, ofList) /\ Fine(rank, ofOther)
  BY <1>2, TypedFine, StructListFine, RequireFine
<1>8. Has(1) => /\ Fine(rank, init)
                /\ ~ IsUnknown(init) => Free[Kid(1)] \subseteq Names(symbols_) /\ Fits(Kid(1))
  BY <1>4 DEF Sound
<1>9. Has(1) /\ ~ IsUnknown(init) /\ unsized => Fine(rank, ofUnsized)
  <2> SUFFICES ASSUME Has(1), ~ IsUnknown(init), unsized PROVE Fine(rank, ofUnsized)
    OBVIOUS
  <2>1. Good(rank, Element(t)) /\ Good(rank, init.type)
    BY <1>2, <1>8, ElementGood DEF Fine
  <2>2. Head(init.type.dims) \in Nat
    BY <2>1 DEF Good, GoodTypes, IsArray
  <2>3. Good(rank, inferred)
    BY <2>1, <2>2, ArrayGood
  <2> HIDE DEF inferred
  <2> QED BY <2>3, RequireFine
<1> HIDE DEF t, init, struct, unsized, ofList, ofUnsized, ofOther, void, twice, InScope
<1>10. /\ Fine(rank, result)
       /\ ~ IsUnknown(result) /\ Has(1) => ~ IsUnknown(init)
  BY <1>7, <1>8, <1>9
<1> HIDE DEF result
<1> QED BY <1>5, <1>6, <1>8, <1>10

---------------------------------------------------------------------------
(* The obligations of the stack: what the tasks use is what they will see, *)
(* the entries of the scopes that are still open when they run, and what   *)
(* the tasks before them declare in the same scope.                        *)

DeclaredBy(task) == IF task.do = "check" THEN Declared(task.node) ELSE {}

HeadFree(n) == UNION {FreeOf(Free, Ast[n].kids[i]) : i \in {2, 3, 4}}
Wants(task) == IF task.do = "check" THEN Free[task.node]
               ELSE IF task.do = "head" THEN HeadFree(task.node) ELSE {}

(* A task fits if the calls in what it checks do.                          *)
TaskFits(task) ==
  IF task.do = "check" THEN Fits(task.node)
  ELSE task.do = "head" =>
         \A i \in {2, 3, 4} : Ast[task.node].kids[i] # None => Fits(Ast[task.node].kids[i])

GuardsUpTo(s, k) == {i \in 1 .. k : s[i] = ScopeGuard}
Under(s, k) == Cardinality(GuardsUpTo(s, k))
Beside(s, k, j) == \A i \in k + 1 .. j : s[i] # ScopeGuard

Seen(es, d) == {es[i].name : i \in {j \in DOMAIN es : es[j].scope_depth <= d}}
Above(s, k) == {j \in k + 1 .. Len(s) : Beside(s, k, j)}
Available(s, es, k) == Seen(es, Under(s, k)) \cup UNION {DeclaredBy(s[j]) : j \in Above(s, k)}
Supplied(s, es) == \A k \in 1 .. Len(s) : Wants(s[k]) \subseteq Available(s, es, k)

LEMMA UnderType ==
  ASSUME NEW s, NEW k \in Nat
  PROVE  IsFiniteSet(GuardsUpTo(s, k)) /\ Under(s, k) \in Nat
<1>1. IsFiniteSet(1 .. k)
  BY FS_Interval
<1>2. IsFiniteSet(GuardsUpTo(s, k))
  BY <1>1, FS_Subset DEF GuardsUpTo
<1> QED BY <1>2, FS_CardinalityType DEF Under

(* Fewer guards are under a task than under one above it, unless there are *)
(* none between them.                                                      *)
LEMMA UnderGrows ==
  ASSUME NEW s, NEW k \in Nat, NEW j \in Nat, k <= j
  PROVE  /\ Under(s, k) <= Under(s, j)
         /\ Under(s, k) = Under(s, j) => Beside(s, k, j)
<1> DEFINE A == GuardsUpTo(s, k)
           B == GuardsUpTo(s, j)
<1>1. A \subseteq B
  BY DEF GuardsUpTo
<1>2. IsFiniteSet(B)
  BY UnderType
<1>3. Cardinality(A) <= Cardinality(B) /\ (Cardinality(A) = Cardinality(B) => A = B)
  <2> HIDE DEF A, B
  <2> QED BY <1>1, <1>2, FS_Subset
<1>4. A = B => Beside(s, k, j)
  <2> SUFFICES ASSUME A = B, NEW i \in k + 1 .. j, s[i] = ScopeGuard PROVE FALSE
    BY DEF Beside
  <2>1. i \in B /\ i \notin A
    BY DEF GuardsUpTo
  <2> QED BY <2>1
<1> QED BY <1>3, <1>4 DEF Under

LEMMA UnderSame ==
  ASSUME NEW s, NEW t, NEW k \in Nat, \A i \in 1 .. k : s[i] = t[i]
  PROVE  Under(s, k) = Under(t, k)
<1>1. GuardsUpTo(s, k) = GuardsUpTo(t, k)
  BY DEF GuardsUpTo
<1> QED BY <1>1 DEF Under

LEMMA UnderAll ==
  ASSUME NEW S, NEW s \in Seq(S) PROVE Under(s, Len(s)) = Guards(s)
<1>1. GuardsUpTo(s, Len(s)) = {i \in DOMAIN s : s[i] \in {ScopeGuard}}
  BY DEF GuardsUpTo
<1> QED BY <1>1 DEF Under, Guards, CountIn

(* A step of the stack: the tasks above Front(s) are new, and what the     *)
(* table has gained is for the scope they open, or was declared by Last(s).*)
Continues(s, es, t, fs, tasks) ==
  /\ s \in Seq(TaskSet) /\ s # <<>> /\ tasks \in Seq(TaskSet)
  /\ t = Front(s) \o tasks
  /\ IsTable(es) /\ IsTable(fs) /\ Sorted(es, Guards(s))
  /\ \A i \in DOMAIN fs :
        fs[i].scope_depth <= Guards(s) =>
          \/ fs[i].name \in Seen(es, fs[i].scope_depth)
          \/ fs[i].scope_depth = Guards(s) /\ fs[i].name \in DeclaredBy(Last(s))
  /\ \/ tasks # <<>> /\ tasks[1] = ScopeGuard
     \/ \A i \in DOMAIN tasks : DeclaredBy(tasks[i]) = {}

LEMMA JoinFacts ==
  ASSUME NEW S, NEW s \in Seq(S), NEW t \in Seq(S)
  PROVE  /\ s \o t \in Seq(S) /\ Len(s \o t) = Len(s) + Len(t)
         /\ \A i \in 1 .. Len(s) : (s \o t)[i] = s[i]
         /\ \A i \in 1 .. Len(t) : (s \o t)[Len(s) + i] = t[i]
OBVIOUS

LEMMA StackFacts ==
  ASSUME NEW s, NEW es, NEW t, NEW fs, NEW tasks, Continues(s, es, t, fs, tasks)
  PROVE  /\ Len(s) \in Nat \ {0} /\ Len(tasks) \in Nat
         /\ t \in Seq(TaskSet) /\ Len(t) = Len(s) - 1 + Len(tasks)
         /\ \A i \in 1 .. Len(s) - 1 : t[i] = s[i]
         /\ \A i \in 1 .. Len(tasks) : t[Len(s) - 1 + i] = tasks[i]
         /\ Last(s) = s[Len(s)]
<1>1. /\ Front(s) \in Seq(TaskSet) /\ Len(Front(s)) = Len(s) - 1
      /\ Last(s) = s[Len(s)]
      /\ \A i \in 1 .. Len(s) - 1 : Front(s)[i] = s[i]
  BY FrontLast DEF Continues
<1>2. Len(s) \in Nat \ {0} /\ Len(tasks) \in Nat
  BY DEF Continues
<1> DEFINE f == Front(s)
<1> HIDE DEF f
<1>3. /\ f \o tasks \in Seq(TaskSet) /\ Len(f \o tasks) = Len(f) + Len(tasks)
      /\ \A i \in 1 .. Len(f) : (f \o tasks)[i] = f[i]
      /\ \A i \in 1 .. Len(tasks) : (f \o tasks)[Len(f) + i] = tasks[i]
  <2>1. f \in Seq(TaskSet) /\ tasks \in Seq(TaskSet)
    BY <1>1 DEF f, Continues
  <2> QED BY <2>1, JoinFacts
<1> QED BY <1>1, <1>2, <1>3 DEF f, Continues

LEMMA LowerAvailable ==
  ASSUME NEW s, NEW es, NEW t, NEW fs, NEW tasks, Continues(s, es, t, fs, tasks),
         NEW k \in 1 .. Len(s) - 1
  PROVE  Available(t, fs, k) \subseteq Available(s, es, k)
<1> DEFINE n == Len(s)
<1>1. /\ n \in Nat \ {0} /\ Len(tasks) \in Nat /\ k \in Nat /\ k <= n
      /\ Len(t) = n - 1 + Len(tasks)
      /\ \A i \in 1 .. n - 1 : t[i] = s[i]
      /\ \A i \in 1 .. Len(tasks) : t[n - 1 + i] = tasks[i]
      /\ Last(s) = s[n]
  BY StackFacts
<1>2. Under(t, k) = Under(s, k)
  <2>1. \A i \in 1 .. k : i \in 1 .. n - 1
    BY <1>1
  <2>2. \A i \in 1 .. k : t[i] = s[i]
    BY <1>1, <2>1
  <2> QED BY <1>1, <2>2, UnderSame
<1>3. /\ Under(s, k) \in Nat /\ Under(s, n) = Guards(s) /\ Under(s, k) <= Guards(s)
      /\ Under(s, k) = Guards(s) => n \in Above(s, k)
  <2>1. Under(s, n) = Guards(s)
    BY UnderAll DEF Continues
  <2>2. Under(s, k) <= Under(s, n) /\ (Under(s, k) = Under(s, n) => Beside(s, k, n))
    BY <1>1, UnderGrows
  <2> QED BY <1>1, <2>1, <2>2, UnderType DEF Above
<1>4. ASSUME NEW x \in Seen(fs, Under(t, k)) PROVE x \in Available(s, es, k)
  <2>1. PICK i \in DOMAIN fs : fs[i].scope_depth <= Under(s, k) /\ fs[i].name = x
    BY <1>2, <1>4 DEF Seen
  <2>2. fs[i].scope_depth \in Nat /\ fs[i].scope_depth <= Guards(s) /\ Guards(s) \in Nat
    BY <1>3, <2>1, TableFacts, UnderType DEF Continues
  <2>3. CASE x \in Seen(es, fs[i].scope_depth)
    <3>1. \A j \in DOMAIN es : es[j].scope_depth \in Nat
      BY TableFacts DEF Continues
    <3>2. PICK j \in DOMAIN es : es[j].scope_depth <= fs[i].scope_depth /\ es[j].name = x
      BY <2>3 DEF Seen
    <3>3. es[j].scope_depth <= Under(s, k)
      BY <1>3, <2>1, <2>2, <3>1, <3>2
    <3> QED BY <3>2, <3>3 DEF Available, Seen
  <2>4. CASE fs[i].scope_depth = Guards(s) /\ x \in DeclaredBy(Last(s))
    <3>1. n \in Above(s, k)
      BY <1>3, <2>1, <2>2, <2>4
    <3> QED BY <1>1, <2>4, <3>1 DEF Available
  <2> QED BY <2>1, <2>2, <2>3, <2>4 DEF Continues
<1>5. ASSUME NEW j \in Above(t, k), NEW x \in DeclaredBy(t[j])
      PROVE  x \in Available(s, es, k)
  <2>1. j \in k + 1 .. Len(t) /\ \A i \in k + 1 .. j : t[i] # ScopeGuard
    BY DEF Above, Beside
  <2>2. CASE j <= n - 1
    <3>0. \A i \in k + 1 .. j : i \in 1 .. n - 1
      BY <1>1, <2>1, <2>2
    <3>1. \A i \in k + 1 .. j : s[i] # ScopeGuard
      BY <1>1, <2>1, <3>0
    <3>2. j \in Above(s, k) /\ s[j] = t[j]
      BY <1>1, <2>1, <2>2, <3>1 DEF Above, Beside
    <3> QED BY <1>5, <3>2 DEF Available
  <2>3. CASE ~ (j <= n - 1)
    <3>1. j - n + 1 \in 1 .. Len(tasks) /\ t[j] = tasks[j - n + 1]
      <4>1. j - n + 1 \in 1 .. Len(tasks) /\ j = n - 1 + (j - n + 1)
        BY <1>1, <2>1, <2>3
      <4> QED BY <1>1, <4>1
    <3>2. CASE tasks # <<>> /\ tasks[1] = ScopeGuard
      <4>1. n \in k + 1 .. j /\ 1 \in 1 .. Len(tasks) /\ n = n - 1 + 1
        BY <1>1, <2>1, <2>3, <3>1
      <4>2. t[n] = tasks[1]
        BY <1>1, <4>1
      <4> QED BY <2>1, <3>2, <4>1, <4>2
    <3>3. CASE \A i \in DOMAIN tasks : DeclaredBy(tasks[i]) = {}
      <4>1. DOMAIN tasks = 1 .. Len(tasks)
        BY DEF Continues
      <4> QED BY <1>5, <3>1, <3>3, <4>1
    <3> QED BY <3>2, <3>3 DEF Continues
  <2> QED BY <2>2, <2>3
<1> QED BY <1>4, <1>5 DEF Available

(* What the task that is taken off needs is in the table: then the old     *)
(* stack is supplied if the new one is.                                    *)
LEMMA LowerSupplied ==
  ASSUME NEW s, NEW es, NEW t, NEW fs, NEW tasks, Continues(s, es, t, fs, tasks),
         Wants(Last(s)) \subseteq Names(es), Supplied(t, fs)
  PROVE  Supplied(s, es)
<1> DEFINE n == Len(s)
<1>1. /\ n \in Nat \ {0} /\ Len(tasks) \in Nat
      /\ Len(t) = n - 1 + Len(tasks)
      /\ \A i \in 1 .. n - 1 : t[i] = s[i]
      /\ Last(s) = s[n]
  BY StackFacts
<1> SUFFICES ASSUME NEW k \in 1 .. n PROVE Wants(s[k]) \subseteq Available(s, es, k)
  BY DEF Supplied
<1>2. CASE k = n
  <2>1. Under(s, n) = Guards(s)
    BY UnderAll DEF Continues
  <2>2. Names(es) \subseteq Seen(es, Guards(s))
    BY DEF Names, Seen, Continues, Sorted
  <2> QED BY <1>1, <1>2, <2>1, <2>2 DEF Available
<1>3. CASE k # n
  <2>1. k \in 1 .. n - 1 /\ k \in 1 .. Len(t) /\ t[k] = s[k]
    BY <1>1, <1>3
  <2>2. Wants(t[k]) \subseteq Available(t, fs, k)
    BY <2>1 DEF Supplied
  <2>3. Available(t, fs, k) \subseteq Available(s, es, k)
    BY <2>1, LowerAvailable
  <2> QED BY <2>1, <2>2, <2>3
<1> QED BY <1>2, <1>3

(* What the new stack promises: a task sees the table and what is declared *)
(* by the tasks above it.                                                  *)
LEMMA TopWants ==
  ASSUME NEW t, NEW fs, Supplied(t, fs), NEW k \in 1 .. Len(t), NEW x \in Wants(t[k])
  PROVE  x \in Names(fs) \/ \E j \in k + 1 .. Len(t) : x \in DeclaredBy(t[j])
BY DEF Supplied, Available, Seen, Names, Above

LEMMA TasksWant ==
  ASSUME NEW S, NEW base \in Seq(S), NEW nodes \in Seq(DOMAIN Ast), NEW t, NEW fs,
         t = base \o Tasks(nodes), Tasks(nodes) \in Seq(S), Supplied(t, fs),
         NEW i \in 1 .. Len(nodes), NEW x \in Free[nodes[i]]
  PROVE  x \in Names(fs) \/ \E j \in 1 .. i - 1 : x \in Declared(nodes[j])
<1> DEFINE n == Len(nodes)
           m == Len(base)
           ts == Tasks(nodes)
           k == m + (n + 1 - i)
<1>1. n \in Nat /\ m \in Nat /\ Len(ts) = n /\ \A j \in 1 .. n : ts[j] = Check(nodes[n + 1 - j])
  BY DEF Tasks
<1> HIDE DEF ts
<1>2. Len(t) = m + n /\ \A j \in 1 .. n : t[m + j] = ts[j]
  <2>1. /\ Len(base \o ts) = Len(base) + Len(ts)
        /\ \A j \in 1 .. Len(ts) : (base \o ts)[Len(base) + j] = ts[j]
    BY JoinFacts DEF ts
  <2>2. t = base \o ts
    BY DEF ts
  <2> QED BY <1>1, <2>1, <2>2
<1>3. \A j \in 1 .. n : t[m + (n + 1 - j)] = Check(nodes[j])
  <2> TAKE j \in 1 .. n
  <2>1. n + 1 - j \in 1 .. n /\ n + 1 - (n + 1 - j) = j
    BY <1>1
  <2> QED BY <1>1, <1>2, <2>1
<1>4. k \in 1 .. Len(t) /\ t[k] = Check(nodes[i])
  BY <1>1, <1>2, <1>3
<1>5. x \in Wants(t[k])
  BY <1>4 DEF Wants, Check
<1>6. ASSUME NEW l \in k + 1 .. Len(t), x \in DeclaredBy(t[l])
      PROVE  \E j \in 1 .. i - 1 : x \in Declared(nodes[j])
  <2> DEFINE j == m + n + 1 - l
  <2>1. j \in 1 .. i - 1 /\ j \in 1 .. n /\ l = m + (n + 1 - j)
    BY <1>1, <1>2
  <2>2. t[l] = Check(nodes[j])
    BY <1>3, <2>1
  <2> HIDE DEF j
  <2>3. x \in Declared(nodes[j])
    BY <1>6, <2>2 DEF DeclaredBy, Check
  <2> QED BY <2>1, <2>3
<1> HIDE DEF k
<1>7. x \in Names(fs) \/ \E l \in k + 1 .. Len(t) : x \in DeclaredBy(t[l])
  BY <1>4, <1>5, TopWants
<1> QED BY <1>6, <1>7

LEMMA SequenceWants ==
  ASSUME NEW S, NEW base \in Seq(S), NEW nodes \in Seq(DOMAIN Ast), NEW t, NEW fs,
         t = base \o Tasks(nodes), Tasks(nodes) \in Seq(S), Supplied(t, fs)
  PROVE  InSequence(Free, nodes) \subseteq Names(fs)
<1> SUFFICES ASSUME NEW i \in DOMAIN nodes,
                    NEW x \in FreeOf(Free, nodes[i])
                                \ UNION {Declared(nodes[j]) : j \in 1 .. i - 1}
             PROVE  x \in Names(fs)
  BY DEF InSequence
<1>1. i \in 1 .. Len(nodes) /\ nodes[i] # None
  BY KindFacts
<1> HIDE DEF Free
<1>2. x \in Free[nodes[i]] /\ ~ \E j \in 1 .. i - 1 : x \in Declared(nodes[j])
  BY <1>1 DEF FreeOf
<1> QED BY <1>1, <1>2, TasksWant

---------------------------------------------------------------------------
(* The global scope.  The symbols at depth 0 come first in the table, and  *)
(* are those that the first i statements declare, in their order; f says   *)
(* which statement declares which.                                         *)
Follows(f, es, m, i) ==
  /\ f \in [1 .. m -> 1 .. i]
  /\ \A j, k \in 1 .. m : j < k => f[j] < f[k]
  /\ \A k \in 1 .. m : es[k].name \in Declared(program[f[k]])
  /\ \A j \in 1 .. i : Declared(program[j]) # {} => \E k \in 1 .. m : f[k] = j
GlobalsFirst(es, m) == \A k \in 1 .. Len(es) : k <= m <=> es[k].scope_depth = 0
Lists(es, i) ==
  \E m \in 0 .. Len(es) : GlobalsFirst(es, m) /\ \E f : Follows(f, es, m, i)

LEMMA FollowsOnce ==
  ASSUME NEW i \in Nat, NEW m \in Nat, NEW n \in Nat, NEW es, NEW fs, NEW f, NEW g,
         Follows(f, es, m, i), Follows(g, fs, n, i)
  PROVE  \A k \in 1 .. m : k <= n /\ f[k] = g[k]
<1> DEFINE A == {k \in Nat : \A j \in 1 .. k : j <= m => j <= n /\ f[j] = g[j]}
<1>1. A \in SUBSET Nat /\ 0 \in A
  OBVIOUS
<1>2. ASSUME NEW k \in A PROVE k + 1 \in A
  <2>1. k \in Nat /\ \A j \in 1 .. k : j <= m => j <= n /\ f[j] = g[j]
    BY <1>2
  <2>2. CASE k + 1 > m
    BY <2>1, <2>2
  <2>3. CASE k + 1 <= m
    <3>1. PICK x : x = k + 1
      OBVIOUS
    <3>2. x \in 1 .. m /\ \A j \in 1 .. m : j < x => j <= n /\ f[j] = g[j]
      BY <2>1, <2>3, <3>1
    <3>3. f[x] \in 1 .. i /\ Declared(program[f[x]]) # {}
      BY <3>2 DEF Follows
    <3>4. PICK p \in 1 .. n : g[p] = f[x]
      BY <3>3 DEF Follows
    <3>5. ~ (p < x)
      <4> SUFFICES ASSUME p < x PROVE FALSE
        OBVIOUS
      <4>1. p \in 1 .. m /\ f[p] = f[x]
        BY <3>2, <3>4
      <4>2. f[p] < f[x] /\ f[x] \in Nat
        BY <3>2, <3>3, <4>1 DEF Follows
      <4> QED BY <4>1, <4>2
    <3>6. x \in 1 .. n
      BY <3>2, <3>4, <3>5
    <3>7. ~ (x < p)
      <4> SUFFICES ASSUME x < p PROVE FALSE
        OBVIOUS
      <4>1. g[x] \in 1 .. i /\ Declared(program[g[x]]) # {} /\ g[x] < f[x]
        BY <3>4, <3>6 DEF Follows
      <4>2. PICK q \in 1 .. m : f[q] = g[x]
        BY <4>1 DEF Follows
      <4>3. q < x
        <5>1. q = x \/ x < q \/ q < x
          BY <3>2
        <5>2. x < q => f[x] < f[q]
          BY <3>2 DEF Follows
        <5> QED BY <3>3, <4>1, <4>2, <5>1, <5>2
      <4>4. q \in 1 .. n /\ f[q] = g[q]
        BY <3>2, <4>3
      <4>5. g[q] < g[x]
        BY <3>6, <4>3, <4>4 DEF Follows
      <4> QED BY <4>1, <4>2, <4>4, <4>5
    <3>8. f[x] = g[x]
      BY <3>2, <3>4, <3>5, <3>7
    <3>9. \A j \in 1 .. k + 1 : j \in 1 .. k \/ j = x
      BY <2>1, <3>1
    <3> QED BY <2>1, <3>6, <3>8, <3>9
  <2> QED BY <2>1, <2>2, <2>3
<1>3. A = Nat
  <2> HIDE DEF A
  <2> QED BY <1>1, <1>2, AllNumbers
<1>4. m \in A
  BY <1>3
<1> QED BY <1>4

(* What the first i statements declare determines the names.               *)
LEMMA ListsOnce ==
  ASSUME NEW i \in Nat, NEW es, NEW fs, Len(es) \in Nat, Len(fs) \in Nat,
         Lists(es, i), Lists(fs, i),
         \A k \in 1 .. Len(es) : es[k].scope_depth = 0,
         \A k \in 1 .. Len(fs) : fs[k].scope_depth = 0
  PROVE  Len(es) = Len(fs) /\ \A k \in 1 .. Len(es) : es[k].name = fs[k].name
<1>1. PICK m \in 0 .. Len(es), n \in 0 .. Len(fs) :
         /\ GlobalsFirst(es, m) /\ \E f : Follows(f, es, m, i)
         /\ GlobalsFirst(fs, n) /\ \E g : Follows(g, fs, n, i)
  BY DEF Lists
<1>2. PICK f, g : Follows(f, es, m, i) /\ Follows(g, fs, n, i)
  BY <1>1
<1>3. m = Len(es) /\ n = Len(fs)
  <2>1. m # Len(es) => m + 1 \in 1 .. Len(es)
    BY <1>1
  <2>2. n # Len(fs) => n + 1 \in 1 .. Len(fs)
    BY <1>1
  <2> QED BY <1>1, <2>1, <2>2 DEF GlobalsFirst
<1>4. \A k \in 1 .. m : k <= n /\ f[k] = g[k]
  BY <1>2, <1>3, FollowsOnce
<1>5. \A k \in 1 .. n : k <= m
  BY <1>2, <1>3, FollowsOnce
<1>6. m = n
  BY <1>3, <1>4, <1>5
<1>7. ASSUME NEW k \in 1 .. m PROVE es[k].name = fs[k].name
  <2>1. es[k].name \in Declared(program[f[k]]) /\ fs[k].name \in Declared(program[f[k]])
    BY <1>2, <1>4, <1>6 DEF Follows
  <2> QED BY <2>1 DEF Declared
<1> QED BY <1>3, <1>6, <1>7

(* A step that keeps what is global.                                       *)
SameGlobals(es, fs) ==
  /\ \A k \in 1 .. Len(es) : es[k].scope_depth = 0 => k <= Len(fs)
  /\ \A k \in 1 .. Len(fs) :
        IF k <= Len(es)
        THEN fs[k].name = es[k].name /\ fs[k].scope_depth = es[k].scope_depth
        ELSE fs[k].scope_depth # 0

LEMMA ListsStay ==
  ASSUME NEW i, NEW es, NEW fs, Len(es) \in Nat, Len(fs) \in Nat,
         SameGlobals(es, fs), Lists(es, i)
  PROVE  Lists(fs, i)
<1>1. PICK m \in 0 .. Len(es) : GlobalsFirst(es, m) /\ \E f : Follows(f, es, m, i)
  BY DEF Lists
<1>2. PICK f : Follows(f, es, m, i)
  BY <1>1
<1>3. m \in 0 .. Len(fs)
  BY <1>1 DEF GlobalsFirst, SameGlobals
<1>4. GlobalsFirst(fs, m)
  BY <1>1, <1>3 DEF GlobalsFirst, SameGlobals
<1>5. Follows(f, fs, m, i)
  <2>1. \A k \in 1 .. m : fs[k].name = es[k].name
    BY <1>3 DEF SameGlobals
  <2> QED BY <1>2, <2>1 DEF Follows
<1> QED BY <1>3, <1>4, <1>5 DEF Lists

LEMMA ListsNone == Lists(<<>>, 0)
<1> DEFINE f == [k \in 1 .. 0 |-> 0]
<1>1. PICK es : es = <<>>
  OBVIOUS
<1>2. Len(es) = 0
  BY <1>1
<1>3. GlobalsFirst(es, 0) /\ Follows(f, es, 0, 0)
  BY <1>2 DEF GlobalsFirst, Follows
<1>4. Lists(es, 0)
  BY <1>2, <1>3 DEF Lists
<1> QED BY <1>1, <1>4

LEMMA ListsSkip ==
  ASSUME NEW i \in Nat, NEW es, Len(es) \in Nat, Lists(es, i),
         Declared(program[i + 1]) = {}
  PROVE  Lists(es, i + 1)
<1>1. PICK m \in 0 .. Len(es) : GlobalsFirst(es, m) /\ \E f : Follows(f, es, m, i)
  BY DEF Lists
<1>2. PICK f : Follows(f, es, m, i)
  BY <1>1
<1>3. Follows(f, es, m, i + 1)
  <2>1. 1 .. i \subseteq 1 .. i + 1 /\ \A j \in 1 .. i + 1 : j \in 1 .. i \/ j = i + 1
    OBVIOUS
  <2>2. f \in [1 .. m -> 1 .. i + 1]
    BY <1>2, <2>1 DEF Follows
  <2> QED BY <1>2, <2>1, <2>2 DEF Follows
<1> QED BY <1>1, <1>3 DEF Lists

LEMMA ListsDefine ==
  ASSUME NEW i \in Nat, NEW es, IsTable(es), Lists(es, i),
         \A k \in 1 .. Len(es) : es[k].scope_depth = 0,
         NEW name \in Declared(program[i + 1]), NEW v
  PROVE  Lists(DefineEntry(es, 0, name, v), i + 1)
<1> DEFINE fs == DefineEntry(es, 0, name, v)
           n == Len(es) + 1
<1>1. /\ Len(es) \in Nat /\ Len(fs) = n
      /\ \A k \in 1 .. Len(es) : fs[k] = es[k]
      /\ fs[n] = Entry(name, v, 0)
  <2>1. PICK N, V : es \in Seq(EntriesOver(N, V))
    BY DEF IsTable
  <2> QED BY <2>1 DEF DefineEntry
<1> HIDE DEF fs
<1>2. PICK m \in 0 .. Len(es) : GlobalsFirst(es, m) /\ \E f : Follows(f, es, m, i)
  BY DEF Lists
<1>3. PICK f : Follows(f, es, m, i)
  BY <1>2
<1>4. m = Len(es)
  <2>1. m # Len(es) => m + 1 \in 1 .. Len(es)
    BY <1>1, <1>2
  <2> QED BY <1>1, <1>2, <2>1 DEF GlobalsFirst
<1> DEFINE g == [k \in 1 .. n |-> IF k = n THEN i + 1 ELSE f[k]]
<1>5. /\ n \in Nat /\ \A k \in 1 .. n : k \in 1 .. m \/ k = n
      /\ 1 .. m \subseteq 1 .. n /\ n \notin 1 .. m /\ n \in 1 .. n
      /\ \A k \in 1 .. m : k < n
      /\ \A j \in 1 .. i + 1 : j \in 1 .. i \/ j = i + 1
      /\ 1 .. i \subseteq 1 .. i + 1 /\ i + 1 \in 1 .. i + 1
      /\ \A j \in 1 .. i : j < i + 1
  BY <1>1, <1>4
<1>6. g[n] = i + 1 /\ \A k \in 1 .. m : g[k] = f[k] /\ f[k] \in 1 .. i
  BY <1>3, <1>5 DEF Follows
<1>7. g \in [1 .. n -> 1 .. i + 1]
  BY <1>5, <1>6
<1> HIDE DEF g, n
<1>8. \A j, k \in 1 .. n : j < k => g[j] < g[k]
  <2> SUFFICES ASSUME NEW j \in 1 .. n, NEW k \in 1 .. n, j < k PROVE g[j] < g[k]
    OBVIOUS
  <2>1. j \in 1 .. m
    BY <1>5
  <2>2. CASE k \in 1 .. m
    BY <1>3, <1>6, <2>1, <2>2 DEF Follows
  <2>3. CASE k = n
    BY <1>5, <1>6, <2>1, <2>3
  <2> QED BY <1>5, <2>2, <2>3
<1>9. \A k \in 1 .. n : fs[k].name \in Declared(program[g[k]])
  <2>1. fs[n].name = name /\ fs[n].scope_depth = 0
    BY <1>1 DEF Entry, n
  <2>2. \A k \in 1 .. m : fs[k].name \in Declared(program[g[k]])
    BY <1>1, <1>3, <1>4, <1>6 DEF Follows
  <2> QED BY <1>5, <1>6, <2>1, <2>2
<1>10. \A j \in 1 .. i + 1 : Declared(program[j]) # {} => \E k \in 1 .. n : g[k] = j
  <2>1. \A j \in 1 .. i : Declared(program[j]) # {} => \E k \in 1 .. m : f[k] = j
    BY <1>3 DEF Follows
  <2> QED BY <1>5, <1>6, <2>1
<1>11. Follows(g, fs, n, i + 1)
  BY <1>7, <1>8, <1>9, <1>10 DEF Follows
<1>12. GlobalsFirst(fs, n)
  <2>1. fs[n].scope_depth = 0
    BY <1>1 DEF Entry, n
  <2>2. \A k \in 1 .. Len(fs) : k <= n /\ (k \in 1 .. m \/ k = n)
    BY <1>1, <1>5 DEF n
  <2> QED BY <1>1, <1>4, <2>1, <2>2 DEF GlobalsFirst
<1>13. n \in 0 .. Len(fs)
  BY <1>1, <1>5 DEF n
<1> QED BY <1>11, <1>12, <1>13 DEF Lists, fs

LEMMA DefineSameGlobals ==
  ASSUME NEW es, IsTable(es), NEW d \in Nat \ {0}, NEW name, NEW v
  PROVE  SameGlobals(es, DefineEntry(es, d, name, v))
<1>1. PICK N, V : es \in Seq(EntriesOver(N, V))
  BY DEF IsTable
<1> DEFINE fs == DefineEntry(es, d, name, v)
           n == Len(es) + 1
<1>2. /\ Len(es) \in Nat /\ Len(fs) = n
      /\ \A k \in 1 .. Len(es) : fs[k] = es[k]
      /\ fs[n] = Entry(name, v, d)
  BY <1>1 DEF DefineEntry
<1>3. fs[n].scope_depth # 0
  BY <1>2 DEF Entry
<1> HIDE DEF fs
<1> QED BY <1>2, <1>3 DEF SameGlobals, fs

LEMMA PopSameGlobals ==
  ASSUME NEW es, IsTable(es), NEW d \in Nat \ {0}
  PROVE  SameGlobals(es, PopEntries(es, d))
<1>1. PICK N, V : es \in Seq(EntriesOver(N, V))
  BY DEF IsTable
<1> DEFINE fs == PopEntries(es, d)
<1> HIDE DEF fs
<1>2. PICK k \in 0 .. Len(es) :
        /\ Len(fs) = k /\ \A i \in 1 .. k : fs[i] = es[i]
        /\ \A i \in 1 .. Len(es) : i > k => es[i].scope_depth = d
  BY <1>1, PopEntriesProperties DEF fs
<1>3. Len(es) \in Nat
  BY <1>1
<1> QED BY <1>2, <1>3 DEF SameGlobals, fs

---------------------------------------------------------------------------
(* The checker is done with the first i statements of the program when the *)
(* rest of them is at the bottom of the stack; above them, a declaration   *)
(* has a scope_guard under it.                                             *)
Remaining(s, i) ==
  LET b == Len(program) - i
  IN /\ i \in 0 .. Len(program) /\ b <= Len(s)
     /\ \A k \in 1 .. b : s[k] = Check(program[Len(program) + 1 - k])
     /\ \A k \in b + 1 .. Len(s) : DeclaredBy(s[k]) # {} =>
          \E g \in b + 1 .. k - 1 : s[g] = ScopeGuard
Progress ==
  \E i : Remaining(todo, i) /\ (KnownTypes /\ sink = <<>> => Lists(symbols_, i))

LEMMA NoGuards ==
  ASSUME NEW s \in Seq(TaskSet), \A k \in 1 .. Len(s) : s[k] # ScopeGuard
  PROVE  Guards(s) = 0
<1>1. {k \in DOMAIN s : s[k] \in {ScopeGuard}} = {}
  OBVIOUS
<1> QED BY <1>1, FS_EmptySet DEF Guards, CountIn

LEMMA SomeGuard ==
  ASSUME NEW s \in Seq(TaskSet), NEW g \in 1 .. Len(s), s[g] = ScopeGuard
  PROVE  Guards(s) # 0
<1> DEFINE G == {k \in DOMAIN s : s[k] \in {ScopeGuard}}
<1>1. g \in G
  OBVIOUS
<1>2. IsFiniteSet(G) /\ Guards(s) = Cardinality(G)
  BY CountType DEF Guards, CountIn
<1> HIDE DEF G
<1> QED BY <1>1, <1>2, FS_EmptySet

LEMMA RemainingIs ==
  ASSUME NEW s, NEW i, Remaining(s, i), Len(program) \in Nat,
         NEW b, b = Len(program) - i
  PROVE  /\ i \in Nat /\ i <= Len(program) /\ b \in Nat /\ b <= Len(s)
         /\ Len(program) = b + i
         /\ \A k \in 1 .. b : s[k] = Check(program[Len(program) + 1 - k])
         /\ \A k \in b + 1 .. Len(s) : DeclaredBy(s[k]) # {} =>
              \E g \in b + 1 .. k - 1 : s[g] = ScopeGuard
<1>1. i \in 0 .. Len(program)
  BY DEF Remaining
<1>2. i \in Nat /\ i <= Len(program) /\ b \in Nat /\ Len(program) = b + i
  BY <1>1
<1> QED BY <1>2 DEF Remaining

LEMMA StackDepth ==
  ASSUME NEW s \in Seq(TaskSet), s # <<>>, NEW i, Remaining(s, i), Len(program) \in Nat
  PROVE  /\ Len(s) = Len(program) - i => Guards(s) = 0
         /\ Len(s) # Len(program) - i /\ DeclaredBy(Last(s)) # {} => Guards(s) # 0
<1>1. PICK b : b = Len(program) - i
  OBVIOUS
<1>2. /\ b \in Nat /\ b <= Len(s)
      /\ \A k \in 1 .. b : s[k] = Check(program[Len(program) + 1 - k])
      /\ \A k \in b + 1 .. Len(s) : DeclaredBy(s[k]) # {} =>
           \E g \in b + 1 .. k - 1 : s[g] = ScopeGuard
  BY <1>1, RemainingIs
<1>3. Len(s) \in Nat \ {0} /\ Last(s) = s[Len(s)]
  <2>1. Last(s) = s[Len(s)]
    BY FrontLast
  <2> QED BY <2>1
<1>4. ASSUME Len(s) = b PROVE Guards(s) = 0
  <2>1. \A k \in 1 .. Len(s) : s[k].do = "check"
    BY <1>2, <1>4 DEF Check
  <2>2. \A k \in 1 .. Len(s) : s[k] # ScopeGuard
    BY <2>1 DEF ScopeGuard
  <2> QED BY <2>2, NoGuards
<1>5. ASSUME Len(s) # b, DeclaredBy(Last(s)) # {} PROVE Guards(s) # 0
  <2>1. Len(s) \in b + 1 .. Len(s)
    BY <1>2, <1>3, <1>5
  <2>2. PICK g \in b + 1 .. Len(s) - 1 : s[g] = ScopeGuard
    BY <1>2, <1>3, <1>5, <2>1
  <2>3. g \in 1 .. Len(s)
    BY <1>2, <1>3, <2>2
  <2> QED BY <2>2, <2>3, SomeGuard
<1> QED BY <1>1, <1>4, <1>5

LEMMA GuardDeclaresNone == DeclaredBy(ScopeGuard) = {}
BY DEF DeclaredBy, ScopeGuard

LEMMA StackProgress ==
  ASSUME NEW s, NEW es, NEW t, NEW fs, NEW tasks, Continues(s, es, t, fs, tasks),
         NEW i, Remaining(s, i), Len(program) \in Nat
  PROVE  IF Len(s) = Len(program) - i
         THEN /\ i + 1 \in 1 .. Len(program) /\ Last(s) = Check(program[i + 1])
              /\ Remaining(t, i + 1)
         ELSE Remaining(t, i)
<1>0. PICK n, b : n = Len(s) /\ b = Len(program) - i
  OBVIOUS
<1>1. /\ n \in Nat \ {0} /\ Len(tasks) \in Nat
      /\ Len(t) = n - 1 + Len(tasks)
      /\ \A k \in 1 .. n - 1 : t[k] = s[k]
      /\ \A k \in 1 .. Len(tasks) : t[n - 1 + k] = tasks[k]
      /\ Last(s) = s[n]
  BY <1>0, StackFacts
<1>2. /\ i \in Nat /\ i <= Len(program) /\ b \in Nat /\ b <= n /\ Len(program) = b + i
      /\ \A k \in 1 .. b : s[k] = Check(program[Len(program) + 1 - k])
      /\ \A k \in b + 1 .. n : DeclaredBy(s[k]) # {} =>
           \E g \in b + 1 .. k - 1 : s[g] = ScopeGuard
  <2>1. /\ i \in Nat /\ i <= Len(program) /\ b \in Nat /\ b <= Len(s)
        /\ Len(program) = b + i
        /\ \A k \in 1 .. b : s[k] = Check(program[Len(program) + 1 - k])
        /\ \A k \in b + 1 .. Len(s) : DeclaredBy(s[k]) # {} =>
             \E g \in b + 1 .. k - 1 : s[g] = ScopeGuard
    <3>1. b = Len(program) - i
      BY <1>0
    <3> QED BY <3>1, RemainingIs, ZenonT(60)
  <2> QED BY <1>0, <2>1
<1>3. ASSUME NEW k \in n .. Len(t), DeclaredBy(t[k]) # {}
      PROVE  n < k /\ t[n] = ScopeGuard
  <2>1. k - n + 1 \in 1 .. Len(tasks) /\ t[k] = tasks[k - n + 1]
    BY <1>1, <1>3
  <2>2. DOMAIN tasks = 1 .. Len(tasks)
    BY DEF Continues
  <2>3. tasks # <<>> /\ tasks[1] = ScopeGuard
    BY <1>3, <2>1, <2>2 DEF Continues
  <2>4. t[n] = tasks[1]
    BY <1>1, <2>1
  <2> QED BY <1>1, <1>3, <2>3, <2>4, GuardDeclaresNone
<1>4. ASSUME n = b
      PROVE  /\ i + 1 \in 1 .. Len(program) /\ Last(s) = Check(program[i + 1])
             /\ Remaining(t, i + 1)
  <2>1. i + 1 \in 1 .. Len(program) /\ Len(program) + 1 - n = i + 1
    BY <1>1, <1>2, <1>4
  <2>2. Last(s) = Check(program[i + 1])
    BY <1>1, <1>2, <1>4, <2>1
  <2>3. Len(program) - (i + 1) = n - 1 /\ n - 1 <= Len(t) /\ (n - 1) + 1 = n
    BY <1>1, <1>2, <1>4
  <2>4. \A k \in 1 .. n - 1 : t[k] = Check(program[Len(program) + 1 - k])
    BY <1>1, <1>2, <1>4
  <2>5. ASSUME NEW k \in n .. Len(t), DeclaredBy(t[k]) # {}
        PROVE  \E g \in n .. k - 1 : t[g] = ScopeGuard
    <3>1. n < k
      BY <1>3, <2>5
    <3>2. n \in n .. k - 1
      BY <1>1, <3>1
    <3> QED BY <1>3, <2>5, <3>2
  <2>6. i + 1 \in 0 .. Len(program)
    BY <2>1
  <2> QED BY <2>1, <2>2, <2>3, <2>4, <2>5, <2>6 DEF Remaining
<1>5. ASSUME n # b PROVE Remaining(t, i)
  <2>1. b <= n - 1 /\ b <= Len(t)
    BY <1>1, <1>2, <1>5
  <2>2. \A k \in 1 .. b : t[k] = Check(program[Len(program) + 1 - k])
    BY <1>1, <1>2, <2>1
  <2>3. ASSUME NEW k \in b + 1 .. Len(t), DeclaredBy(t[k]) # {}
        PROVE  \E g \in b + 1 .. k - 1 : t[g] = ScopeGuard
    <3>1. CASE k < n
      <4>1. k \in b + 1 .. n /\ t[k] = s[k]
        BY <1>1, <1>2, <2>3, <3>1
      <4>2. PICK g \in b + 1 .. k - 1 : s[g] = ScopeGuard
        BY <1>2, <2>3, <4>1
      <4>3. g \in 1 .. n - 1
        BY <1>1, <1>2, <3>1, <4>2
      <4> QED BY <1>1, <4>2, <4>3
    <3>2. CASE ~ (k < n)
      <4>1. k \in n .. Len(t)
        BY <1>1, <1>2, <2>3, <3>2
      <4>2. n < k /\ t[n] = ScopeGuard
        BY <1>3, <2>3, <4>1
      <4>3. n \in b + 1 .. k - 1
        BY <1>1, <1>2, <2>1, <4>1, <4>2
      <4> QED BY <4>2, <4>3
    <3> QED BY <3>1, <3>2
  <2>4. i \in 0 .. Len(program)
    BY <1>2
  <2> QED BY <1>0, <2>1, <2>2, <2>3, <2>4 DEF Remaining
<1> QED BY <1>0, <1>4, <1>5

---------------------------------------------------------------------------
(* The invariant.                                                          *)

InText(task) == task.do # "leave" => Within[task.node] \subseteq Text(program)

Fitting == \A i \in DOMAIN program : Fits(program[i])

XInv ==
  /\ CInv /\ Ground
  /\ KnownTypes => IsSequence(sink)
  /\ \A i \in DOMAIN todo : InText(todo[i])
  /\ \A rank : Known(rank) => GoodSymbols(rank)
  /\ KnownTypes /\ sink = <<>> /\ Supplied(todo, symbols_) => Closed
  /\ KnownTypes /\ sink = <<>> /\ (\A i \in DOMAIN todo : TaskFits(todo[i])) => Fitting
  /\ Progress

LEMMA SameText ==
  ASSUME UNCHANGED <<program, registry_>>
  PROVE  /\ Ground' <=> Ground
         /\ KnownTypes' <=> KnownTypes
         /\ Closed' <=> Closed
         /\ \A rank : Known(rank)' <=> Known(rank)
         /\ \A rank, t : Good(rank, t)' <=> Good(rank, t)
         /\ \A task : InText(task)' <=> InText(task)
         /\ Fitting' <=> Fitting
         /\ \A task : TaskFits(task)' <=> TaskFits(task)
         /\ \A es, i : Lists(es, i)' <=> Lists(es, i)
         /\ \A s, i : Remaining(s, i)' <=> Remaining(s, i)
<1>1. Structs' = Structs
  BY DEF Structs, HasStruct
<1>2. Text(program)' = Text(program)
  BY DEF Text
<1>3. Mentioned' = Mentioned
  BY <1>2 DEF Mentioned
<1>4. \A s : Fields(s)' = Fields(s)
  BY DEF Fields
<1>5. \A rank : Descends(rank)' <=> Descends(rank)
  BY <1>1, <1>4 DEF Descends
<1>6. \A rank : Known(rank)' <=> Known(rank)
  BY <1>1, <1>3, <1>5 DEF Known
<1>7. KnownTypes' <=> KnownTypes
  BY <1>1, <1>3, <1>4 DEF KnownTypes
<1>8. Ground' <=> Ground
  BY DEF Ground, RegistryOf, Added, DeclaredAt, Taken
<1>9. Closed' <=> Closed
  BY DEF Closed
<1>10. \A rank, t : Good(rank, t)' <=> Good(rank, t)
  BY <1>1 DEF Good, GoodTypes
<1>11. \A task : InText(task)' <=> InText(task)
  BY <1>2 DEF InText
<1>12. \A n : Fits(n)' <=> Fits(n)
  BY DEF Fits, CallFits, HasStruct
<1>13. Fitting' <=> Fitting
  BY <1>12 DEF Fitting, Fits, CallFits, HasStruct
<1>14. \A task : TaskFits(task)' <=> TaskFits(task)
  BY <1>12 DEF TaskFits
<1>15. \A es, i : Lists(es, i)' <=> Lists(es, i)
  BY DEF Lists, GlobalsFirst, Follows, Declared
<1>16. \A s, i : Remaining(s, i)' <=> Remaining(s, i)
  BY DEF Remaining, DeclaredBy, Declared
<1> QED BY <1>6, <1>7, <1>8, <1>9, <1>10, <1>11, <1>13, <1>14, <1>15, <1>16

LEMMA KidsInText ==
  ASSUME NEW n \in DOMAIN Ast, Within[n] \subseteq Text(program)
  PROVE  /\ n \in Text(program)
         /\ \A k \in Kids(n) : Within[k] \subseteq Text(program)
BY WithinIs

LEMMA ProgramInText ==
  ASSUME NEW i \in DOMAIN program PROVE Within[program[i]] \subseteq Text(program)
BY DEF Text

LEMMA TasksInText ==
  ASSUME NEW nodes \in Seq(DOMAIN Ast),
         \A i \in DOMAIN nodes : Within[nodes[i]] \subseteq Text(program)
  PROVE  \A i \in DOMAIN Tasks(nodes) : InText(Tasks(nodes)[i])
<1>1. DOMAIN Tasks(nodes) = 1 .. Len(nodes) /\ Len(nodes) \in Nat
      /\ DOMAIN nodes = 1 .. Len(nodes)
  BY DEF Tasks
<1>2. \A i \in 1 .. Len(nodes) : Tasks(nodes)[i] = Check(nodes[Len(nodes) + 1 - i])
  BY DEF Tasks
<1> QED BY <1>1, <1>2 DEF InText, Check

LEMMA JoinInText ==
  ASSUME NEW a \in Seq(TaskSet), NEW b \in Seq(TaskSet),
         \A i \in DOMAIN a : InText(a[i]), \A i \in DOMAIN b : InText(b[i])
  PROVE  \A i \in DOMAIN (a \o b) : InText((a \o b)[i])
<1> DEFINE t == a \o b
<1>1. /\ t \in Seq(TaskSet) /\ Len(t) = Len(a) + Len(b)
      /\ \A i \in 1 .. Len(a) : t[i] = a[i]
      /\ \A i \in 1 .. Len(b) : t[Len(a) + i] = b[i]
  BY JoinFacts
<1> HIDE DEF t
<1>2. /\ Len(a) \in Nat /\ Len(b) \in Nat /\ DOMAIN t = 1 .. Len(t)
      /\ DOMAIN a = 1 .. Len(a) /\ DOMAIN b = 1 .. Len(b)
  BY <1>1
<1>3. ASSUME NEW i \in DOMAIN t PROVE InText(t[i])
  <2>1. CASE i <= Len(a)
    BY <1>1, <1>2, <2>1
  <2>2. CASE ~ (i <= Len(a))
    <3>1. i - Len(a) \in 1 .. Len(b) /\ i = Len(a) + (i - Len(a))
      BY <1>1, <1>2, <2>2
    <3> QED BY <1>1, <1>2, <3>1
  <2> QED BY <2>1, <2>2
<1> QED BY <1>3 DEF t

(* A stack fits if both of its parts do.                                   *)
LEMMA JoinFits ==
  ASSUME NEW a \in Seq(TaskSet), NEW b \in Seq(TaskSet), NEW t, t = a \o b
  PROVE  (\A i \in DOMAIN t : TaskFits(t[i])) <=>
           /\ \A i \in DOMAIN a : TaskFits(a[i])
           /\ \A i \in DOMAIN b : TaskFits(b[i])
<1>1. /\ t \in Seq(TaskSet) /\ Len(t) = Len(a) + Len(b)
      /\ \A i \in 1 .. Len(a) : t[i] = a[i]
      /\ \A i \in 1 .. Len(b) : t[Len(a) + i] = b[i]
  BY JoinFacts
<1>2. /\ Len(a) \in Nat /\ Len(b) \in Nat /\ DOMAIN t = 1 .. Len(t)
      /\ DOMAIN a = 1 .. Len(a) /\ DOMAIN b = 1 .. Len(b)
  BY <1>1
<1>3. \A i \in DOMAIN a : i \in DOMAIN t /\ t[i] = a[i]
  BY <1>1, <1>2
<1>4. \A i \in DOMAIN b : Len(a) + i \in DOMAIN t /\ t[Len(a) + i] = b[i]
  BY <1>1, <1>2
<1>5. \A i \in DOMAIN t : \/ i \in DOMAIN a /\ t[i] = a[i]
                          \/ i - Len(a) \in DOMAIN b /\ t[i] = b[i - Len(a)]
  <2> TAKE i \in DOMAIN t
  <2>1. CASE i <= Len(a)
    BY <1>1, <1>2, <2>1
  <2>2. CASE ~ (i <= Len(a))
    <3>1. i - Len(a) \in 1 .. Len(b) /\ i = Len(a) + (i - Len(a))
      BY <1>1, <1>2, <2>2
    <3> QED BY <1>1, <1>2, <3>1
  <2> QED BY <2>1, <2>2
<1> QED BY <1>3, <1>4, <1>5

LEMMA TasksFit ==
  ASSUME NEW nodes \in Seq(DOMAIN Ast)
  PROVE  (\A i \in DOMAIN Tasks(nodes) : TaskFits(Tasks(nodes)[i])) =>
            \A i \in DOMAIN nodes : Fits(nodes[i])
<1>1. DOMAIN Tasks(nodes) = 1 .. Len(nodes) /\ Len(nodes) \in Nat
      /\ DOMAIN nodes = 1 .. Len(nodes)
  BY DEF Tasks
<1>2. \A i \in 1 .. Len(nodes) : Tasks(nodes)[i] = Check(nodes[Len(nodes) + 1 - i])
  BY DEF Tasks
<1>3. \A i \in 1 .. Len(nodes) : /\ Len(nodes) + 1 - i \in 1 .. Len(nodes)
                                 /\ Len(nodes) + 1 - (Len(nodes) + 1 - i) = i
  BY <1>1
<1>4. \A n : TaskFits(Check(n)) <=> Fits(n)
  BY DEF TaskFits, Check
<1> QED BY <1>1, <1>2, <1>3, <1>4

(* What every handler does: it takes its task off the stack.               *)
Handles(tasks, codes) ==
  /\ Ready /\ XInv /\ tasks \in Seq(TaskSet) /\ Continue(tasks)
  /\ KnownTypes => IsSequence(codes)
  /\ Report(codes) \/ (codes = <<>> /\ UNCHANGED sink)
  /\ UNCHANGED <<program, registry_>>

(* What becomes of the symbols: a task that declares nothing leaves the    *)
(* global ones alone; one that declares does it unless it reports.         *)
Updates(codes) ==
  \/ DeclaredBy(Task) = {} /\ SameGlobals(symbols_, symbols_')
  \/ \E name \in DeclaredBy(Task) : KnownTypes /\ codes = <<>> =>
       \E v : symbols_' = DefineEntry(symbols_, symbols_depth, name, v)

LEMMA ListsOn ==
  ASSUME CInv, todo # <<>>, NEW i, Remaining(todo, i), Len(program) \in Nat,
         Lists(symbols_, i), NEW fs, Len(fs) \in Nat,
         \/ DeclaredBy(Task) = {} /\ SameGlobals(symbols_, fs)
         \/ \E name \in DeclaredBy(Task) : \E v :
              fs = DefineEntry(symbols_, symbols_depth, name, v)
  PROVE  IF Len(todo) = Len(program) - i
         THEN Task = Check(program[i + 1]) => Lists(fs, i + 1)
         ELSE Lists(fs, i)
<1>1. /\ todo \in Seq(TaskSet) /\ IsTable(symbols_) /\ Sorted(symbols_, symbols_depth)
      /\ symbols_depth = Guards(todo) /\ symbols_depth \in Nat
  BY ReadyFacts DEF CInv, Symbols, Ready
<1>2. /\ Len(todo) = Len(program) - i => symbols_depth = 0
      /\ Len(todo) # Len(program) - i /\ DeclaredBy(Task) # {} => symbols_depth # 0
  BY <1>1, StackDepth DEF Task
<1>3. Len(symbols_) \in Nat /\ i \in Nat
  BY <1>1, TableFacts DEF Remaining
<1>4. ASSUME Len(todo) = Len(program) - i, Task = Check(program[i + 1])
      PROVE  Lists(fs, i + 1)
  <2>1. DeclaredBy(Task) = Declared(program[i + 1])
    BY <1>4 DEF DeclaredBy, Check
  <2>2. CASE DeclaredBy(Task) = {} /\ SameGlobals(symbols_, fs)
    <3>1. Lists(fs, i)
      BY <1>3, <2>2, ListsStay
    <3> QED BY <1>3, <2>1, <2>2, <3>1, ListsSkip
  <2>3. ASSUME NEW name \in DeclaredBy(Task), NEW v,
               fs = DefineEntry(symbols_, symbols_depth, name, v)
        PROVE  Lists(fs, i + 1)
    <3>1. \A k \in 1 .. Len(symbols_) : symbols_[k].scope_depth = 0
      BY <1>1, <1>2, <1>4, TableFacts DEF Sorted
    <3> QED BY <1>1, <1>2, <1>3, <1>4, <2>1, <2>3, <3>1, ListsDefine
  <2> QED BY <2>2, <2>3
<1>5. ASSUME Len(todo) # Len(program) - i PROVE Lists(fs, i)
  <2>1. SameGlobals(symbols_, fs)
    BY <1>1, <1>2, <1>5, DefineSameGlobals
  <2> QED BY <1>3, <2>1, ListsStay
<1> QED BY <1>4, <1>5

LEMMA ProgressKeeps ==
  ASSUME NEW tasks, NEW codes, Handles(tasks, codes), Updates(codes),
         Continues(todo, symbols_, todo', symbols_', tasks)
  PROVE  Progress'
<1>1. PICK i : Remaining(todo, i) /\ (KnownTypes /\ sink = <<>> => Lists(symbols_, i))
  BY DEF Handles, XInv, Progress
<1>2. PICK t, fs : t = todo' /\ fs = symbols_'
  OBVIOUS
<1>3. /\ Len(program) \in Nat /\ todo # <<>> /\ CInv
      /\ Continues(todo, symbols_, t, fs, tasks)
  BY <1>2, ProgramShape DEF Handles, Ready, XInv, Ground
<1>4. Len(fs) \in Nat
  BY <1>3, TableFacts DEF Continues
<1>5. (KnownTypes' <=> KnownTypes)
      /\ (KnownTypes /\ sink' = <<>> => sink = <<>> /\ codes = <<>>)
  <2>1. KnownTypes' <=> KnownTypes
    BY SameText DEF Handles
  <2> QED BY <2>1, ConcatSequences DEF Handles, XInv, Report
<1>6. KnownTypes /\ codes = <<>> =>
        \/ DeclaredBy(Task) = {} /\ SameGlobals(symbols_, fs)
        \/ \E name \in DeclaredBy(Task) : \E v :
             fs = DefineEntry(symbols_, symbols_depth, name, v)
  BY <1>2 DEF Updates
<1>7. \E j : Remaining(t, j) /\ (KnownTypes' /\ sink' = <<>> => Lists(fs, j))
  <2>1. CASE Len(todo) = Len(program) - i
    <3>1. Task = Check(program[i + 1]) /\ Remaining(t, i + 1)
      BY <1>1, <1>3, <2>1, StackProgress DEF Task
    <3>2. KnownTypes' /\ sink' = <<>> => Lists(fs, i + 1)
      BY <1>1, <1>3, <1>4, <1>5, <1>6, <2>1, <3>1, ListsOn
    <3> QED BY <3>1, <3>2
  <2>2. CASE Len(todo) # Len(program) - i
    <3>1. Remaining(t, i)
      BY <1>1, <1>3, <2>2, StackProgress
    <3>2. KnownTypes' /\ sink' = <<>> => Lists(fs, i)
      BY <1>1, <1>3, <1>4, <1>5, <1>6, <2>2, ListsOn
    <3> QED BY <3>1, <3>2
  <2> QED BY <2>1, <2>2
<1>8. PICK j : Remaining(t, j) /\ (KnownTypes' /\ sink' = <<>> => Lists(fs, j))
  BY <1>7
<1>9. Remaining(t, j)' /\ (KnownTypes' /\ sink' = <<>> => Lists(fs, j)')
  BY <1>8, SameText DEF Handles
<1>10. Remaining(todo, j)'
  <2>1. Remaining(t, j)'
    BY <1>9
  <2> QED BY <1>2, <2>1 DEF Remaining
<1>11. KnownTypes' /\ sink' = <<>> => Lists(symbols_, j)'
  <2>1. Lists(fs, j)' => Lists(symbols_, j)'
    <3>1. \A m : GlobalsFirst(fs, m)' => GlobalsFirst(symbols_, m)'
      BY <1>2 DEF GlobalsFirst
    <3>2. \A m, f : Follows(f, fs, m, j)' => Follows(f, symbols_, m, j)'
      BY <1>2 DEF Follows
    <3>3. Len(fs) = Len(symbols_')
      BY <1>2
    <3> QED BY <3>1, <3>2, <3>3 DEF Lists
  <2> QED BY <1>9, <2>1
<1> QED BY <1>10, <1>11 DEF Progress

LEMMA HandlerKeeps ==
  ASSUME NEW tasks, NEW codes, Handles(tasks, codes), CInv',
         \A i \in DOMAIN tasks : InText(tasks[i]),
         \A rank : Known(rank) => \A i \in DOMAIN symbols_' : Good(rank, symbols_'[i].value),
         Continues(todo, symbols_, todo', symbols_', tasks),
         \A rank : /\ Known(rank) /\ codes = <<>> /\ Supplied(todo', symbols_')
                   => Wants(Task) \subseteq Names(symbols_),
         \A rank : /\ TypingContext(rank) /\ codes = <<>>
                   /\ \A i \in DOMAIN tasks : TaskFits(tasks[i])
                   => TaskFits(Task),
         Updates(codes)
  PROVE  XInv'
<1>1. Ground' /\ (KnownTypes' => IsSequence(sink'))
  <2>1. (Ground' <=> Ground) /\ (KnownTypes' <=> KnownTypes)
    BY SameText DEF Handles
  <2>2. KnownTypes => IsSequence(sink) /\ IsSequence(codes)
    BY DEF Handles, XInv
  <2> QED BY <2>1, <2>2, ConcatSequences DEF Handles, XInv, Report
<1>2. (\A i \in DOMAIN todo : InText(todo[i]))'
  <2>1. PICK t : t = todo'
    OBVIOUS
  <2>2. \A i \in DOMAIN t : InText(t[i])
    <3> DEFINE f == Front(todo)
    <3>1. /\ f \in Seq(TaskSet) /\ Len(f) = Len(todo) - 1 /\ Len(todo) \in Nat
          /\ DOMAIN todo = 1 .. Len(todo)
          /\ \A i \in 1 .. Len(todo) - 1 : f[i] = todo[i]
      <4>1. todo \in Seq(TaskSet) /\ todo # <<>>
        BY DEF Handles, Ready, XInv, CInv
      <4>2. Len(todo) \in Nat /\ DOMAIN todo = 1 .. Len(todo)
        BY <4>1
      <4> QED BY <4>1, <4>2, FrontLast
    <3>2. t = f \o tasks /\ tasks \in Seq(TaskSet)
      BY <2>1 DEF Handles, Continue
    <3> HIDE DEF f
    <3>3. \A i \in DOMAIN f : i \in DOMAIN todo /\ f[i] = todo[i]
      BY <3>1
    <3>4. \A i \in DOMAIN f : InText(f[i])
      BY <3>3 DEF Handles, XInv
    <3> QED BY <3>1, <3>2, <3>4, JoinInText
  <2>3. \A task : InText(task)' <=> InText(task)
    BY SameText DEF Handles
  <2>4. \A i \in DOMAIN t : InText(t[i])'
    BY <2>2, <2>3
  <2> QED BY <2>1, <2>4 DEF InText
<1>3. ASSUME NEW rank, Known(rank)' PROVE GoodSymbols(rank)'
  <2>1. PICK es : es = symbols_'
    OBVIOUS
  <2>2. Known(rank) /\ \A v : Good(rank, v)' <=> Good(rank, v)
    BY <1>3, SameText DEF Handles
  <2>3. \A i \in DOMAIN es : Good(rank, es[i].value)
    BY <2>1, <2>2
  <2>4. \A i \in DOMAIN es : Good(rank, es[i].value)'
    BY <2>2, <2>3
  <2> QED BY <2>1, <2>4 DEF GoodSymbols, Good
<1>4. ASSUME KnownTypes', sink' = <<>>, Supplied(todo', symbols_') PROVE Closed'
  <2>1. KnownTypes /\ (Closed' <=> Closed)
    BY <1>4, SameText DEF Handles
  <2>2. sink = <<>> /\ codes = <<>>
    BY <1>4, <2>1, ConcatSequences DEF Handles, XInv, Report
  <2>3. PICK rank : Known(rank)
    BY <2>1, SomeRank
  <2>4. Wants(Task) \subseteq Names(symbols_)
    BY <1>4, <2>2, <2>3
  <2>5. Supplied(todo, symbols_)
    BY <1>4, <2>4, LowerSupplied DEF Task
  <2> QED BY <2>1, <2>2, <2>5 DEF Handles, XInv
<1>5. Supplied(todo, symbols_)' => Supplied(todo', symbols_')
  BY DEF Supplied, Wants, Available, Seen, Above, Beside, Under, GuardsUpTo, DeclaredBy,
         HeadFree, FreeOf, Declared
<1>6. ASSUME KnownTypes', sink' = <<>>, NEW t, t = todo', \A i \in DOMAIN t : TaskFits(t[i])
      PROVE  Fitting'
  <2>1. KnownTypes /\ (Fitting' <=> Fitting)
    BY <1>6, SameText DEF Handles
  <2>2. sink = <<>> /\ codes = <<>>
    BY <1>6, <2>1, ConcatSequences DEF Handles, XInv, Report
  <2>3. PICK rank : TypingContext(rank)
    BY <2>1, SomeRank DEF Handles, XInv, CInv, Symbols, TypingContext
  <2> DEFINE f == Front(todo)
  <2>4. /\ f \in Seq(TaskSet) /\ Len(f) = Len(todo) - 1 /\ Len(todo) \in Nat
        /\ DOMAIN todo = 1 .. Len(todo) /\ Task = todo[Len(todo)]
        /\ \A i \in 1 .. Len(todo) - 1 : f[i] = todo[i]
    <3>1. todo \in Seq(TaskSet) /\ todo # <<>>
      BY DEF Handles, Ready, XInv, CInv
    <3>2. Len(todo) \in Nat /\ DOMAIN todo = 1 .. Len(todo)
      BY <3>1
    <3> QED BY <3>1, <3>2, FrontLast DEF Task
  <2>5. t = f \o tasks /\ tasks \in Seq(TaskSet)
    BY <1>6 DEF Handles, Continue
  <2> HIDE DEF f
  <2>6. /\ \A i \in DOMAIN f : TaskFits(f[i])
        /\ \A i \in DOMAIN tasks : TaskFits(tasks[i])
    BY <1>6, <2>4, <2>5, JoinFits
  <2>7. TaskFits(Task)
    BY <2>2, <2>3, <2>6
  <2>8. \A i \in DOMAIN todo : i = Len(todo) \/ i \in DOMAIN f
    BY <2>4
  <2>9. \A i \in DOMAIN todo : TaskFits(todo[i])
    BY <2>4, <2>6, <2>7, <2>8
  <2> QED BY <2>1, <2>2, <2>9 DEF Handles, XInv
<1>7. (\A i \in DOMAIN todo : TaskFits(todo[i]))' =>
        \E t : t = todo' /\ \A i \in DOMAIN t : TaskFits(t[i])
  <2>1. \A n : Fits(n)' <=> Fits(n)
    BY DEF Handles, Fits, CallFits, HasStruct
  <2>2. (\A i \in DOMAIN todo : TaskFits(todo[i]))' <=>
           \A i \in DOMAIN todo' : TaskFits(todo'[i])
    BY <2>1 DEF TaskFits
  <2> QED BY <2>2
<1>8. (KnownTypes /\ sink = <<>> /\ (\A i \in DOMAIN todo : TaskFits(todo[i])) => Fitting)'
  BY <1>6, <1>7
<1>9. Progress'
  BY ProgressKeeps
<1> QED BY <1>1, <1>2, <1>3, <1>4, <1>5, <1>8, <1>9 DEF XInv

LEMMA SameTable ==
  ASSUME NEW s, NEW es, NEW t, NEW tasks,
         s \in Seq(TaskSet), s # <<>>, tasks \in Seq(TaskSet), t = Front(s) \o tasks,
         IsTable(es), Sorted(es, Guards(s)),
         \/ tasks # <<>> /\ tasks[1] = ScopeGuard
         \/ \A i \in DOMAIN tasks : DeclaredBy(tasks[i]) = {}
  PROVE  Continues(s, es, t, es, tasks)
<1>1. ASSUME NEW i \in DOMAIN es PROVE es[i].name \in Seen(es, es[i].scope_depth)
  <2>1. es[i].scope_depth \in Nat
    BY TableFacts
  <2> QED BY <2>1 DEF Seen
<1> QED BY <1>1 DEF Continues

(* The handlers that declare nothing.                                      *)
LEMMA PlainHandler ==
  ASSUME NEW tasks, NEW codes, Handles(tasks, codes), CInv', UNCHANGED symbols_,
         \A i \in DOMAIN tasks : InText(tasks[i]),
         \/ tasks # <<>> /\ tasks[1] = ScopeGuard
         \/ \A i \in DOMAIN tasks : DeclaredBy(tasks[i]) = {},
         \A rank : /\ TypingContext(rank) /\ codes = <<>> /\ Supplied(todo', symbols_)
                   => Wants(Task) \subseteq Names(symbols_),
         \A rank : /\ TypingContext(rank) /\ codes = <<>>
                   /\ \A i \in DOMAIN tasks : TaskFits(tasks[i])
                   => TaskFits(Task),
         DeclaredBy(Task) = {}
  PROVE  XInv'
<1>1. Continues(todo, symbols_, todo', symbols_', tasks)
  <2>1. /\ todo \in Seq(TaskSet) /\ todo # <<>> /\ tasks \in Seq(TaskSet)
        /\ todo' = Front(todo) \o tasks
        /\ IsTable(symbols_) /\ Sorted(symbols_, Guards(todo))
    BY DEF Handles, Ready, CInv, Symbols, Continue
  <2> QED BY <2>1, SameTable
<1>2. \A rank : Known(rank) =>
        TypingContext(rank) /\ \A i \in DOMAIN symbols_' : Good(rank, symbols_'[i].value)
  BY DEF Handles, XInv, CInv, Symbols, TypingContext, GoodSymbols
<1>3. \A rank : /\ Known(rank) /\ codes = <<>> /\ Supplied(todo', symbols_')
                => Wants(Task) \subseteq Names(symbols_)
  BY <1>2
<1>4. Updates(codes)
  <2>1. SameGlobals(symbols_, symbols_')
    <3>1. Len(symbols_) \in Nat
      BY TableFacts DEF Handles, Ready, CInv, Symbols
    <3> QED BY <3>1 DEF SameGlobals
  <2> QED BY <2>1 DEF Updates
<1> QED BY <1>1, <1>2, <1>3, <1>4, HandlerKeeps

(* The checks of all but var declarations.                                 *)
LEMMA DeclaresNone ==
  /\ Task.do = "head" => DeclaredBy(Task) = {}
  /\ Task.do = "check" /\ Node.kind # "var" => DeclaredBy(Task) = {}
BY DEF DeclaredBy, Declared, Node

LEMMA TopInText == ASSUME XInv, Ready PROVE InText(Task)
<1>1. todo \in Seq(TaskSet) /\ todo # <<>>
  BY DEF XInv, CInv, Ready
<1>2. Task = todo[Len(todo)]
  BY <1>1, FrontLast DEF Task
<1>3. Len(todo) \in DOMAIN todo
  BY <1>1
<1> QED BY <1>2, <1>3 DEF XInv

(* The node of the task is in the text, and so are its children.           *)
LEMMA TaskInText ==
  ASSUME XInv, Ready, Task.do # "leave"
  PROVE  /\ Task.node \in DOMAIN Ast /\ Task.node \in Text(program)
         /\ \A i \in DOMAIN Node.kids : Has(i) => Within[Kid(i)] \subseteq Text(program)
<1>1. Task.node \in DOMAIN Ast
  BY ReadyFacts
<1>2. InText(Task)
  BY TopInText
<1>3. Within[Task.node] \subseteq Text(program)
  BY <1>2 DEF InText
<1> QED BY <1>1, <1>3, KidsInText, KidInTable DEF Node, Kid, Has

LEMMA NoneDeclared ==
  ASSUME NEW n \in Branch
  PROVE  DeclaredBy(Check(n)) = {} /\ Declared(n) = {}
BY DEF DeclaredBy, Declared, Check, Branch, OfKind, BranchKinds

LEMMA CheckWants ==
  ASSUME Task.do = "check", Task.node \in DOMAIN Ast
  PROVE  /\ Node.kind \in {"block", "for", "while"} =>
              Wants(Task) = InSequence(Free, Node.kids)
         /\ Node.kind = "func" =>
              Wants(Task) = InSequence(Free, Ast[Kid(1)].kids) \ ParamNames(Task.node)
         /\ Node.kind \notin {"variable", "block", "for", "while", "func"} =>
              Wants(Task) = UNION {FreeOf(Free, Kid(i)) : i \in DOMAIN Node.kids}
<1>1. Wants(Task) = FreeFrom(Free, Task.node)
  BY FreeIs DEF Wants
<1> HIDE DEF Free
<1> QED BY <1>1, FreeFromIs DEF Node, Kid

(* A statement fits if its children do.                                    *)
LEMMA CheckFits ==
  ASSUME Task.do = "check", Task.node \in DOMAIN Ast, Node.kind # "call",
         \A i \in DOMAIN Node.kids : Has(i) => Fits(Kid(i))
  PROVE  TaskFits(Task)
<1>1. CallFits(Task.node)
  BY DEF CallFits, Node
<1>2. Fits(Task.node)
  BY <1>1, FitsOfKids DEF Node, Has, Kid
<1> QED BY <1>2 DEF TaskFits

LEMMA ExpressionHandler == ASSUME XInv, CheckExpression,
                                  UNCHANGED <<program, registry_>> PROVE XInv'
<1> DEFINE codes == TypeOf(Kid(1)).reports
<1>1. Ready /\ Task.do = "check" /\ Node.kind = "expression" /\ CInv
  BY OnCheckFacts DEF CheckExpression, OnCheck, Ready, XInv
<1>2. Task.node \in DOMAIN Ast
  BY <1>1, ReadyFacts
<1>3. DOMAIN Node.kids = {1} /\ Kid(1) \in Expr /\ Kid(1) # None
  BY <1>1, <1>2, OneShape, KindFacts DEF Node, Kid
<1>4. ASSUME NEW rank, TypingContext(rank)
      PROVE  IsSequence(codes) /\ (codes = <<>> => Free[Kid(1)] \subseteq Names(symbols_) /\ Fits(Kid(1)))
  BY <1>3, <1>4, ExpressionsSound DEF Sound, Fine
<1>5. KnownTypes => IsSequence(codes)
  BY <1>4, SomeRank DEF XInv, CInv, Symbols, TypingContext
<1>6. Wants(Task) = Free[Kid(1)]
  BY <1>1, <1>2, <1>3, CheckWants DEF FreeOf
<1> HIDE DEF codes
<1>7. Handles(<<>>, codes)
  BY <1>1, <1>5, NoTasks DEF Handles, CheckExpression, codes
<1>8. CInv'
  BY SimpleKeeps DEF XInv
<1>9. UNCHANGED symbols_
  BY DEF CheckExpression, SameScopes
<1>10. ASSUME NEW rank, TypingContext(rank), codes = <<>> PROVE TaskFits(Task)
  BY <1>1, <1>2, <1>3, <1>4, <1>10, CheckFits
<1> QED BY <1>1, <1>4, <1>6, <1>7, <1>8, <1>9, <1>10, DeclaresNone, PlainHandler

(* The typing of a program whose types are known.                          *)
LEMMA Context ==
  ASSUME XInv PROVE KnownTypes => \E rank : TypingContext(rank)
BY SomeRank DEF XInv, CInv, Symbols, TypingContext

LEMMA ConditionSound ==
  ASSUME NEW rank, TypingContext(rank), NEW n \in Expr
  PROVE  /\ IsSequence(ConditionReports(n))
         /\ ConditionReports(n) = <<>> => Free[n] \subseteq Names(symbols_) /\ Fits(n)
<1> DEFINE a == TypeOf(n).reports
           b == IF IsUnknown(TypeOf(n)) \/ IsBool(TypeOf(n).type) THEN <<>>
                ELSE <<"condition_not_bool">>
<1>1. Sound(rank, n)
  BY ExpressionsSound
<1>2. IsSequence(a) /\ IsSequence(b)
  <2>1. \A code : IsSequence(<<code>>)
    BY OneReport
  <2> QED BY <1>1, <2>1, NoReport DEF Sound, Fine
<1>3. ConditionReports(n) = a \o b
  BY DEF ConditionReports
<1>4. a = <<>> => Free[n] \subseteq Names(symbols_) /\ Fits(n)
  BY <1>1 DEF Sound, Fine
<1> HIDE DEF a, b
<1> QED BY <1>2, <1>3, <1>4, ConcatSequences

LEMMA TaskWants ==
  ASSUME NEW S, NEW base \in Seq(S), NEW tasks \in Seq(S), NEW fs,
         Supplied(base \o tasks, fs), NEW i \in 1 .. Len(tasks), NEW x \in Wants(tasks[i])
  PROVE  x \in Names(fs) \/ \E j \in i + 1 .. Len(tasks) : x \in DeclaredBy(tasks[j])
<1> DEFINE m == Len(base)
           n == Len(tasks)
           k == m + i
<1>1. PICK t : t = base \o tasks
  OBVIOUS
<1>2. m \in Nat /\ n \in Nat /\ Len(t) = m + n /\ \A j \in 1 .. n : t[m + j] = tasks[j]
  BY <1>1, JoinFacts
<1>3. k \in 1 .. Len(t) /\ x \in Wants(t[k])
  BY <1>2
<1>4. ASSUME NEW l \in k + 1 .. Len(t), x \in DeclaredBy(t[l])
      PROVE  \E j \in i + 1 .. n : x \in DeclaredBy(tasks[j])
  <2>1. l - m \in i + 1 .. n /\ l - m \in 1 .. n /\ l = m + (l - m)
    BY <1>2
  <2> QED BY <1>2, <1>4, <2>1
<1> HIDE DEF k
<1>5. x \in Names(fs) \/ \E l \in k + 1 .. Len(t) : x \in DeclaredBy(t[l])
  BY <1>1, <1>3, TopWants
<1> QED BY <1>4, <1>5

LEMMA StackBase ==
  ASSUME NEW tasks, NEW codes, Handles(tasks, codes)
  PROVE  /\ Front(todo) \in Seq(TaskSet) /\ todo' = Front(todo) \o tasks
         /\ Task.do # "leave" => Task.node \in DOMAIN Ast
BY FrontLast, ReadyFacts DEF Handles, Ready, CInv, Continue

LEMMA WhileHandler == ASSUME XInv, CheckWhile, UNCHANGED <<program, registry_>>
                      PROVE  XInv'
<1> DEFINE tasks == <<ScopeGuard, Check(Kid(4))>>
           codes == ConditionReports(Kid(2))
<1>1. Ready /\ Task.do = "check" /\ Node.kind = "while" /\ CInv
  BY OnCheckFacts DEF CheckWhile, OnCheck, Ready, XInv
<1>2. Task.node \in DOMAIN Ast
  BY <1>1, ReadyFacts
<1>3. /\ DOMAIN Node.kids = {1, 2, 3, 4} /\ Kid(1) = None /\ Kid(3) = None
      /\ Kid(2) \in Expr /\ Kid(4) \in Branch /\ Kid(4) \in DOMAIN Ast
      /\ Kid(2) # None /\ Kid(4) # None
  BY <1>1, <1>2, LoopShape, KindFacts DEF Node, Kid
<1>4. ASSUME NEW rank, TypingContext(rank)
      PROVE  IsSequence(codes) /\ (codes = <<>> => Free[Kid(2)] \subseteq Names(symbols_) /\ Fits(Kid(2)))
  BY <1>3, <1>4, ConditionSound
<1>5. /\ tasks \in Seq(TaskSet) /\ Len(tasks) = 2 /\ tasks[2] = Check(Kid(4))
      /\ DOMAIN tasks = {1, 2} /\ tasks[1] = ScopeGuard /\ tasks # <<>>
  <2>1. Check(Kid(4)) \in TaskSet /\ ScopeGuard \in TaskSet
    BY <1>3, CheckTask DEF TaskSet
  <2> HIDE DEF ScopeGuard
  <2> QED BY <2>1
<1>6. Wants(Task) = InSequence(Free, Node.kids)
  BY <1>1, <1>2, CheckWants
<1> HIDE DEF codes, tasks
<1>7. Handles(tasks, codes)
  BY <1>1, <1>4, <1>5, Context DEF Handles, CheckWhile, codes, tasks
<1>8. ASSUME NEW rank, TypingContext(rank), codes = <<>>, Supplied(todo', symbols_)
      PROVE  Wants(Task) \subseteq Names(symbols_)
  <2>1. Free[Kid(4)] \subseteq Names(symbols_)
    <3>1. PICK t : t = todo'
      OBVIOUS
    <3>2. Wants(tasks[2]) = Free[Kid(4)]
      BY <1>5 DEF Wants, Check
    <3>3. t = Front(todo) \o tasks /\ Front(todo) \in Seq(TaskSet) /\ Supplied(t, symbols_)
      BY <1>7, <1>8, <3>1, StackBase
    <3>4. 2 \in 1 .. Len(tasks) /\ 2 + 1 .. Len(tasks) = {}
      BY <1>5
    <3> QED BY <1>5, <3>2, <3>3, <3>4, TaskWants
  <2>2. Free[Kid(2)] \subseteq Names(symbols_)
    BY <1>4, <1>8
  <2>3. \A i \in DOMAIN Node.kids : FreeOf(Free, Node.kids[i]) \subseteq Names(symbols_)
    <3> HIDE DEF Free
    <3> QED BY <1>3, <2>1, <2>2 DEF FreeOf, Kid
  <2> HIDE DEF Free
  <2> QED BY <1>6, <2>3 DEF InSequence
<1>9. \A i \in DOMAIN tasks : InText(tasks[i])
  BY <1>1, <1>3, <1>5, TaskInText DEF InText, Check, ScopeGuard, Has
<1>10. CInv' /\ UNCHANGED symbols_
  BY WhileKeeps DEF XInv, CheckWhile
<1>11. ASSUME NEW rank, TypingContext(rank), codes = <<>>,
              \A i \in DOMAIN tasks : TaskFits(tasks[i])
       PROVE  TaskFits(Task)
  <2>1. Fits(Kid(4))
    BY <1>5, <1>11 DEF TaskFits, Check
  <2>2. \A i \in DOMAIN Node.kids : Has(i) => Fits(Kid(i))
    BY <1>3, <1>4, <1>11, <2>1 DEF Has
  <2> QED BY <1>1, <1>2, <2>2, CheckFits
<1> QED BY <1>1, <1>5, <1>7, <1>8, <1>9, <1>10, <1>11, DeclaresNone, PlainHandler

LEMMA HeadHandler == ASSUME XInv, CheckForHead, UNCHANGED <<program, registry_>>
                     PROVE  XInv'
<1> DEFINE tasks == <<Check(Kid(4))>>
           a == IF Has(2) THEN ConditionReports(Kid(2)) ELSE <<>>
           b == IF Has(3) THEN TypeOf(Kid(3)).reports ELSE <<>>
           codes == a \o b
<1>1. /\ Ready /\ Task.do = "head" /\ Task.do # "leave" /\ CInv /\ Node.kind = "for"
      /\ Task.node \in DOMAIN Ast
  BY ReadyFacts DEF CheckForHead, Ready, XInv, Node
<1>2. /\ DOMAIN Node.kids = {1, 2, 3, 4} /\ Kid(4) \in Branch /\ Kid(4) \in DOMAIN Ast
      /\ Has(2) => Kid(2) \in Expr
      /\ Has(3) => Kid(3) \in Expr
      /\ Kid(4) # None
  BY <1>1, LoopShape, KindFacts DEF Node, Kid, Has
<1>3. ASSUME NEW rank, TypingContext(rank)
      PROVE  /\ IsSequence(a) /\ IsSequence(b)
             /\ a = <<>> /\ Has(2) => Free[Kid(2)] \subseteq Names(symbols_) /\ Fits(Kid(2))
             /\ b = <<>> /\ Has(3) => Free[Kid(3)] \subseteq Names(symbols_) /\ Fits(Kid(3))
  <2>1. Has(2) => /\ IsSequence(ConditionReports(Kid(2)))
                  /\ ConditionReports(Kid(2)) = <<>> =>
                       Free[Kid(2)] \subseteq Names(symbols_) /\ Fits(Kid(2))
    BY <1>2, <1>3, ConditionSound
  <2>2. Has(3) => Sound(rank, Kid(3))
    BY <1>2, <1>3, ExpressionsSound
  <2> QED BY <2>1, <2>2, NoReport DEF Sound, Fine
<1> HIDE DEF a, b
<1>4. ASSUME NEW rank, TypingContext(rank)
      PROVE  IsSequence(codes) /\ (codes = <<>> => a = <<>> /\ b = <<>>)
  BY <1>3, <1>4, ConcatSequences
<1>5. /\ tasks \in Seq(TaskSet) /\ Len(tasks) = 1 /\ tasks[1] = Check(Kid(4))
      /\ DOMAIN tasks = {1} /\ \A i \in DOMAIN tasks : DeclaredBy(tasks[i]) = {}
  <2>1. Check(Kid(4)) \in TaskSet /\ DeclaredBy(Check(Kid(4))) = {}
    BY <1>2, CheckTask, NoneDeclared
  <2> QED BY <2>1
<1>6. Wants(Task) = HeadFree(Task.node)
  BY <1>1 DEF Wants
<1> HIDE DEF codes, tasks
<1>7. Handles(tasks, codes)
  BY <1>1, <1>4, <1>5, Context DEF Handles, CheckForHead, codes, tasks, a, b
<1>8. ASSUME NEW rank, TypingContext(rank), codes = <<>>, Supplied(todo', symbols_)
      PROVE  Wants(Task) \subseteq Names(symbols_)
  <2>1. Free[Kid(4)] \subseteq Names(symbols_)
    <3>1. PICK t : t = todo'
      OBVIOUS
    <3>2. Wants(tasks[1]) = Free[Kid(4)]
      BY <1>5 DEF Wants, Check
    <3>3. t = Front(todo) \o tasks /\ Front(todo) \in Seq(TaskSet) /\ Supplied(t, symbols_)
      BY <1>7, <1>8, <3>1, StackBase
    <3>4. 1 \in 1 .. Len(tasks) /\ 1 + 1 .. Len(tasks) = {}
      BY <1>5
    <3> QED BY <1>5, <3>2, <3>3, <3>4, TaskWants
  <2>2. /\ Has(2) => Free[Kid(2)] \subseteq Names(symbols_)
        /\ Has(3) => Free[Kid(3)] \subseteq Names(symbols_)
    BY <1>3, <1>4, <1>8
  <2> HIDE DEF Free
  <2>3. \A i \in {2, 3, 4} : FreeOf(Free, Ast[Task.node].kids[i]) \subseteq Names(symbols_)
    BY <1>2, <2>1, <2>2 DEF FreeOf, Kid, Has, Node
  <2> QED BY <1>6, <2>3 DEF HeadFree
<1>9. \A i \in DOMAIN tasks : InText(tasks[i])
  BY <1>1, <1>2, <1>5, TaskInText DEF InText, Check, Has
<1>10. CInv' /\ UNCHANGED symbols_
  BY HeadKeeps DEF XInv, CheckForHead, SameScopes
<1>11. ASSUME NEW rank, TypingContext(rank), codes = <<>>,
              \A i \in DOMAIN tasks : TaskFits(tasks[i])
       PROVE  TaskFits(Task)
  <2>1. Fits(Kid(4))
    BY <1>5, <1>11 DEF TaskFits, Check
  <2>2. (Has(2) => Fits(Kid(2))) /\ (Has(3) => Fits(Kid(3)))
    BY <1>3, <1>4, <1>11
  <2>3. \A i \in {2, 3, 4} : Has(i) => Fits(Kid(i))
    BY <2>1, <2>2
  <2> QED BY <1>1, <2>3 DEF TaskFits, Has, Kid, Node
<1> QED BY <1>1, <1>5, <1>7, <1>8, <1>9, <1>10, <1>11, DeclaresNone, PlainHandler

LEMMA ShortJoin ==
  ASSUME NEW S, NEW g \in S, NEW h \in S, NEW c \in S
  PROVE  /\ <<g, h>> \o <<c>> = <<g, h, c>> /\ <<g, h>> \o <<>> = <<g, h>>
         /\ <<g, h>> \in Seq(S) /\ <<g, h, c>> \in Seq(S)
<1>1. <<g, h>> \o <<c>> = <<g, h, c>>
  <2> DEFINE x == <<g, h>> \o <<c>>
  <2>1. <<g, h>> \in Seq(S) /\ <<c>> \in Seq(S)
    OBVIOUS
  <2>2. x \in Seq(S) /\ Len(x) = 3
    BY <2>1
  <2>3. x[1] = g /\ x[2] = h /\ x[3] = c
    OBVIOUS
  <2> HIDE DEF x
  <2>4. x = <<g, h, c>>
    BY <2>2, <2>3
  <2> QED BY <2>4 DEF x
<1>2. <<g, h>> \o <<>> = <<g, h>>
  OBVIOUS
<1>3. <<g, h>> \in Seq(S) /\ <<g, h, c>> \in Seq(S)
  OBVIOUS
<1> QED BY <1>1, <1>2, <1>3

LEMMA ForHandler == ASSUME XInv, CheckFor, UNCHANGED <<program, registry_>>
                    PROVE  XInv'
<1> DEFINE first == <<ScopeGuard, ForHead(Task.node)>>
           init == IF Has(1) THEN <<Check(Kid(1))>> ELSE <<>>
           tasks == first \o init
<1>1. Ready /\ Task.do = "check" /\ Node.kind = "for" /\ CInv
  BY OnCheckFacts DEF CheckFor, OnCheck, Ready, XInv
<1>2. Task.node \in DOMAIN Ast
  BY <1>1, ReadyFacts
<1>3. /\ DOMAIN Node.kids = {1, 2, 3, 4}
      /\ Has(1) => Kid(1) \in DOMAIN Ast
  BY <1>1, <1>2, LoopShape DEF Node, Kid, Has
<1>4. /\ tasks \in Seq(TaskSet) /\ tasks # <<>> /\ tasks[1] = ScopeGuard
      /\ tasks[2] = ForHead(Task.node)
      /\ Len(tasks) = IF Has(1) THEN 3 ELSE 2
      /\ Has(1) => tasks[3] = Check(Kid(1))
      /\ DOMAIN tasks = 1 .. Len(tasks)
  <2>1. ScopeGuard \in TaskSet /\ ForHead(Task.node) \in TaskSet
    BY <1>1, <1>2 DEF TaskSet, ForHead, Node
  <2>2. Has(1) => Check(Kid(1)) \in TaskSet
    BY <1>3, CheckTask
  <2>3. \A g, h, c \in TaskSet :
          /\ <<g, h>> \o <<c>> = <<g, h, c>> /\ <<g, h>> \o <<>> = <<g, h>>
          /\ <<g, h>> \in Seq(TaskSet) /\ <<g, h, c>> \in Seq(TaskSet)
    BY ShortJoin
  <2>4. CASE Has(1)
    <3>1. tasks = <<ScopeGuard, ForHead(Task.node), Check(Kid(1))>> /\ tasks \in Seq(TaskSet)
      BY <2>1, <2>2, <2>3, <2>4
    <3> HIDE DEF tasks, ScopeGuard
    <3> QED BY <2>4, <3>1
  <2>5. CASE ~ Has(1)
    <3>1. tasks = <<ScopeGuard, ForHead(Task.node)>> /\ tasks \in Seq(TaskSet)
      BY <2>1, <2>3, <2>5
    <3> HIDE DEF tasks, ScopeGuard
    <3> QED BY <2>5, <3>1
  <2> QED BY <2>4, <2>5
<1>5. Wants(Task) = InSequence(Free, Node.kids)
  BY <1>1, <1>2, CheckWants
<1> HIDE DEF tasks
<1>6. Handles(tasks, <<>>)
  BY <1>1, <1>4, NoReport DEF Handles, CheckFor, tasks
<1>7. ASSUME Supplied(todo', symbols_)
      PROVE  Wants(Task) \subseteq Names(symbols_)
  <2>1. PICK t : t = todo'
    OBVIOUS
  <2>2. t = Front(todo) \o tasks /\ Front(todo) \in Seq(TaskSet) /\ Supplied(t, symbols_)
    BY <1>6, <1>7, <2>1, StackBase
  <2>3. ASSUME Has(1), NEW x \in Free[Kid(1)] PROVE x \in Names(symbols_)
    <3>1. 3 \in 1 .. Len(tasks) /\ 3 + 1 .. Len(tasks) = {} /\ x \in Wants(tasks[3])
      BY <1>4, <2>3 DEF Wants, Check
    <3> QED BY <1>4, <2>2, <3>1, TaskWants
  <2>4. ASSUME NEW x \in HeadFree(Task.node)
        PROVE  x \in Names(symbols_) \/ x \in Declared(Kid(1))
    <3>1. 2 \in 1 .. Len(tasks) /\ x \in Wants(tasks[2])
      BY <1>4, <2>4 DEF Wants, ForHead
    <3>2. \A j \in 2 + 1 .. Len(tasks) : j = 3 /\ Has(1)
      BY <1>4
    <3>3. Has(1) => DeclaredBy(tasks[3]) = Declared(Kid(1))
      BY <1>4 DEF DeclaredBy, Check
    <3> QED BY <1>4, <2>2, <3>1, <3>2, <3>3, TaskWants
  <2>5. ASSUME NEW i \in DOMAIN Node.kids,
               NEW x \in FreeOf(Free, Node.kids[i])
                           \ UNION {Declared(Node.kids[j]) : j \in 1 .. i - 1}
        PROVE  x \in Names(symbols_)
    <3>1. CASE i = 1
      <4> HIDE DEF Free
      <4> QED BY <2>3, <2>5, <3>1 DEF FreeOf, Has, Kid
    <3>2. CASE i # 1
      <4>1. i \in {2, 3, 4} /\ 1 \in 1 .. i - 1
        BY <1>3, <3>2
      <4> HIDE DEF Free
      <4>2. x \in HeadFree(Task.node) /\ x \notin Declared(Kid(1))
        BY <2>5, <4>1 DEF HeadFree, Kid, Node
      <4> QED BY <2>4, <4>2
    <3> QED BY <3>1, <3>2
  <2> QED BY <1>5, <2>5 DEF InSequence
<1>8. \A i \in DOMAIN tasks : InText(tasks[i])
  <2>1. Has(1) => InText(Check(Kid(1)))
    BY <1>1, <1>3, TaskInText DEF InText, Check
  <2>2. InText(ScopeGuard)
    BY DEF InText, ScopeGuard
  <2>3. InText(ForHead(Task.node))
    <3>1. InText(Task)
      BY <1>1, TopInText
    <3> QED BY <1>1, <3>1 DEF InText, ForHead
  <2> QED BY <1>4, <2>1, <2>2, <2>3
<1>9. CInv' /\ UNCHANGED symbols_
  BY ForKeeps DEF XInv, CheckFor
<1>10. ASSUME \A i \in DOMAIN tasks : TaskFits(tasks[i]) PROVE TaskFits(Task)
  <2>1. \A i \in {2, 3, 4} : Has(i) => Fits(Kid(i))
    <3>1. TaskFits(tasks[2])
      BY <1>4, <1>10
    <3> QED BY <1>4, <3>1 DEF TaskFits, ForHead, Has, Kid, Node
  <2>2. Has(1) => Fits(Kid(1))
    <3>1. Has(1) => TaskFits(tasks[3])
      BY <1>4, <1>10
    <3> QED BY <1>4, <3>1 DEF TaskFits, Check
  <2>3. \A i \in DOMAIN Node.kids : Has(i) => Fits(Kid(i))
    BY <1>3, <2>1, <2>2
  <2> QED BY <1>1, <1>2, <2>3, CheckFits
<1> QED BY <1>1, <1>4, <1>6, <1>7, <1>8, <1>9, <1>10, DeclaresNone, PlainHandler

LEMMA TasksDeclareNone ==
  ASSUME NEW nodes \in Seq(DOMAIN Ast), \A i \in DOMAIN nodes : Declared(nodes[i]) = {}
  PROVE  \A i \in DOMAIN Tasks(nodes) : DeclaredBy(Tasks(nodes)[i]) = {}
<1>1. /\ DOMAIN Tasks(nodes) = 1 .. Len(nodes) /\ Len(nodes) \in Nat
      /\ DOMAIN nodes = 1 .. Len(nodes)
  BY DEF Tasks
<1>2. \A i \in 1 .. Len(nodes) : Tasks(nodes)[i] = Check(nodes[Len(nodes) + 1 - i])
  BY DEF Tasks
<1>3. \A n : DeclaredBy(Check(n)) = Declared(n)
  BY DEF DeclaredBy, Check
<1> QED BY <1>1, <1>2, <1>3

LEMMA GuardFirst ==
  ASSUME NEW rest \in Seq(TaskSet)
  PROVE  LET tasks == <<ScopeGuard>> \o rest
         IN  tasks # <<>> /\ tasks[1] = ScopeGuard
<1>1. <<ScopeGuard>> \in Seq(TaskSet) /\ Len(<<ScopeGuard>>) = 1
  BY DEF TaskSet
<1> HIDE DEF ScopeGuard
<1> DEFINE tasks == <<ScopeGuard>> \o rest
<1>2. /\ Len(tasks) = 1 + Len(rest) /\ Len(rest) \in Nat
      /\ tasks \in Seq(TaskSet)
      /\ tasks[1] = ScopeGuard
  BY <1>1
<1> HIDE DEF tasks
<1>3. tasks # <<>>
  BY <1>2
<1> QED BY <1>2, <1>3 DEF tasks

LEMMA GuardInText ==
  /\ <<ScopeGuard>> \in Seq(TaskSet)
  /\ \A i \in DOMAIN <<ScopeGuard>> : InText(<<ScopeGuard>>[i])
<1>1. InText(ScopeGuard) /\ ScopeGuard \in TaskSet
  BY DEF InText, ScopeGuard, TaskSet
<1> HIDE DEF ScopeGuard
<1> QED BY <1>1

LEMMA IfHandler == ASSUME XInv, CheckIf, UNCHANGED <<program, registry_>> PROVE XInv'
<1> DEFINE nodes == IF Has(3) THEN <<Kid(2), Kid(3)>> ELSE <<Kid(2)>>
           tasks == Tasks(nodes)
           codes == ConditionReports(Kid(1))
<1>1. Ready /\ Task.do = "check" /\ Node.kind = "if" /\ CInv
  BY OnCheckFacts DEF CheckIf, OnCheck, Ready, XInv
<1>2. Task.node \in DOMAIN Ast
  BY <1>1, ReadyFacts
<1>3. /\ DOMAIN Node.kids = {1, 2, 3} /\ Kid(1) \in Expr /\ Kid(1) # None
      /\ Kid(2) \in Branch /\ Kid(2) # None
      /\ Has(3) => Kid(3) \in Branch
  BY <1>1, <1>2, IfShape, KindFacts DEF Node, Kid, Has
<1>4. ASSUME NEW rank, TypingContext(rank)
      PROVE  IsSequence(codes) /\ (codes = <<>> => Free[Kid(1)] \subseteq Names(symbols_) /\ Fits(Kid(1)))
  BY <1>3, <1>4, ConditionSound
<1>5. /\ nodes \in Seq(Branch) /\ nodes \in Seq(DOMAIN Ast)
      /\ Len(nodes) = IF Has(3) THEN 2 ELSE 1
      /\ DOMAIN nodes = 1 .. Len(nodes)
      /\ nodes[1] = Kid(2) /\ (Has(3) => nodes[2] = Kid(3))
  <2>1. \A a, b \in Branch : <<a>> \in Seq(Branch) /\ <<a, b>> \in Seq(Branch)
    OBVIOUS
  <2>2. Seq(Branch) \subseteq Seq(DOMAIN Ast)
    BY KindFacts
  <2>3. CASE Has(3)
    <3>1. nodes = <<Kid(2), Kid(3)>> /\ nodes \in Seq(Branch)
      BY <1>3, <2>1, <2>3
    <3>2. nodes \in Seq(DOMAIN Ast)
      BY <2>2, <3>1, Zenon
    <3>3. Len(nodes) = Len(<<Kid(2), Kid(3)>>) /\ nodes[1] = Kid(2) /\ nodes[2] = Kid(3)
      BY <3>1
    <3> HIDE DEF nodes
    <3> QED BY <2>3, <3>1, <3>2, <3>3
  <2>4. CASE ~ Has(3)
    <3>1. nodes = <<Kid(2)>> /\ nodes \in Seq(Branch)
      BY <1>3, <2>1, <2>4
    <3>2. nodes \in Seq(DOMAIN Ast)
      BY <2>2, <3>1, Zenon
    <3>3. Len(nodes) = Len(<<Kid(2)>>) /\ nodes[1] = Kid(2)
      BY <3>1
    <3> HIDE DEF nodes
    <3> QED BY <2>4, <3>1, <3>2, <3>3
  <2> QED BY <2>3, <2>4
<1>6. Wants(Task) = UNION {FreeOf(Free, Kid(i)) : i \in DOMAIN Node.kids}
  BY <1>1, <1>2, CheckWants
<1> HIDE DEF nodes
<1>7. tasks \in Seq(TaskSet)
  BY <1>5, TasksOfNodes
<1>8. \A i \in DOMAIN nodes : nodes[i] \in Branch
  BY <1>5, Elements
<1>9. \A i \in DOMAIN tasks : DeclaredBy(tasks[i]) = {}
  BY <1>5, <1>8, NoneDeclared, TasksDeclareNone
<1> HIDE DEF codes, tasks
<1>10. Handles(tasks, codes)
  BY <1>1, <1>4, <1>7, Context DEF Handles, CheckIf, codes, tasks, nodes
<1>11. ASSUME NEW rank, TypingContext(rank), codes = <<>>, Supplied(todo', symbols_)
       PROVE  Wants(Task) \subseteq Names(symbols_)
  <2>1. PICK t : t = todo'
    OBVIOUS
  <2>2. /\ t = Front(todo) \o Tasks(nodes) /\ Front(todo) \in Seq(TaskSet)
        /\ Supplied(t, symbols_) /\ Tasks(nodes) \in Seq(TaskSet)
    BY <1>7, <1>10, <1>11, <2>1, StackBase DEF tasks
  <2>3. ASSUME NEW i \in 1 .. Len(nodes), NEW x \in Free[nodes[i]] PROVE x \in Names(symbols_)
    <3>1. x \in Names(symbols_) \/ \E j \in 1 .. i - 1 : x \in Declared(nodes[j])
      BY <1>5, <2>2, TasksWant
    <3>2. \A j \in 1 .. i - 1 : j \in DOMAIN nodes
      BY <1>5
    <3>3. \A j \in 1 .. i - 1 : Declared(nodes[j]) = {}
      BY <1>8, <3>2, NoneDeclared
    <3> QED BY <3>1, <3>3
  <2>4. Free[Kid(1)] \subseteq Names(symbols_)
    BY <1>4, <1>11
  <2> HIDE DEF Free
  <2>5. /\ Free[Kid(2)] \subseteq Names(symbols_)
        /\ Has(3) => Free[Kid(3)] \subseteq Names(symbols_)
    BY <1>5, <2>3
  <2>6. \A i \in {1, 2, 3} : FreeOf(Free, Kid(i)) \subseteq Names(symbols_)
    BY <2>4, <2>5 DEF FreeOf, Has
  <2> QED BY <1>3, <1>6, <2>6
<1>12. \A i \in DOMAIN tasks : InText(tasks[i])
  <2>1. \A i \in DOMAIN nodes : Within[nodes[i]] \subseteq Text(program)
    BY <1>1, <1>3, <1>5, TaskInText DEF Has
  <2> QED BY <1>5, <2>1, TasksInText DEF tasks
<1>13. CInv' /\ UNCHANGED symbols_
  BY IfKeeps DEF XInv, CheckIf, SameScopes
<1>14. ASSUME NEW rank, TypingContext(rank), codes = <<>>,
              \A i \in DOMAIN tasks : TaskFits(tasks[i])
       PROVE  TaskFits(Task)
  <2>1. \A i \in DOMAIN nodes : Fits(nodes[i])
    BY <1>5, <1>14, TasksFit DEF tasks
  <2>2. Fits(Kid(2)) /\ (Has(3) => Fits(Kid(3)))
    BY <1>5, <2>1
  <2>3. \A i \in DOMAIN Node.kids : Has(i) => Fits(Kid(i))
    BY <1>3, <1>4, <1>14, <2>2
  <2> QED BY <1>1, <1>2, <2>3, CheckFits
<1> QED BY <1>1, <1>9, <1>10, <1>11, <1>12, <1>13, <1>14, DeclaresNone, PlainHandler

LEMMA BlockHandler == ASSUME XInv, CheckBlock, UNCHANGED <<program, registry_>>
                      PROVE  XInv'
<1> DEFINE rest == Tasks(Node.kids)
           tasks == BlockGuard \o rest
<1>1. Ready /\ Task.do = "check" /\ Task.do # "leave" /\ Node.kind = "block" /\ CInv
  BY OnCheckFacts DEF CheckBlock, OnCheck, Ready, XInv
<1>2. Task.node \in DOMAIN Ast /\ Node.kids \in Seq(DOMAIN Ast)
  BY <1>1, ReadyFacts, NodeFacts
<1>3. rest \in Seq(TaskSet) /\ BlockGuard \in Seq(TaskSet)
  <2>1. <<ScopeGuard>> \in Seq(TaskSet) /\ <<>> \in Seq(TaskSet)
    BY NoTasks DEF TaskSet
  <2> QED BY <1>2, <2>1, TasksOfNodes DEF BlockGuard
<1>4. Wants(Task) = InSequence(Free, Node.kids)
  BY <1>1, <1>2, CheckWants
<1>5. \A i \in DOMAIN rest : InText(rest[i])
  <2>1. \A i \in DOMAIN Node.kids : Node.kids[i] # None
    BY <1>2, KindFacts
  <2>2. \A i \in DOMAIN Node.kids : Within[Node.kids[i]] \subseteq Text(program)
    BY <1>1, <2>1, TaskInText DEF Has, Kid
  <2> QED BY <1>2, <2>2, TasksInText
<1> HIDE DEF rest
<1>6. tasks \in Seq(TaskSet)
  BY <1>3
<1>7. \A i \in DOMAIN tasks : InText(tasks[i])
  <2>1. BlockGuard = <<>> \/ BlockGuard = <<ScopeGuard>>
    BY DEF BlockGuard
  <2>2. \A i \in DOMAIN BlockGuard : InText(BlockGuard[i])
    BY <2>1, GuardInText
  <2> QED BY <1>3, <1>5, <2>2, JoinInText
<1>8. \/ tasks # <<>> /\ tasks[1] = ScopeGuard
      \/ \A i \in DOMAIN tasks : DeclaredBy(tasks[i]) = {}
  <2>1. CASE HasDeclarations
    <3>1. tasks = <<ScopeGuard>> \o rest
      BY <2>1 DEF BlockGuard
    <3> QED BY <1>3, <3>1, GuardFirst
  <2>2. CASE ~ HasDeclarations
    <3>1. tasks = rest
      BY <1>3, <2>2 DEF BlockGuard
    <3>2. \A i \in DOMAIN Node.kids : Declared(Node.kids[i]) = {}
      BY <2>2 DEF HasDeclarations, Declared
    <3> QED BY <1>2, <3>1, <3>2, TasksDeclareNone DEF rest
  <2> QED BY <2>1, <2>2
<1> HIDE DEF tasks
<1>9. Handles(tasks, <<>>)
  BY <1>1, <1>6, NoReport DEF Handles, CheckBlock, tasks, rest
<1>10. ASSUME Supplied(todo', symbols_) PROVE Wants(Task) \subseteq Names(symbols_)
  <2> DEFINE f == Front(todo)
  <2>1. PICK t : t = todo'
    OBVIOUS
  <2>2. t = f \o tasks /\ f \in Seq(TaskSet) /\ Supplied(t, symbols_)
    BY <1>9, <1>10, <2>1, StackBase
  <2> HIDE DEF f
  <2>3. f \o BlockGuard \in Seq(TaskSet) /\ t = (f \o BlockGuard) \o rest
    <3>1. (f \o BlockGuard) \o rest = f \o (BlockGuard \o rest)
      BY <1>3, <2>2, JoinThree
    <3>2. f \o BlockGuard \in Seq(TaskSet)
      BY <1>3, <2>2
    <3> QED BY <2>2, <3>1, <3>2 DEF tasks
  <2> QED BY <1>2, <1>3, <1>4, <2>2, <2>3, SequenceWants DEF rest
<1>11. CInv' /\ UNCHANGED symbols_
  BY BlockKeeps DEF XInv, CheckBlock
<1>12. ASSUME \A i \in DOMAIN tasks : TaskFits(tasks[i]) PROVE TaskFits(Task)
  <2>1. \A i \in DOMAIN rest : TaskFits(rest[i])
    BY <1>3, <1>12, JoinFits DEF tasks
  <2>2. \A i \in DOMAIN Node.kids : Fits(Node.kids[i])
    BY <1>2, <2>1, TasksFit DEF rest
  <2> QED BY <1>1, <1>2, <2>2, CheckFits DEF Kid
<1> QED BY <1>1, <1>7, <1>8, <1>9, <1>10, <1>11, <1>12, DeclaresNone, PlainHandler

LEMMA ReturnHandler == ASSUME XInv, CheckReturn, UNCHANGED <<program, registry_>>
                       PROVE  XInv'
<1> DEFINE codes == ReturnReports
           value == TypeOf(Kid(1))
<1>1. Ready /\ Task.do = "check" /\ Node.kind = "return" /\ CInv
  BY OnCheckFacts DEF CheckReturn, OnCheck, Ready, XInv
<1>2. Task.node \in DOMAIN Ast
  BY <1>1, ReadyFacts
<1>3. DOMAIN Node.kids = {1} /\ (Has(1) => Kid(1) \in Expr)
  BY <1>1, <1>2, MaybeShape DEF Node, Kid, Has
<1>4. ASSUME NEW rank, TypingContext(rank)
      PROVE  /\ IsSequence(codes)
             /\ codes = <<>> /\ Has(1) =>
                  Free[Kid(1)] \subseteq Names(symbols_) /\ Fits(Kid(1))
  <2>1. Has(1) => Sound(rank, Kid(1))
    BY <1>3, <1>4, ExpressionsSound
  <2>2. /\ Has(1) => IsSequence(value.reports)
        /\ Has(1) /\ IsUnknown(value) => value.reports # <<>>
        /\ Has(1) /\ ~ IsUnknown(value) =>
             Free[Kid(1)] \subseteq Names(symbols_) /\ Fits(Kid(1))
    BY <2>1 DEF Sound, Fine
  <2>3. \A code : IsSequence(<<code>>) /\ <<code>> # <<>>
    BY OneReport
  <2> HIDE DEF value
  <2>4. CASE curr_return_type_ = NoType
    <3>1. codes = <<"return_outside_function">>
      BY <2>4, Zenon DEF ReturnReports
    <3> HIDE DEF codes
    <3> QED BY <2>3, <3>1
  <2>5. CASE curr_return_type_ # NoType /\ ~ Has(1)
    <3>1. codes = IF curr_return_type_ = Simple("void") THEN <<>>
                  ELSE <<"return_missing_value">>
      BY <2>5, Zenon DEF ReturnReports
    <3> HIDE DEF codes
    <3> QED BY <2>3, <2>5, <3>1, NoReport
  <2>6. CASE curr_return_type_ # NoType /\ Has(1)
    <3>1. codes = IF IsUnknown(value) THEN value.reports
                  ELSE IF SameType(value.type, curr_return_type_) THEN <<>>
                       ELSE <<"return_type_mismatch">>
      BY <2>6, Zenon DEF ReturnReports, value
    <3> HIDE DEF codes
    <3> QED BY <2>2, <2>3, <2>6, <3>1, NoReport
  <2> QED BY <2>4, <2>5, <2>6
<1>5. Wants(Task) = FreeOf(Free, Kid(1))
  BY <1>1, <1>2, <1>3, CheckWants
<1> HIDE DEF codes
<1>6. Handles(<<>>, codes)
  BY <1>1, <1>4, NoTasks, Context DEF Handles, CheckReturn, codes
<1>7. ASSUME NEW rank, TypingContext(rank), codes = <<>>
      PROVE  Wants(Task) \subseteq Names(symbols_)
  BY <1>4, <1>5, <1>7 DEF FreeOf, Has
<1>8. CInv' /\ UNCHANGED symbols_
  BY SimpleKeeps DEF XInv, CheckReturn, SameScopes
<1>9. ASSUME NEW rank, TypingContext(rank), codes = <<>> PROVE TaskFits(Task)
  <2>1. \A i \in DOMAIN Node.kids : Has(i) => Fits(Kid(i))
    BY <1>3, <1>4, <1>9
  <2> QED BY <1>1, <1>2, <2>1, CheckFits
<1> QED BY <1>1, <1>6, <1>7, <1>8, <1>9, DeclaresNone, PlainHandler

LEMMA StructSequence ==
  ASSUME Node.params \in Seq([name : STRING, type : WrittenTypes])
  PROVE  IsSequence(StructReports)
<1> DEFINE fields == Node.params
           twice == {j \in DOMAIN fields : \E i \in 1 .. j - 1 :
                       fields[i].name = fields[j].name}
           upto == IF twice = {} THEN Len(fields) ELSE Min(twice) - 1
           undefined == {i \in 1 .. upto : /\ IsStruct(fields[i].type)
                                           /\ Resolved(fields[i].type) = Unknown}
           a == [i \in 1 .. Cardinality(undefined) |-> "undefined_type"]
           b == IF twice = {} THEN <<>> ELSE <<"redeclaration">>
<1>1. Len(fields) \in Nat /\ DOMAIN fields = 1 .. Len(fields)
  OBVIOUS
<1>2. upto \in Int
  <2>1. twice \subseteq Nat
    BY <1>1
  <2>2. twice # {} => Min(twice) \in Nat
    BY <2>1, MinOf
  <2> HIDE DEF twice
  <2> QED BY <1>1, <2>2
<1>3. Cardinality(undefined) \in Nat
  <2> HIDE DEF upto
  <2>1. IsFiniteSet(1 .. upto)
    BY <1>2, FS_Interval
  <2>2. IsFiniteSet(undefined)
    BY <2>1, FS_Subset
  <2> QED BY <2>2, FS_CardinalityType
<1>4. IsSequence(a)
  <2> HIDE DEF undefined
  <2>1. ASSUME NEW n \in Nat, NEW code PROVE [i \in 1 .. n |-> code] \in Seq({code})
    OBVIOUS
  <2> QED BY <1>3, <2>1 DEF IsSequence
<1>5. IsSequence(b)
  <2>1. \A code : IsSequence(<<code>>)
    BY OneReport
  <2> QED BY <2>1, NoReport
<1>6. StructReports = a \o b
  BY DEF StructReports
<1> HIDE DEF a, b
<1> QED BY <1>4, <1>5, <1>6, ConcatSequences

LEMMA StructHandler == ASSUME XInv, CheckStruct, UNCHANGED <<program, registry_>>
                       PROVE  XInv'
<1>1. Ready /\ Task.do = "check" /\ Node.kind = "struct" /\ CInv
  BY OnCheckFacts DEF CheckStruct, OnCheck, Ready, XInv
<1>2. Task.node \in DOMAIN Ast
  BY <1>1, ReadyFacts
<1>3. IsSequence(StructReports)
  BY <1>2, ParamShape, StructSequence DEF Node
<1>4. Wants(Task) = {} /\ TaskFits(Task)
  <2>1. DOMAIN Node.kids = {}
    BY <1>1, <1>2, LeafShape DEF Node
  <2> QED BY <1>1, <1>2, <2>1, CheckWants, CheckFits
<1>5. Handles(<<>>, StructReports)
  BY <1>1, <1>3, NoTasks DEF Handles, CheckStruct
<1>6. CInv' /\ UNCHANGED symbols_
  BY SimpleKeeps DEF XInv, CheckStruct, SameScopes
<1> QED BY <1>1, <1>4, <1>5, <1>6, DeclaresNone, PlainHandler

LEMMA VarHandler == ASSUME XInv, CheckVar, UNCHANGED <<program, registry_>>
                    PROVE  XInv'
<1> DEFINE codes == VarResult.reports
           new == DefineEntry(symbols_, symbols_depth, Node.name, VarResult.type)
<1>1. Ready /\ Task.do = "check" /\ Task.do # "leave" /\ Node.kind = "var" /\ CInv
  BY OnCheckFacts DEF CheckVar, OnCheck, Ready, XInv
<1>2. Task.node \in DOMAIN Ast /\ Task.node \in Text(program)
  BY <1>1, TaskInText
<1>3. DOMAIN Node.kids = {1} /\ (Has(1) => Kid(1) \in Expr)
  BY <1>1, <1>2, MaybeShape DEF Node, Kid, Has
<1>4. Node.type.base \in Mentioned
  BY <1>1, <1>2 DEF Mentioned, OfKind, Node
<1>5. ASSUME NEW rank, TypingContext(rank)
      PROVE  /\ Fine(rank, VarResult)
             /\ ~ IsUnknown(VarResult) /\ Has(1) =>
                  Free[Kid(1)] \subseteq Names(symbols_) /\ Fits(Kid(1))
  BY <1>1, <1>2, <1>4, <1>5, VarSound
<1>6. Wants(Task) = FreeOf(Free, Kid(1))
  BY <1>1, <1>2, <1>3, CheckWants
<1>7. KnownTypes => IsSequence(codes)
  BY <1>5, Context DEF Fine
<1>8. Handles(<<>>, codes)
  BY <1>1, <1>7, NoTasks DEF Handles, CheckVar
<1>9. symbols_' = symbols_ \/ (~ IsUnknown(VarResult) /\ symbols_' = new)
  BY DEF CheckVar, Declare
<1>10. /\ IsTable(symbols_) /\ Sorted(symbols_, symbols_depth)
       /\ symbols_depth \in Nat /\ symbols_depth = Guards(todo)
       /\ todo \in Seq(TaskSet) /\ todo # <<>>
  BY <1>1, ReadyFacts DEF CInv, Symbols, Ready
<1>11. /\ IsTable(new)
       /\ \A i \in DOMAIN new :
            \/ i \in DOMAIN symbols_ /\ new[i] = symbols_[i]
            \/ new[i] = Entry(Node.name, VarResult.type, symbols_depth)
  <2> DEFINE one == <<Entry(Node.name, VarResult.type, symbols_depth)>>
  <2>1. IsTable(one) /\ DOMAIN one = {1}
                     /\ one[1] = Entry(Node.name, VarResult.type, symbols_depth)
    <3>1. IsTable(one)
      BY <1>10, EntryTable
    <3>2. \A e : DOMAIN <<e>> = {1} /\ <<e>>[1] = e
      OBVIOUS
    <3> QED BY <3>1, <3>2, Zenon
  <2>2. new = symbols_ \o one
    BY <1>10, DefineIsConcat
  <2>3. IsTable(new)
    BY <1>10, DefineTable
  <2> HIDE DEF one, new
  <2>4. \A i \in DOMAIN (symbols_ \o one) :
           \/ i \in DOMAIN symbols_ /\ (symbols_ \o one)[i] = symbols_[i]
           \/ i - Len(symbols_) \in DOMAIN one
              /\ (symbols_ \o one)[i] = one[i - Len(symbols_)]
    BY <1>10, <2>1, ConcatTable
  <2> QED BY <2>1, <2>2, <2>3, <2>4
<1> HIDE DEF codes, new
<1>12. ASSUME NEW rank, Known(rank), NEW i \in DOMAIN symbols_'
       PROVE  Good(rank, symbols_'[i].value)
  <2>1. TypingContext(rank)
    BY <1>10, <1>12 DEF XInv, TypingContext
  <2>2. CASE symbols_' = symbols_
    BY <1>12, <2>1, <2>2 DEF TypingContext, GoodSymbols
  <2>3. CASE ~ IsUnknown(VarResult) /\ symbols_' = new
    <3>1. Good(rank, VarResult.type)
      BY <1>5, <2>1, <2>3 DEF Fine
    <3> QED BY <1>11, <1>12, <2>1, <2>3, <3>1 DEF TypingContext, GoodSymbols, Entry
  <2> QED BY <1>9, <2>2, <2>3
<1>13. Continues(todo, symbols_, todo', symbols_', <<>>)
  <2>1. todo' = Front(todo) \o <<>> /\ <<>> \in Seq(TaskSet)
    BY <1>8, StackBase
  <2>2. CASE symbols_' = symbols_
    <3>1. PICK tasks : tasks = <<>>
      OBVIOUS
    <3>2. \A i \in DOMAIN tasks : DeclaredBy(tasks[i]) = {}
      BY <3>1
    <3>3. Continues(todo, symbols_, todo', symbols_, tasks)
      BY <1>10, <2>1, <3>1, <3>2, SameTable
    <3> QED BY <2>2, <3>1, <3>3
  <2>3. CASE symbols_' = new
    <3>1. Node.name \in DeclaredBy(Last(todo))
      <4>1. Task.node # None
        BY <1>2, KindFacts
      <4> QED BY <1>1, <4>1 DEF DeclaredBy, Declared, Node, Task
    <3>2. ASSUME NEW i \in DOMAIN new
          PROVE  \/ new[i].name \in Seen(symbols_, new[i].scope_depth)
                 \/ new[i].scope_depth = Guards(todo) /\ new[i].name \in DeclaredBy(Last(todo))
      <4>1. CASE i \in DOMAIN symbols_ /\ new[i] = symbols_[i]
        <5>1. symbols_[i].scope_depth \in Nat
          BY <1>10, <4>1, TableFacts
        <5> QED BY <4>1, <5>1 DEF Seen
      <4>2. CASE new[i] = Entry(Node.name, VarResult.type, symbols_depth)
        BY <1>10, <3>1, <4>2 DEF Entry
      <4> QED BY <1>11, <4>1, <4>2
    <3> QED BY <1>10, <1>11, <2>1, <2>3, <3>2 DEF Continues
  <2> QED BY <1>9, <2>2, <2>3, Zenon
<1>14. ASSUME NEW rank, Known(rank), codes = <<>>
       PROVE  Wants(Task) \subseteq Names(symbols_) /\ TaskFits(Task)
  <2>1. TypingContext(rank)
    BY <1>10, <1>14 DEF XInv, TypingContext
  <2>2. ~ IsUnknown(VarResult)
    BY <1>5, <1>14, <2>1 DEF Fine, codes
  <2>3. \A i \in DOMAIN Node.kids : Has(i) => Fits(Kid(i))
    BY <1>3, <1>5, <2>1, <2>2
  <2>4. TaskFits(Task)
    BY <1>1, <1>2, <2>3, CheckFits
  <2> QED BY <1>5, <1>6, <2>1, <2>2, <2>4 DEF FreeOf, Has
<1>15. CInv'
  BY VarKeeps DEF XInv
<1>16. \A rank : TypingContext(rank) /\ codes = <<>> => TaskFits(Task)
  BY <1>14 DEF TypingContext
<1>17. Updates(codes)
  <2>1. Node.name \in DeclaredBy(Task)
    <3>1. Task.node # None
      BY <1>2, KindFacts
    <3> QED BY <1>1, <3>1 DEF DeclaredBy, Declared, Node
  <2>2. KnownTypes /\ codes = <<>> => symbols_' = new
    <3>1. KnownTypes /\ codes = <<>> => ~ IsUnknown(VarResult)
      BY <1>5, Context DEF Fine, codes
    <3> QED BY <3>1 DEF CheckVar, Declare, new
  <2> QED BY <2>1, <2>2 DEF Updates, new
<1> QED BY <1>8, <1>12, <1>13, <1>14, <1>15, <1>16, <1>17, HandlerKeeps

LEMMA FuncHandler == ASSUME XInv, CheckFunc, UNCHANGED <<program, registry_>>
                     PROVE  XInv'
<1> DEFINE nodes == Ast[Kid(1)].kids
           rest == Tasks(nodes)
           tasks == <<ScopeGuard>> \o rest
           ps == Node.params
           new == [i \in DOMAIN ps |-> Entry(ps[i].name, ps[i].type, symbols_depth + 1)]
           fs == symbols_ \o new
<1>1. Ready /\ Task.do = "check" /\ Task.do # "leave" /\ Node.kind = "func" /\ CInv
  BY OnCheckFacts DEF CheckFunc, OnCheck, Ready, XInv
<1>2. /\ Task.node \in DOMAIN Ast /\ Task.node \in Text(program)
      /\ Kid(1) \in DOMAIN Ast /\ Kid(1) # None /\ Ast[Kid(1)].kind = "block" /\ nodes \in Seq(DOMAIN Ast)
      /\ DOMAIN Node.kids = {1}
  BY <1>1, TaskInText, FuncShape, KindFacts DEF Node, Kid
<1>3. rest \in Seq(TaskSet)
  BY <1>2, TasksOfNodes
<1>4. Wants(Task) = InSequence(Free, nodes) \ ParamNames(Task.node)
  BY <1>1, <1>2, CheckWants
<1>5. \A i \in DOMAIN rest : InText(rest[i])
  <2>1. Within[Kid(1)] \subseteq Text(program)
    BY <1>1, <1>2, TaskInText DEF Has
  <2>2. \A i \in DOMAIN nodes : Within[nodes[i]] \subseteq Text(program)
    <3>1. \A i \in DOMAIN nodes : nodes[i] # None
      BY <1>2, KindFacts
    <3> QED BY <1>2, <2>1, <3>1, KidInTable, KidsInText
  <2> QED BY <1>2, <2>2, TasksInText
<1>6. \A i \in DOMAIN tasks : InText(tasks[i])
  <2> HIDE DEF rest
  <2> QED BY <1>3, <1>5, GuardInText, JoinInText
<1>7. tasks \in Seq(TaskSet) /\ tasks # <<>> /\ tasks[1] = ScopeGuard
  <2> HIDE DEF rest
  <2>1. tasks \in Seq(TaskSet)
    BY <1>3, GuardInText
  <2> QED BY <1>3, <2>1, GuardFirst
<1> HIDE DEF tasks, rest
<1>8. Handles(tasks, <<>>)
  BY <1>1, <1>7, NoReport DEF Handles, CheckFunc, tasks, rest
<1>9. symbols_' = fs
  BY DEF CheckFunc, Enter
<1>10. /\ IsTable(symbols_) /\ Sorted(symbols_, symbols_depth)
       /\ symbols_depth \in Nat /\ symbols_depth = Guards(todo)
       /\ todo \in Seq(TaskSet) /\ todo # <<>>
  BY <1>1, ReadyFacts DEF CInv, Symbols, Ready
<1>11. CInv' /\ IsTable(fs)
  <2>1. CInv'
    BY FuncKeeps DEF XInv
  <2>2. IsTable(symbols_')
    BY <2>1 DEF CInv, Symbols
  <2> HIDE DEF fs
  <2> QED BY <1>9, <2>1, <2>2
<1>12. \A i \in DOMAIN fs :
          \/ i \in DOMAIN symbols_ /\ fs[i] = symbols_[i]
          \/ \E j \in DOMAIN ps : fs[i] = Entry(ps[j].name, ps[j].type, symbols_depth + 1)
  <2>1. DOMAIN new = DOMAIN ps /\ \A j \in DOMAIN ps :
           new[j] = Entry(ps[j].name, ps[j].type, symbols_depth + 1)
    OBVIOUS
  <2>2. IsTable(new)
    <3>1. symbols_depth + 1 \in Nat
      BY <1>10
    <3> QED BY <1>2, <3>1, ParameterTable, Zenon DEF Node
  <2> HIDE DEF new
  <2>3. \A i \in DOMAIN (symbols_ \o new) :
           \/ i \in DOMAIN symbols_ /\ (symbols_ \o new)[i] = symbols_[i]
           \/ i - Len(symbols_) \in DOMAIN new
              /\ (symbols_ \o new)[i] = new[i - Len(symbols_)]
    BY <1>10, <2>2, ConcatTable
  <2> QED BY <2>1, <2>3
<1> HIDE DEF fs, new
<1>13. ASSUME NEW rank, Known(rank), NEW i \in DOMAIN symbols_'
       PROVE  Good(rank, symbols_'[i].value)
  <2>1. \A j \in DOMAIN symbols_ : Good(rank, symbols_[j].value)
    BY <1>13 DEF XInv, GoodSymbols
  <2>2. ASSUME NEW j \in DOMAIN ps PROVE Good(rank, ps[j].type)
    <3>1. ps \in Seq([name : STRING, type : WrittenTypes])
      BY <1>2, ParamShape DEF Node
    <3>2. ps[j].type \in WrittenTypes
      BY <3>1, ParamTypes
    <3>3. ps[j].type.base \in Mentioned
      BY <1>2, ParamsMentioned DEF Node
    <3> QED BY <1>13, <3>2, <3>3, WrittenGood
  <2> HIDE DEF ps
  <2> QED BY <1>9, <1>12, <1>13, <2>1, <2>2 DEF Entry
<1>14. Continues(todo, symbols_, todo', symbols_', tasks)
  <2>1. todo' = Front(todo) \o tasks
    BY <1>8, StackBase
  <2>2. ASSUME NEW i \in DOMAIN fs, fs[i].scope_depth <= Guards(todo)
        PROVE  fs[i].name \in Seen(symbols_, fs[i].scope_depth)
    <3>1. i \in DOMAIN symbols_ /\ fs[i] = symbols_[i]
      BY <1>10, <1>12, <2>2 DEF Entry
    <3>2. symbols_[i].scope_depth \in Nat
      BY <1>10, <3>1, TableFacts
    <3> QED BY <3>1, <3>2 DEF Seen
  <2> QED BY <1>7, <1>9, <1>10, <1>11, <2>1, <2>2 DEF Continues
<1>15. ASSUME Supplied(todo', symbols_') PROVE Wants(Task) \subseteq Names(symbols_)
  <2> DEFINE f == Front(todo)
             g == <<ScopeGuard>>
  <2>1. PICK t : t = todo'
    OBVIOUS
  <2>2. t = f \o tasks /\ f \in Seq(TaskSet) /\ Supplied(t, fs)
    BY <1>8, <1>9, <1>15, <2>1, StackBase
  <2>3. g \in Seq(TaskSet)
    BY GuardInText
  <2> HIDE DEF f, g
  <2>4. f \o g \in Seq(TaskSet) /\ t = (f \o g) \o rest
    <3>1. (f \o g) \o rest = f \o (g \o rest)
      BY <1>3, <2>2, <2>3, JoinThree
    <3>2. f \o g \in Seq(TaskSet)
      BY <2>2, <2>3
    <3> QED BY <2>2, <3>1, <3>2 DEF tasks, g
  <2>5. InSequence(Free, nodes) \subseteq Names(fs)
    BY <1>2, <1>3, <2>2, <2>4, SequenceWants DEF rest
  <2>6. Names(fs) \subseteq Names(symbols_) \cup ParamNames(Task.node)
    BY <1>12 DEF Names, ParamNames, Entry, Node
  <2> QED BY <1>4, <2>5, <2>6
<1>16. ASSUME \A i \in DOMAIN tasks : TaskFits(tasks[i]) PROVE TaskFits(Task)
  <2>1. \A i \in DOMAIN rest : TaskFits(rest[i])
    BY <1>3, <1>16, GuardInText, JoinFits DEF tasks
  <2>2. \A i \in DOMAIN nodes : Fits(nodes[i])
    BY <1>2, <2>1, TasksFit DEF rest
  <2>3. Fits(Kid(1))
    BY <1>2, <2>2, FitsOfKids DEF CallFits
  <2>4. \A i \in DOMAIN Node.kids : Fits(Kid(i))
    BY <1>2, <2>3
  <2> QED BY <1>1, <1>2, <2>4, CheckFits
<1>17. Updates(<<>>)
  <2>1. /\ Len(symbols_) \in Nat /\ DOMAIN symbols_ = 1 .. Len(symbols_)
        /\ Len(fs) \in Nat /\ DOMAIN fs = 1 .. Len(fs)
    BY <1>10, <1>11, TableFacts
  <2>2. Len(fs) >= Len(symbols_) /\ \A k \in 1 .. Len(symbols_) : fs[k] = symbols_[k]
    <3>1. Len(new) \in Nat /\ IsTable(new)
      <4>1. symbols_depth + 1 \in Nat
        BY <1>10
      <4>2. IsTable(new)
        BY <1>2, <4>1, ParameterTable, Zenon DEF Node, new
      <4> QED BY <4>2, TableFacts
    <3>2. PICK N, V : symbols_ \in Seq(EntriesOver(N, V))
      BY <1>10 DEF IsTable
    <3>3. PICK M, W : new \in Seq(EntriesOver(M, W))
      BY <3>1 DEF IsTable
    <3>4. /\ symbols_ \in Seq(EntriesOver(N, V) \cup EntriesOver(M, W))
          /\ new \in Seq(EntriesOver(N, V) \cup EntriesOver(M, W))
      BY <3>2, <3>3
    <3> QED BY <2>1, <3>1, <3>4, JoinFacts DEF fs
  <2>3. \A k \in 1 .. Len(fs) : ~ (k <= Len(symbols_)) => fs[k].scope_depth # 0
    BY <1>10, <1>12, <2>1 DEF Entry
  <2>4. SameGlobals(symbols_, symbols_')
    BY <1>9, <2>1, <2>2, <2>3 DEF SameGlobals
  <2> QED BY <1>1, <2>4, DeclaresNone DEF Updates
<1> QED BY <1>6, <1>8, <1>11, <1>13, <1>14, <1>15, <1>16, <1>17, HandlerKeeps

LEMMA LeaveHandler == ASSUME XInv, LeaveScope, UNCHANGED <<program, registry_>>
                      PROVE  XInv'
<1> DEFINE fs == PopEntries(symbols_, symbols_depth)
<1>1. Ready /\ Task = ScopeGuard /\ CInv
  BY ReadyFacts DEF LeaveScope, Ready, XInv
<1>2. Handles(<<>>, <<>>)
  BY <1>1, NoReport, NoTasks DEF Handles, LeaveScope
<1>3. /\ IsTable(symbols_) /\ Sorted(symbols_, Guards(todo))
      /\ todo \in Seq(TaskSet) /\ todo # <<>>
  BY <1>1 DEF CInv, Symbols, Ready
<1>4. CInv' /\ symbols_' = fs
  BY LeaveKeeps DEF XInv, LeaveScope
<1>5. IsTable(fs) /\ \A i \in DOMAIN fs : i \in DOMAIN symbols_ /\ fs[i] = symbols_[i]
  <2>1. PICK N, V : symbols_ \in Seq(EntriesOver(N, V))
    BY <1>3 DEF IsTable
  <2> HIDE DEF fs
  <2>2. PICK k \in 0 .. Len(symbols_) :
          /\ fs \in Seq(EntriesOver(N, V)) /\ Len(fs) = k
          /\ \A i \in 1 .. k : fs[i] = symbols_[i]
    BY <2>1, PopEntriesProperties DEF fs
  <2> QED BY <2>1, <2>2 DEF IsTable
<1> HIDE DEF fs
<1>6. \A rank : Known(rank) => \A i \in DOMAIN symbols_' : Good(rank, symbols_'[i].value)
  BY <1>4, <1>5 DEF XInv, GoodSymbols
<1>7. Continues(todo, symbols_, todo', symbols_', <<>>)
  <2>1. todo' = Front(todo) \o <<>> /\ <<>> \in Seq(TaskSet)
    BY <1>2, StackBase, NoTasks
  <2>2. ASSUME NEW i \in DOMAIN fs PROVE fs[i].name \in Seen(symbols_, fs[i].scope_depth)
    <3>1. symbols_[i].scope_depth \in Nat
      BY <1>3, <1>5, TableFacts
    <3> QED BY <1>5, <3>1 DEF Seen
  <2> QED BY <1>3, <1>4, <1>5, <2>1, <2>2 DEF Continues
<1>8. Wants(Task) = {} /\ TaskFits(Task)
  BY <1>1 DEF Wants, TaskFits, ScopeGuard
<1>9. Updates(<<>>)
  <2>1. symbols_depth \in Nat \ {0}
    <3>1. Guards(todo) # 0
      BY <1>1, <1>2, <1>3, NoTasks, ContinueGuards DEF Handles
    <3> QED BY <1>1, <3>1, ReadyFacts DEF CInv
  <2>2. SameGlobals(symbols_, symbols_')
    BY <1>3, <1>4, <2>1, PopSameGlobals DEF fs
  <2> QED BY <1>1, <2>2, GuardDeclaresNone DEF Updates
<1> QED BY <1>2, <1>4, <1>6, <1>7, <1>8, <1>9, HandlerKeeps

(* The check of a program starts in the invariant, whatever has been       *)
(* reported before it.                                                     *)
LEMMA StartedXInv == ASSUME Ground, Started, IsSequence(sink) PROVE XInv
<1>1. CInv
  BY StartedCInv DEF Ground
<1>2. program \in Seq(DOMAIN Ast) /\ todo = Tasks(program) /\ symbols_ = <<>>
  BY ProgramShape DEF Ground, Started
<1>3. \A i \in DOMAIN todo : InText(todo[i])
  BY <1>2, ProgramInText, TasksInText
<1>4. \A rank : GoodSymbols(rank)
  BY <1>2 DEF GoodSymbols
<1>5. ASSUME Supplied(todo, symbols_) PROVE Closed
  <2>1. Tasks(program) \in Seq(TaskSet) /\ DOMAIN program = 1 .. Len(program)
    BY <1>2, TasksOfNodes
  <2>2. PICK base : base = <<>>
    OBVIOUS
  <2>3. base \in Seq(TaskSet) /\ todo = base \o Tasks(program)
    <3> HIDE DEF Tasks
    <3> QED BY <1>2, <2>1, <2>2
  <2>4. ASSUME NEW i \in DOMAIN program, NEW x \in Free[program[i]]
        PROVE  \E j \in 1 .. i - 1 : x \in Declared(program[j])
    <3>1. x \notin Names(symbols_)
      BY <1>2 DEF Names
    <3>2. i \in 1 .. Len(program)
      BY <2>1
    <3> QED BY <1>2, <1>5, <2>1, <2>3, <3>1, <3>2, TasksWant
  <2> HIDE DEF Free
  <2> QED BY <2>4 DEF Closed
<1>6. ASSUME \A i \in DOMAIN todo : TaskFits(todo[i]) PROVE Fitting
  BY <1>2, <1>6, TasksFit DEF Fitting
<1>7. Progress
  <2>1. /\ Len(program) \in Nat /\ Len(todo) = Len(program)
        /\ \A k \in 1 .. Len(program) : todo[k] = Check(program[Len(program) + 1 - k])
    BY <1>2 DEF Tasks
  <2>2. Remaining(todo, 0)
    BY <2>1 DEF Remaining
  <2>3. Lists(symbols_, 0)
    BY <1>2, ListsNone
  <2> QED BY <2>2, <2>3 DEF Progress
<1> QED BY <1>1, <1>3, <1>4, <1>5, <1>6, <1>7 DEF XInv

LEMMA InitXInv == Init => XInv
BY StartedXInv, NoReport DEF Init, Ground

LEMMA SameXInv == ASSUME XInv, UNCHANGED vars PROVE XInv'
<1> USE DEF vars, checker
<1>1. UNCHANGED <<program, registry_>>
  OBVIOUS
<1>2. CInv'
  BY StepCInv DEF XInv
<1>3. (Ground' <=> Ground) /\ (KnownTypes' <=> KnownTypes) /\ (Closed' <=> Closed)
  BY <1>1, SameText
<1>4. (\A i \in DOMAIN todo : InText(todo[i]))' <=> \A i \in DOMAIN todo : InText(todo[i])
  <2>1. Text(program)' = Text(program)
    BY DEF Text
  <2> QED BY <2>1 DEF InText
<1>5. ASSUME NEW rank, Known(rank)' PROVE GoodSymbols(rank)'
  <2>1. PICK es : es = symbols_
    OBVIOUS
  <2>2. Known(rank) /\ \A v : Good(rank, v)' <=> Good(rank, v)
    BY <1>1, <1>5, SameText
  <2>3. \A i \in DOMAIN es : Good(rank, es[i].value)
    BY <2>1, <2>2 DEF XInv, GoodSymbols
  <2>4. \A i \in DOMAIN es : Good(rank, es[i].value)'
    BY <2>2, <2>3
  <2>5. es = symbols_'
    BY <2>1
  <2> QED BY <2>4, <2>5 DEF GoodSymbols, Good
<1>6. Supplied(todo, symbols_)' => Supplied(todo, symbols_)
  <2>1. Supplied(todo, symbols_)' => Supplied(todo', symbols_')
    BY DEF Supplied, Wants, Available, Seen, Above, Beside, Under, GuardsUpTo, DeclaredBy,
           HeadFree, FreeOf, Declared
  <2> QED BY <2>1
<1>7. (\A i \in DOMAIN todo : TaskFits(todo[i]))' <=> \A i \in DOMAIN todo : TaskFits(todo[i])
  <2>1. \A n : Fits(n)' <=> Fits(n)
    BY DEF Fits, CallFits, HasStruct
  <2> QED BY <2>1 DEF TaskFits
<1>8. Fitting' <=> Fitting
  BY <1>1, SameText
<1>9. Progress'
  <2>1. PICK i : Remaining(todo, i) /\ (KnownTypes /\ sink = <<>> => Lists(symbols_, i))
    BY DEF XInv, Progress
  <2>2. PICK s, es : s = todo' /\ es = symbols_'
    OBVIOUS
  <2>3. s = todo /\ es = symbols_
    BY <2>2
  <2>4. Remaining(s, i)' /\ (KnownTypes' /\ sink' = <<>> => Lists(es, i)')
    BY <1>1, <2>1, <2>3, SameText
  <2>5. Remaining(todo, i)'
    <3>1. Remaining(s, i)'
      BY <2>4
    <3> QED BY <2>2, <3>1 DEF Remaining
  <2>6. KnownTypes' /\ sink' = <<>> => Lists(symbols_, i)'
    <3>1. \A m : GlobalsFirst(es, m)' => GlobalsFirst(symbols_, m)'
      BY <2>2 DEF GlobalsFirst
    <3>2. \A m, f : Follows(f, es, m, i)' => Follows(f, symbols_, m, i)'
      BY <2>2 DEF Follows
    <3>3. Len(es) = Len(symbols_')
      BY <2>2
    <3> QED BY <2>4, <3>1, <3>2, <3>3 DEF Lists
  <2> QED BY <2>5, <2>6 DEF Progress
<1> QED BY <1>2, <1>3, <1>4, <1>5, <1>6, <1>7, <1>8, <1>9 DEF XInv

LEMMA StepXInv == XInv /\ [Next \/ (Checked /\ UNCHANGED vars)]_vars => XInv'
<1> SUFFICES ASSUME XInv, Next \/ UNCHANGED vars PROVE XInv'
  OBVIOUS
<1>1. CASE Next
  BY <1>1, ExpressionHandler, VarHandler, BlockHandler, WhileHandler, ForHandler,
     HeadHandler, IfHandler, ReturnHandler, FuncHandler, StructHandler, LeaveHandler
     DEF Next
<1>2. CASE UNCHANGED vars
  BY <1>2, SameXInv
<1> QED BY <1>1, <1>2

LEMMA XInvAccepts == XInv => AcceptedIsClosed
<1> SUFFICES ASSUME XInv, todo = <<>>, sink = <<>>, KnownTypes
             PROVE  Closed /\ \A n \in Text(program) : CallFits(n)
  BY DEF AcceptedIsClosed
<1>1. Supplied(todo, symbols_)
  BY DEF Supplied
<1>2. \A i \in DOMAIN todo : TaskFits(todo[i])
  OBVIOUS
<1>3. Closed /\ Fitting
  BY <1>1, <1>2 DEF XInv
<1> QED BY <1>3 DEF Fitting, Fits, Text

(* The symbols that are left when a program is accepted: those of the      *)
(* global scope, as the program declares them.                             *)
LEMMA XInvLists ==
  ASSUME XInv, todo = <<>>, sink = <<>>, KnownTypes
  PROVE  /\ DOMAIN symbols_ = 1 .. Len(symbols_) /\ Len(symbols_) \in Nat
         /\ \A k \in 1 .. Len(symbols_) : symbols_[k].scope_depth = 0
         /\ Lists(symbols_, Len(program)) /\ Len(program) \in Nat
<1>1. program \in Seq(DOMAIN Ast)
  BY ProgramShape DEF XInv, Ground
<1>2. PICK i : Remaining(todo, i) /\ Lists(symbols_, i)
  BY DEF XInv, Progress
<1>3. PICK n : n = Len(program)
  OBVIOUS
<1>4. i = n
  <2>1. n \in Nat /\ Len(todo) = 0
    BY <1>1, <1>3
  <2>2. i \in 0 .. n /\ n - i <= 0
    BY <1>2, <1>3, <2>1 DEF Remaining
  <2> QED BY <2>1, <2>2
<1>5. symbols_depth = 0
  BY NoTasks DEF XInv, CInv
<1>6. IsTable(symbols_) /\ Sorted(symbols_, 0)
  BY <1>5 DEF XInv, CInv, Symbols
<1>7. /\ DOMAIN symbols_ = 1 .. Len(symbols_) /\ Len(symbols_) \in Nat
      /\ \A k \in DOMAIN symbols_ : symbols_[k].scope_depth \in Nat
  BY <1>6, TableFacts
<1>8. \A k \in 1 .. Len(symbols_) : symbols_[k].scope_depth = 0
  BY <1>6, <1>7 DEF Sorted
<1> QED BY <1>1, <1>2, <1>3, <1>4, <1>7, <1>8

(* A program of known types that the checker accepts is closed: every use  *)
(* of a variable follows a declaration of it in an enclosing scope, and    *)
(* every call names a function and has as many arguments as that takes,    *)
(* for every table of nodes and every program.  The checker alone, which   *)
(* gives up at the first operand without a type, answers for all the       *)
(* operands it never looked at (type_check.cpp:36-99, 101-161, 201-436).   *)
THEOREM CheckerAcceptsClosed == Spec => []AcceptedIsClosed
<1>1. Spec => []XInv
  BY InitXInv, StepXInv, PTL DEF Spec
<1> QED BY <1>1, XInvAccepts, PTL
============================================================================
