-------------------------- MODULE Pipeline_proofs --------------------------
(***************************************************************************)
(* Theorems about the stages after parsing, for every program and node     *)
(* table.  The checker and the interpreter share a sink and nothing else,  *)
(* so what holds of the interpreter alone holds of it in the pipeline; and *)
(* it starts with an empty sink, to which only a step out of ordinary      *)
(* execution adds.  What the checker accepted is closed (Vetted), and from *)
(* that follows which names a run finds: VInv says of every frame of the   *)
(* stack that what is left to do of it (Rest) uses variables that it sees, *)
(* globals, and what the frame above it will declare (Promised).  The      *)
(* tables of both are lists of what the program's statements declare       *)
(* (Lists), the interpreter's as far as interpret() has come (Nests).      *)
(* PInv joins the stages: the checker's invariant while it checks, VInv    *)
(* once it runs.                                                           *)
(***************************************************************************)
EXTENDS Pipeline, Interpreter_proofs

(* What the stages before and after the interpreter leave alone.           *)
Idle == UNCHANGED <<machine, scopes, heap, recursion_depth_>>

LEMMA PipelineSteps ==
  ASSUME [PipelineNext]_pipeline
  PROVE  \/ stage = "running" /\ stage' = "running" /\ Next
         \/ Idle /\ sink' = sink /\ stage' = stage
         \/ Idle /\ stage' # "running"
         \/ Idle /\ stage' = "running" /\ sink' = <<>>
<1>1. CASE BuildRegistry
  BY <1>1 DEF BuildRegistry, Idle
<1>2. CASE CheckStep
  BY <1>2 DEF CheckStep, Idle
<1>3. CASE StartRunning
  BY <1>3 DEF StartRunning, Idle, vars
<1>4. CASE RunStep
  BY <1>4 DEF RunStep
<1>5. CASE Exit
  <2>1. stage' # "running"
    BY <1>5 DEF Exit
  <2> QED BY <1>5, <2>1 DEF Exit, Idle, vars
<1>6. CASE UNCHANGED pipeline
  BY <1>6 DEF pipeline, vars, Idle
<1> QED BY <1>1, <1>2, <1>3, <1>4, <1>5, <1>6 DEF PipelineNext

---------------------------------------------------------------------------
(* The interpreter's invariants.                                           *)

LEMMA IdleKeeps == ASSUME IInv, TInv, Idle PROVE IInv' /\ TInv'
BY DEF Idle, machine, scopes, IInv, TInv, DepthsBalanced, Count, IsTable, Sorted

LEMMA PipelineStepInv == IInv /\ TInv /\ [PipelineNext]_pipeline => IInv' /\ TInv'
<1> SUFFICES ASSUME IInv, TInv, [PipelineNext]_pipeline PROVE IInv' /\ TInv'
  OBVIOUS
<1>1. CASE Next
  BY <1>1, StepIInv, StepTInv
<1>2. CASE Idle
  BY <1>2, IdleKeeps
<1> QED BY <1>1, <1>2, PipelineSteps

(* Of every program that is run, checked and accepted or not, the scopes,  *)
(* the depths and the table of variables are right at every step           *)
(* (interpreter.cpp:111-147, 319-346).                                     *)
THEOREM PipelineBalanced == PipelineSpec => [](DepthsBalanced /\ TableSorted)
<1>1. PipelineInit => IInv /\ TInv
  BY StartedIInv, StartedTInv DEF PipelineInit
<1>2. IInv /\ TInv => DepthsBalanced /\ TableSorted
  BY DEF IInv, TInv, Sorted, TableSorted
<1> QED BY <1>1, <1>2, PipelineStepInv, PTL DEF PipelineSpec

LEMMA PipelineStepOInv == IInv /\ TInv /\ OInv /\ [PipelineNext]_pipeline => OInv'
<1> SUFFICES ASSUME IInv, TInv, OInv, [PipelineNext]_pipeline PROVE OInv'
  OBVIOUS
<1>1. CASE Next
  BY <1>1, StepOInv
<1>2. CASE Idle
  <2>1. /\ kont' = kont /\ mode' = mode /\ temps' = temps /\ entries_' = entries_
        /\ current_depth_' = current_depth_ /\ capacity_' = capacity_
    BY <1>2 DEF Idle, machine, scopes
  <2> QED BY <2>1, Zenon DEF OInv
<1> QED BY <1>1, <1>2, PipelineSteps

(* The references that a run uses are good in every program that is run,   *)
(* whatever the checker made of it (interpreter.cpp:185-206, 258-302).     *)
THEOREM PipelineReferences == PipelineSpec => []ReferencesFresh
<1>1. PipelineInit => IInv /\ TInv /\ OInv
  BY StartedIInv, StartedTInv, StartedOInv DEF PipelineInit
<1>2. IInv /\ TInv /\ OInv /\ [PipelineNext]_pipeline => IInv' /\ TInv' /\ OInv'
  BY PipelineStepInv, PipelineStepOInv
<1> QED BY <1>1, <1>2, OInvFresh, PTL DEF PipelineSpec

---------------------------------------------------------------------------
(* Who reports.                                                            *)

LEMMA OrdinaryMode ==
  ASSUME Next, mode # "run", mode # "return" PROVE Unwind \/ Escape
<1>1. ~ Statement
  BY DEF Statement, Interpret, ExecuteExpression, ExecuteDeclaration, ExecuteVar,
         ExecuteBlock, ExecuteLoop, LoopDecide, LoopNext, ExecuteIf,
         ExecuteReturn, Exec, At
<1>2. ~ Expression
  BY DEF Expression, EvaluateLiteral, EvaluateByReference, EvaluateBinary,
         EvaluateAssignment, EvaluateUnary, EvaluatePostfix, Bump, EvaluateList,
         LvalueVariable, LvalueIndex, LvalueMember, LvalueOther, Eval, Lval, At
<1>3. ~ CallStep
  BY DEF CallStep, EvaluateCall, Overflow, CallBuiltin, CallUser, Invoke, Eval, At
<1> QED BY <1>1, <1>2, <1>3 DEF Next, Returning, DropsResult

(* A step reports nothing, or one error and starts unwinding.              *)
Reports ==
  \/ sink' = sink
  \/ mode' = "runtime_error" /\ \E c : sink' = Append(sink, c)

LEMMA WholeStepsReport ==
  /\ \A how, k, p : Then(how, k, p) => Reports
  /\ \A how, nodes : ThenNext(how, nodes) => Reports
  /\ \A k, f : Resume(k, f) => Reports
  /\ \A k : Done(k) => Reports
  /\ \A m : Raise(m) => Reports
  /\ \A c : RaiseError(c) => Reports
  /\ \A v : Throw(v) => Reports
  /\ \A k, x : Result(k, x) => Reports
  /\ \A k, v : Yield(k, v) => Reports
  /\ \A k, v : YieldCopy(k, v) => Reports
  /\ \A k, v : Define(k, v) => Reports
  /\ Stay => Reports
<1>1. \A m : Raise(m) => Reports
  BY DEF Raise, Stay, Reports
<1>2. \A v : Throw(v) => Reports
  BY <1>1 DEF Throw
<1>3. \A k, x : Result(k, x) => Reports
  BY DEF Result, Stay, Reports
<1>4. \A k, v : Yield(k, v) => Reports
  BY <1>2, <1>3 DEF Yield
<1>5. \A c : RaiseError(c) => Reports
  BY DEF RaiseError, Reports
<1>6. /\ \A k, v : YieldCopy(k, v) => Reports
      /\ \A k, v : Define(k, v) => Reports
  BY DEF YieldCopy, Define, Reports
<1> QED BY <1>1, <1>2, <1>3, <1>4, <1>5, <1>6
        DEF Then, ThenNext, Resume, Done, Stay, Reports

LEMMA StoreYieldReports ==
  ASSUME NEW k, NEW new, NEW result, StoreYield(k, new, result) PROVE Reports
<1>1. CASE Stale(Temp(0))
  BY <1>1, WholeStepsReport DEF StoreYield
<1>2. CASE ~ Stale(Temp(0)) /\ Thrown(new)
  BY <1>2, WholeStepsReport DEF StoreYield
<1>3. CASE ~ Stale(Temp(0)) /\ ~ Thrown(new)
  BY <1>3 DEF StoreYield, Reports
<1> QED BY <1>1, <1>2, <1>3

LEMMA StatementReports == ASSUME Statement PROVE Reports
<1>1. CASE Interpret \/ ExecuteExpression \/ ExecuteDeclaration
  BY <1>1, WholeStepsReport DEF Interpret, ExecuteExpression, ExecuteDeclaration
<1>2. CASE ExecuteVar
  BY <1>2, WholeStepsReport DEF ExecuteVar
<1>3. CASE ExecuteBlock \/ ExecuteLoop
  BY <1>3, WholeStepsReport DEF ExecuteBlock, ExecuteLoop, Reports
<1>4. CASE LoopDecide
  BY <1>4, WholeStepsReport DEF LoopDecide, Reports
<1>5. CASE LoopNext
  BY <1>5, WholeStepsReport DEF LoopNext
<1>6. CASE ExecuteIf \/ ExecuteReturn
  BY <1>6, WholeStepsReport DEF ExecuteIf, ExecuteReturn
<1> QED BY <1>1, <1>2, <1>3, <1>4, <1>5, <1>6 DEF Statement

LEMMA ExpressionReports == ASSUME Expression PROVE Reports
<1>1. CASE EvaluateLiteral \/ EvaluateByReference
  BY <1>1, WholeStepsReport DEF EvaluateLiteral, EvaluateByReference
<1>2. CASE EvaluateBinary
  BY <1>2, WholeStepsReport DEF EvaluateBinary
<1>3. CASE EvaluateAssignment \/ Bump
  BY <1>3, WholeStepsReport, StoreYieldReports DEF EvaluateAssignment, Bump
<1>4. CASE EvaluateUnary \/ EvaluatePostfix
  BY <1>4, WholeStepsReport DEF EvaluateUnary, EvaluatePostfix
<1>5. CASE EvaluateList
  BY <1>5, WholeStepsReport DEF EvaluateList, Reports
<1>6. CASE LvalueVariable \/ LvalueMember \/ LvalueOther
  BY <1>6, WholeStepsReport DEF LvalueVariable, LvalueMember, LvalueOther
<1>7. CASE LvalueIndex
  BY <1>7, WholeStepsReport DEF LvalueIndex
<1> QED BY <1>1, <1>2, <1>3, <1>4, <1>5, <1>6, <1>7 DEF Expression

LEMMA NextReports == ASSUME Next PROVE Reports
<1>1. ASSUME CallStep PROVE Reports
  BY <1>1, WholeStepsReport DEF CallStep, EvaluateCall, Overflow, CallBuiltin, CallUser, Reports
<1>2. ASSUME Returning \/ Unwind \/ Escape PROVE Reports
  BY <1>2, WholeStepsReport DEF Returning, DropsResult, Unwind, Escape, Reports
<1> QED BY <1>1, <1>2, StatementReports, ExpressionReports DEF Next

(* The first error reported by a run is its last, and after it nothing of  *)
(* the program runs (interpreter.cpp:29-33, 333; application.cpp:76-86).   *)
THEOREM FirstErrorIsLast == PipelineSpec => []OneErrorEndsTheRun
<1>1. PipelineInit => OneErrorEndsTheRun
  BY DEF PipelineInit, OneErrorEndsTheRun
<1>2. OneErrorEndsTheRun /\ [PipelineNext]_pipeline => OneErrorEndsTheRun'
  <2> SUFFICES ASSUME OneErrorEndsTheRun, [PipelineNext]_pipeline
               PROVE  OneErrorEndsTheRun'
    OBVIOUS
  <2>1. CASE stage = "running" /\ Next /\ sink = <<>>
    <3>1. CASE sink' = sink
      BY <2>1, <3>1 DEF OneErrorEndsTheRun
    <3>2. ASSUME NEW c, mode' = "runtime_error", sink' = Append(sink, c)
          PROVE  OneErrorEndsTheRun'
      <4>1. Len(Append(<<>>, c)) = 1
        OBVIOUS
      <4> QED BY <2>1, <3>2, <4>1 DEF OneErrorEndsTheRun
    <3> QED BY <2>1, <3>1, <3>2, NextReports DEF Reports
  <2>2. CASE stage = "running" /\ Next /\ sink # <<>>
    <3>1. Len(sink) = 1 /\ mode \in {"runtime_error", "stopped"}
      BY <2>2 DEF OneErrorEndsTheRun
    <3>2. Unwind \/ Escape
      BY <2>2, <3>1, OrdinaryMode
    <3>3. sink' = sink /\ mode' \in {"runtime_error", "stopped"}
      BY <3>1, <3>2 DEF Unwind, Escape, InFlight, ReportsError, Stay, ValueError
    <3> QED BY <3>1, <3>3 DEF OneErrorEndsTheRun
  <2>3. CASE Idle /\ sink' = sink /\ stage' = stage
    BY <2>3 DEF Idle, machine, OneErrorEndsTheRun
  <2>4. CASE stage' # "running" \/ sink' = <<>>
    BY <2>4 DEF OneErrorEndsTheRun
  <2> QED BY <2>1, <2>2, <2>3, <2>4, PipelineSteps
<1> QED BY <1>1, <1>2, PTL DEF PipelineSpec

---------------------------------------------------------------------------
(* Who finishes: interpret(), after the last statement.                    *)
Unfinished == mode' # "finished"

LEMMA ThrownModes == \A v : Thrown(v) /\ Throw(v) => Unfinished
BY DEF Thrown, Throw, Raise, Failed, ValueError, Unfinished

LEMMA WholeStepsGoOn ==
  ASSUME mode # "finished"
  PROVE  /\ \A how, k, p : Then(how, k, p) => Unfinished
         /\ \A how, nodes : ThenNext(how, nodes) => Unfinished
         /\ \A k, f : Resume(k, f) => Unfinished
         /\ \A k : Done(k) => Unfinished
         /\ \A k, x : Result(k, x) => Unfinished
         /\ \A k, v : Yield(k, v) => Unfinished
         /\ \A k, v : YieldCopy(k, v) => Unfinished
         /\ \A k, v : Define(k, v) => Unfinished
         /\ \A c : RaiseError(c) => Unfinished
         /\ \A m : Raise(m) /\ m # "finished" => Unfinished
         /\ UNCHANGED mode => Unfinished
<1>1. \A k, x : Result(k, x) => Unfinished
  BY DEF Result, Unfinished
<1>2. \A k, v : Yield(k, v) => Unfinished
  BY <1>1, ThrownModes DEF Yield
<1>3. /\ \A k, v : YieldCopy(k, v) => Unfinished
      /\ \A k, v : Define(k, v) => Unfinished
      /\ \A c : RaiseError(c) => Unfinished
  BY DEF YieldCopy, Define, RaiseError, Unfinished
<1>4. \A m : Raise(m) /\ m # "finished" => Unfinished
  BY DEF Raise, Unfinished
<1> QED BY <1>1, <1>2, <1>3, <1>4 DEF Then, ThenNext, Resume, Done, Unfinished

LEMMA StoreYieldGoesOn ==
  ASSUME mode # "finished", NEW k, NEW new, NEW result, StoreYield(k, new, result)
  PROVE  Unfinished
<1>1. CASE Stale(Temp(0))
  BY <1>1, WholeStepsGoOn DEF StoreYield
<1>2. CASE ~ Stale(Temp(0)) /\ Thrown(new)
  BY <1>2, ThrownModes DEF StoreYield
<1>3. CASE ~ Stale(Temp(0)) /\ ~ Thrown(new)
  BY <1>3 DEF StoreYield, Unfinished
<1> QED BY <1>1, <1>2, <1>3

LEMMA StatementGoesOn ==
  ASSUME mode # "finished", Statement, ~ Interpret PROVE Unfinished
<1>1. CASE ExecuteExpression \/ ExecuteDeclaration
  BY <1>1, WholeStepsGoOn DEF ExecuteExpression, ExecuteDeclaration
<1>2. CASE ExecuteVar
  BY <1>2, WholeStepsGoOn DEF ExecuteVar
<1>3. CASE ExecuteBlock \/ ExecuteLoop
  BY <1>3, WholeStepsGoOn DEF ExecuteBlock, ExecuteLoop
<1>4. CASE LoopDecide
  BY <1>4, WholeStepsGoOn, ThrownModes DEF LoopDecide, Thrown
<1>5. CASE LoopNext
  BY <1>5, WholeStepsGoOn DEF LoopNext
<1>6. CASE ExecuteIf
  BY <1>6, WholeStepsGoOn, ThrownModes DEF ExecuteIf, Thrown
<1>7. CASE ExecuteReturn
  BY <1>7, WholeStepsGoOn DEF ExecuteReturn, Unfinished
<1> QED BY <1>1, <1>2, <1>3, <1>4, <1>5, <1>6, <1>7 DEF Statement

LEMMA ExpressionGoesOn == ASSUME mode # "finished", Expression PROVE Unfinished
<1>1. CASE EvaluateLiteral \/ EvaluateByReference
  BY <1>1, WholeStepsGoOn DEF EvaluateLiteral, EvaluateByReference
<1>2. CASE EvaluateBinary
  BY <1>2, WholeStepsGoOn, ThrownModes DEF EvaluateBinary, Thrown
<1>3. CASE EvaluateAssignment \/ Bump
  BY <1>3, WholeStepsGoOn, StoreYieldGoesOn DEF EvaluateAssignment, Bump
<1>4. CASE EvaluateUnary \/ EvaluatePostfix
  BY <1>4, WholeStepsGoOn DEF EvaluateUnary, EvaluatePostfix
<1>5. CASE EvaluateList
  BY <1>5, WholeStepsGoOn DEF EvaluateList
<1>6. CASE LvalueVariable \/ LvalueMember \/ LvalueOther
  BY <1>6, WholeStepsGoOn DEF LvalueVariable, LvalueMember, LvalueOther
<1>7. CASE LvalueIndex
  BY <1>7, WholeStepsGoOn, ThrownModes DEF LvalueIndex, Thrown
<1> QED BY <1>1, <1>2, <1>3, <1>4, <1>5, <1>6, <1>7 DEF Expression

LEMMA Finishing ==
  ASSUME mode # "finished", Next, mode' = "finished"
  PROVE  At("interpret") /\ Top.i = Len(program) /\ Finish /\ Stay
<1>1. ~ Unfinished
  BY DEF Unfinished
<1>2. ASSUME CallStep PROVE FALSE
  BY <1>1, <1>2, WholeStepsGoOn DEF CallStep, EvaluateCall, Overflow, CallBuiltin, CallUser
<1>3. ASSUME Returning \/ Unwind \/ Escape PROVE FALSE
  BY <1>3 DEF Returning, DropsResult, ReturnIgnored, Unwind, Escape
<1>4. Interpret
  BY <1>1, <1>2, <1>3, StatementGoesOn, ExpressionGoesOn DEF Next
<1> QED BY <1>1, <1>4, WholeStepsGoOn DEF Interpret

---------------------------------------------------------------------------
(* Names.  What each frame has still to read, and where it finds it.       *)

(* The names that are declared at the top level, and those of a table down *)
(* to a depth.                                                             *)
Globals == UNION {Checker!Declared(program[i]) : i \in DOMAIN program}
Visible(es, d) == {es[i].name : i \in {j \in DOMAIN es : es[j].scope_depth <= d}}

(* What a frame still reads, of what it finds declared when it goes on,    *)
(* and what it has declared when it is left.                               *)
RestOf(nodes, i) ==
  UNION {Checker!FreeOf(Checker!Free, nodes[k])
           \ UNION {Checker!Declared(nodes[j]) : j \in i + 1 .. k - 1} :
         k \in i + 1 .. Len(nodes)}
CalleeOf(f) == registry_[Ast[f.node].name]
BodyOf(f) == Ast[Ast[CalleeOf(f)].kids[1]].kids

Rest(f) ==
  CASE f.at = "interpret" -> {}
    [] f.at = "block" -> RestOf(Ast[f.node].kids, f.i)
    [] f.at = "body" -> RestOf(BodyOf(f), f.i)
    [] f.at \in LoopPoints -> Checker!HeadFree(f.node)
    [] OTHER -> Checker!Free[f.node]

Promised(f) ==
  IF f.at \in {"exec", "define", "fields"} THEN Checker!Declared(f.node) ELSE {}

(* The nodes that are at a point: their kinds, and for a call what it      *)
(* calls.                                                                  *)
KindsAt(p) ==
  CASE p \in {"define", "fields"} -> {"var"}
    [] p = "block" -> {"block"}
    [] p = "branch" -> {"if"}
    [] p = "right" -> {"binary"}
    [] p = "target" -> {"assignment"}
    [] p \in {"unary", "operand"} -> {"unary"}
    [] p = "bump" -> {"unary", "postfix"}
    [] p = "elements" -> {"list"}
    [] p = "index" -> {"index"}
    [] p \in CallPoints -> {"call"}
    [] p \in LoopPoints -> {"while", "for"}
    [] OTHER -> {Ast[n].kind : n \in DOMAIN Ast}

InProgram(n) == n \in DOMAIN Ast /\ Checker!Within[n] \subseteq Checker!Text(program)

Belongs(f) ==
  f.at # "interpret" =>
    /\ InProgram(f.node)
    /\ Ast[f.node].kind \in KindsAt(f.at)
    /\ f.at = "fields" =>
         Ast[f.node].kids[1] # None /\ Ast[Ast[f.node].kids[1]].kind = "list"
    /\ f.at = "body" => \E i \in DOMAIN program :
         CalleeOf(f) = program[i] /\ Ast[program[i]].kind = "func"

(* The statements of the program that the stack s is done with: those that *)
(* interpret() has come to, but not a declaration that is under way.       *)
UnderWay(s, p) == IF Len(s) = 1 THEN p # {} ELSE Promised(s[2]) # {}
Executed(s, p) == s[1].i - (IF UnderWay(s, p) THEN 1 ELSE 0)

(* A declaration is a statement of the program or has a scope around it,   *)
(* and the global variables are those of the statements done.              *)
Awaits(f, p) ==
  p # {} =>
    \/ HoldsScope(f)
    \/ f.at = "interpret" /\ f.i \in 1 .. Len(program) /\ p = Checker!Declared(program[f.i])
Nests(s, es, p) ==
  /\ \A j \in 1 .. Len(s) :
       /\ s[j].at = "interpret" => j = 1
       /\ Awaits(s[j], IF j < Len(s) THEN Promised(s[j + 1]) ELSE p)
  /\ s # <<>> => Checker!Lists(es, Executed(s, p))

(* Every frame finds declared what it reads, in a scope that is open up to *)
(* it, at the top level, or by what it waits for; the top frame by p.      *)
Serves(s, c, es, p) ==
  /\ Nests(s, es, p)
  /\ c \in [Nat -> Int]
  /\ \A j \in 1 .. Len(s) - 1 : c[j + 1] = c[j] + ScopeOf(s[j + 1])
  /\ \A j, k \in 1 .. Len(s) : j < k => c[j] <= c[k]
  /\ \A j \in 1 .. Len(s) :
       /\ Belongs(s[j])
       /\ Rest(s[j]) \subseteq Visible(es, c[j]) \cup Globals
                               \cup (IF j < Len(s) THEN Promised(s[j + 1]) ELSE p)
Serving ==
  kont # <<>> => \E c : c[Len(kont)] = current_depth_ /\ Serves(kont, c, entries_, {})
VInv ==
  /\ mode \in {"run", "return"} => Serving
  /\ mode = "finished" =>
       current_depth_ = 0 /\ Checker!Lists(entries_, Len(program))

---------------------------------------------------------------------------
(* The stack of frames: without its top, with one more, and over another   *)
(* table.                                                                  *)

LEMMA FrontNests ==
  ASSUME NEW S, NEW s \in Seq(S), s # <<>>, NEW es, NEW p, Nests(s, es, p)
  PROVE  Nests(Front(s), es, Promised(Last(s)))
<1> DEFINE t == Front(s)
           n == Len(s)
           q == Promised(Last(s))
<1>1. /\ t \in Seq(S) /\ Len(t) = n - 1 /\ \A i \in 1 .. n - 1 : t[i] = s[i]
      /\ n \in Nat \ {0} /\ Last(s) = s[n]
  BY FrontLast, EmptySeq
<1> HIDE DEF t
<1>2. /\ \A j \in 1 .. n - 1 : j \in 1 .. n /\ j < n
      /\ \A j \in 1 .. n - 1 : ~ j < n - 1 => j + 1 = n
      /\ \A j \in 1 .. n - 1 : j < n - 1 => j + 1 \in 1 .. n - 1
      /\ t # <<>> => n # 1 /\ 1 \in 1 .. n - 1 /\ (n - 1 = 1 => n = 2)
      /\ t # <<>> /\ n - 1 # 1 => 2 \in 1 .. n - 1
  BY <1>1, EmptySeq
<1> HIDE DEF n
<1>3. /\ \A j \in 1 .. n :
           /\ s[j].at = "interpret" => j = 1
           /\ Awaits(s[j], IF j < n THEN Promised(s[j + 1]) ELSE p)
      /\ Checker!Lists(es, Executed(s, p))
  BY DEF Nests, n
<1>4. ASSUME NEW j \in 1 .. n - 1
      PROVE  /\ t[j].at = "interpret" => j = 1
             /\ Awaits(t[j], IF j < n - 1 THEN Promised(t[j + 1]) ELSE q)
  <2>1. /\ s[j].at = "interpret" => j = 1
        /\ Awaits(s[j], Promised(s[j + 1])) /\ t[j] = s[j]
    BY <1>1, <1>2, <1>3
  <2>2. CASE j < n - 1
    <3>1. t[j + 1] = s[j + 1]
      BY <1>1, <1>2, <2>2
    <3> QED BY <2>1, <2>2, <3>1
  <2>3. CASE ~ j < n - 1
    <3>1. s[j + 1] = Last(s)
      BY <1>1, <1>2, <2>3
    <3> QED BY <2>1, <2>3, <3>1
  <2> QED BY <2>2, <2>3
<1>5. ASSUME t # <<>> PROVE Executed(t, q) = Executed(s, p)
  <2>1. t[1] = s[1] /\ Len(t) = n - 1 /\ n # 1
    BY <1>1, <1>2, <1>5
  <2>2. UnderWay(t, q) <=> UnderWay(s, p)
    <3>1. CASE n - 1 = 1
      BY <1>1, <1>2, <1>5, <3>1 DEF UnderWay, n
    <3>2. CASE n - 1 # 1
      BY <1>1, <1>2, <1>5, <3>2 DEF UnderWay, n
    <3> QED BY <3>1, <3>2
  <2> QED BY <2>1, <2>2 DEF Executed
<1>6. Nests(t, es, q)
  BY <1>1, <1>3, <1>4, <1>5 DEF Nests
<1> QED BY <1>6 DEF t

LEMMA AppendNests ==
  ASSUME NEW S, NEW s \in Seq(S), NEW f \in S, NEW es, NEW p, NEW q, Nests(s, es, p),
         s # <<>> => p = Promised(f) /\ f.at # "interpret",
         s = <<>> => Checker!Lists(es, Executed(<<f>>, q)),
         Awaits(f, q)
  PROVE  Nests(Append(s, f), es, q)
<1> DEFINE t == Append(s, f)
           n == Len(s)
<1>1. /\ Len(t) = n + 1 /\ n \in Nat /\ \A i \in 1 .. n : t[i] = s[i]
      /\ t[n + 1] = f /\ t # <<>>
  BY AppendProperties
<1>2. CASE s = <<>>
  <2>1. t = <<f>> /\ Len(t) = 1 /\ t[1] = f /\ 1 .. Len(t) = {1} /\ ~ 1 < Len(t)
    BY <1>2
  <2> HIDE DEF t
  <2>2. Nests(t, es, q)
    BY <1>2, <2>1 DEF Nests
  <2> QED BY <2>2 DEF t
<1>3. CASE s # <<>>
  <2>1. n # 0 /\ p = Promised(f) /\ f.at # "interpret"
    BY <1>3, EmptySeq
  <2>2. /\ \A j \in 1 .. n :
             /\ s[j].at = "interpret" => j = 1
             /\ Awaits(s[j], IF j < n THEN Promised(s[j + 1]) ELSE p)
        /\ Checker!Lists(es, Executed(s, p))
    BY <1>3 DEF Nests
  <2> HIDE DEF t
  <2>3. /\ \A j \in 1 .. n : j < n + 1 /\ (~ j < n => j = n)
        /\ \A j \in 1 .. n : j < n => j + 1 \in 1 .. n
        /\ \A j \in 1 .. n + 1 : j = n + 1 \/ j \in 1 .. n
        /\ 1 \in 1 .. n /\ n + 1 # 1 /\ ~ n + 1 < n + 1
        /\ n # 1 => 2 \in 1 .. n
    BY <1>1, <2>1
  <2> HIDE DEF n
  <2>4. ASSUME NEW j \in 1 .. n + 1
        PROVE  /\ t[j].at = "interpret" => j = 1
               /\ Awaits(t[j], IF j < n + 1 THEN Promised(t[j + 1]) ELSE q)
    <3>1. CASE j = n + 1
      BY <1>1, <2>1, <2>3, <3>1
    <3>2. CASE j \in 1 .. n
      <4>1. /\ t[j] = s[j] /\ j < n + 1 /\ (s[j].at = "interpret" => j = 1)
            /\ Awaits(s[j], IF j < n THEN Promised(s[j + 1]) ELSE p)
        BY <1>1, <2>2, <2>3, <3>2
      <4>2. Promised(t[j + 1]) = IF j < n THEN Promised(s[j + 1]) ELSE p
        BY <1>1, <2>1, <2>3, <3>2
      <4> QED BY <4>1, <4>2
    <3> QED BY <2>3, <3>1, <3>2
  <2>5. Executed(t, q) = Executed(s, p)
    <3>1. UnderWay(t, q) <=> UnderWay(s, p)
      <4>1. CASE n = 1
        BY <1>1, <2>1, <2>3, <4>1 DEF UnderWay, n
      <4>2. CASE n # 1
        BY <1>1, <2>3, <4>2 DEF UnderWay, n
      <4> QED BY <4>1, <4>2
    <3> QED BY <1>1, <2>3, <3>1 DEF Executed
  <2>6. Nests(t, es, q)
    BY <1>1, <2>2, <2>4, <2>5 DEF Nests
  <2> QED BY <2>6 DEF t
<1> QED BY <1>2, <1>3

LEMMA TableNests ==
  ASSUME NEW S, NEW s \in Seq(S), NEW es, NEW fs, NEW p, NEW q, Nests(s, es, p),
         q = p \/ q = {}, s # <<>> => Checker!Lists(fs, Executed(s, q))
  PROVE  Nests(s, fs, q)
BY DEF Nests, Awaits

LEMMA FrontServes ==
  ASSUME NEW S, NEW s \in Seq(S), s # <<>>, NEW c, NEW es, NEW p, Serves(s, c, es, p)
  PROVE  Serves(Front(s), c, es, Promised(Last(s)))
<1> DEFINE t == Front(s)
           n == Len(s)
<1>1. /\ t \in Seq(S) /\ Len(t) = n - 1 /\ \A i \in 1 .. n - 1 : t[i] = s[i]
      /\ n \in Nat \ {0} /\ Last(s) = s[n]
  BY FrontLast, EmptySeq
<1> HIDE DEF t
<1>2. /\ \A j \in 1 .. n - 2 : j \in 1 .. n - 1 /\ j + 1 \in 1 .. n - 1
      /\ \A j \in 1 .. n - 1 : j \in 1 .. n /\ j < n
      /\ \A j \in 1 .. n - 1 : ~ j < n - 1 => j + 1 = n
      /\ \A j \in 1 .. n - 1 : j < n - 1 => j + 1 \in 1 .. n - 1
      /\ (n - 1) - 1 = n - 2
  BY <1>1
<1> HIDE DEF n
<1>3. /\ c \in [Nat -> Int]
      /\ \A j \in 1 .. n - 1 : c[j + 1] = c[j] + ScopeOf(s[j + 1])
      /\ \A j, k \in 1 .. n : j < k => c[j] <= c[k]
      /\ \A j \in 1 .. n :
           /\ Belongs(s[j])
           /\ Rest(s[j]) \subseteq Visible(es, c[j]) \cup Globals
                               \cup (IF j < n THEN Promised(s[j + 1]) ELSE p)
  BY DEF Serves, n
<1>4. \A j \in 1 .. n - 2 : c[j + 1] = c[j] + ScopeOf(t[j + 1])
  BY <1>1, <1>2, <1>3
<1>5. \A j, k \in 1 .. n - 1 : j < k => c[j] <= c[k]
  BY <1>2, <1>3
<1>6. ASSUME NEW j \in 1 .. n - 1
      PROVE  /\ Belongs(t[j])
             /\ Rest(t[j]) \subseteq Visible(es, c[j]) \cup Globals
                    \cup (IF j < n - 1 THEN Promised(t[j + 1]) ELSE Promised(Last(s)))
  <2>1. /\ Belongs(s[j])
        /\ Rest(s[j]) \subseteq Visible(es, c[j]) \cup Globals \cup Promised(s[j + 1])
    BY <1>2, <1>3
  <2>2. t[j] = s[j]
    BY <1>1
  <2>3. CASE j < n - 1
    <3>1. t[j + 1] = s[j + 1]
      BY <1>1, <1>2, <2>3
    <3> QED BY <2>1, <2>2, <2>3, <3>1
  <2>4. CASE ~ j < n - 1
    <3>1. s[j + 1] = Last(s)
      BY <1>1, <1>2, <2>4
    <3> QED BY <2>1, <2>2, <2>4, <3>1
  <2> QED BY <2>3, <2>4
<1>7. Serves(t, c, es, Promised(Last(s)))
  <2>1. Nests(t, es, Promised(Last(s)))
    BY FrontNests DEF Serves, t
  <2> QED BY <1>1, <1>2, <1>3, <1>4, <1>5, <1>6, <2>1 DEF Serves
<1> QED BY <1>7 DEF t

LEMMA AppendServes ==
  ASSUME NEW S, NEW s \in Seq(S), NEW f \in S, NEW c, NEW es, NEW p, NEW q,
         Serves(s, c, es, p), NEW n, n = Len(s), NEW d \in Int,
         n # 0 => d = c[n] + ScopeOf(f) /\ p = Promised(f) /\ f.at # "interpret",
         n = 0 => Checker!Lists(es, Executed(<<f>>, q)), Awaits(f, q),
         Belongs(f), Rest(f) \subseteq Visible(es, d) \cup Globals \cup q
  PROVE  Serves(Append(s, f), [c EXCEPT ![n + 1] = d], es, q)
<1> DEFINE t == Append(s, f)
           e == [c EXCEPT ![n + 1] = d]
<1>1. /\ Len(t) = n + 1 /\ n \in Nat /\ \A i \in 1 .. n : t[i] = s[i]
      /\ t[n + 1] = f
  BY AppendProperties
<1>2. /\ c \in [Nat -> Int]
      /\ \A j \in 1 .. n - 1 : c[j + 1] = c[j] + ScopeOf(s[j + 1])
      /\ \A j, k \in 1 .. n : j < k => c[j] <= c[k]
      /\ \A j \in 1 .. n :
           /\ Belongs(s[j])
           /\ Rest(s[j]) \subseteq Visible(es, c[j]) \cup Globals
                               \cup (IF j < n THEN Promised(s[j + 1]) ELSE p)
  BY DEF Serves
<1>3. /\ e \in [Nat -> Int] /\ e[n + 1] = d
      /\ \A i \in 1 .. n : e[i] = c[i] /\ c[i] \in Int
  <2>1. n + 1 \in Nat /\ \A i \in 1 .. n : i \in Nat /\ i # n + 1
    BY <1>1
  <2> QED BY <1>2, <2>1
<1> HIDE DEF t, e
<1>4. /\ \A j \in 1 .. n : j = n \/ j \in 1 .. n - 1
      /\ \A j \in 1 .. n - 1 : j + 1 \in 1 .. n /\ j \in 1 .. n /\ j < n
      /\ \A j \in 1 .. n + 1 : j = n + 1 \/ j \in 1 .. n
      /\ ~ n + 1 < n + 1
      /\ n # 0 => n \in 1 .. n /\ ~ n < n
      /\ \A j \in 1 .. n : n # 0 /\ j < n + 1
      /\ \A j, k \in 1 .. n + 1 : j < k => j \in 1 .. n
      /\ (n + 1) - 1 = n
  BY <1>1
<1>5. ASSUME NEW j \in 1 .. n PROVE e[j + 1] = e[j] + ScopeOf(t[j + 1])
  <2>1. CASE j = n
    <3>1. d = c[n] + ScopeOf(f)
      BY <1>4, <2>1
    <3>2. e[n] = c[n]
      BY <1>3, <1>4
    <3> QED BY <1>1, <1>3, <2>1, <3>1, <3>2
  <2>2. CASE j \in 1 .. n - 1
    <3>1. t[j + 1] = s[j + 1] /\ e[j + 1] = c[j + 1] /\ e[j] = c[j]
      BY <1>1, <1>3, <1>4, <2>2
    <3> QED BY <1>2, <2>2, <3>1
  <2> QED BY <1>4, <2>1, <2>2
<1>6. ASSUME NEW j \in 1 .. n + 1, NEW k \in 1 .. n + 1, j < k PROVE e[j] <= e[k]
  <2>1. j \in 1 .. n /\ e[j] = c[j] /\ c[j] \in Int
    BY <1>3, <1>4, <1>6
  <2>2. CASE k \in 1 .. n
    BY <1>2, <1>3, <1>6, <2>1, <2>2
  <2>3. CASE k = n + 1
    <3>1. d = c[n] + ScopeOf(f) /\ c[n] \in Int /\ ScopeOf(f) \in {0, 1} /\ e[k] = d
      BY <1>3, <1>4, <2>1, <2>3, ScopeIs
    <3>2. c[j] <= c[n]
      <4>1. CASE j = n
        BY <3>1, <4>1
      <4>2. CASE j \in 1 .. n - 1
        BY <1>2, <1>4, <4>2
      <4> QED BY <1>4, <2>1, <4>1, <4>2
    <3>3. c[n] <= d
      BY <3>1
    <3> QED BY <2>1, <3>1, <3>2, <3>3, AtMostAtMost
  <2> QED BY <1>4, <2>2, <2>3
<1>7. ASSUME NEW j \in 1 .. n + 1
      PROVE  /\ Belongs(t[j])
             /\ Rest(t[j]) \subseteq Visible(es, e[j]) \cup Globals
                               \cup (IF j < n + 1 THEN Promised(t[j + 1]) ELSE q)
  <2>1. CASE j = n + 1
    BY <1>1, <1>3, <1>4, <2>1
  <2>2. CASE j \in 1 .. n
    <3>1. /\ Belongs(t[j]) /\ t[j] = s[j] /\ e[j] = c[j] /\ j < n + 1
          /\ Rest(s[j]) \subseteq Visible(es, c[j]) \cup Globals
                               \cup (IF j < n THEN Promised(s[j + 1]) ELSE p)
      BY <1>1, <1>2, <1>3, <1>4, <2>2
    <3>2. CASE j = n
      <4>1. p \subseteq Promised(t[j + 1]) /\ ~ j < n
        BY <1>1, <1>4, <3>2
      <4> QED BY <3>1, <4>1
    <3>3. CASE j \in 1 .. n - 1
      <4>1. t[j + 1] = s[j + 1] /\ j < n
        BY <1>1, <1>4, <3>3
      <4> QED BY <3>1, <4>1
    <3> QED BY <1>4, <2>2, <3>2, <3>3
  <2> QED BY <1>4, <2>1, <2>2
<1>8. Serves(t, e, es, q)
  <2>1. Nests(t, es, q)
    <3>1. (n = 0 <=> s = <<>>) /\ Nests(s, es, p)
      BY EmptySeq DEF Serves
    <3> QED BY <3>1, AppendNests DEF t
  <2> QED BY <1>1, <1>2, <1>3, <1>4, <1>5, <1>6, <1>7, <2>1 DEF Serves
<1> QED BY <1>8 DEF t, e

(* What a step leaves visible, and what it makes so.                       *)
LEMMA TableServes ==
  ASSUME NEW S, NEW s \in Seq(S), NEW c, NEW es, NEW fs, NEW p, NEW q, Serves(s, c, es, p),
         NEW d, s # <<>> => d = c[Len(s)],
         \A a \in Int : a <= d => Visible(es, a) \subseteq Visible(fs, a),
         p \subseteq Visible(fs, d) \cup q, q = p \/ q = {},
         s # <<>> => Checker!Lists(fs, Executed(s, q))
  PROVE  Serves(s, c, fs, q)
<1> DEFINE n == Len(s)
<1>1. n \in Nat /\ (n # 0 => s # <<>>)
  BY EmptySeq
<1> HIDE DEF n
<1>2. /\ c \in [Nat -> Int]
      /\ \A j \in 1 .. n - 1 : c[j + 1] = c[j] + ScopeOf(s[j + 1])
      /\ \A j, k \in 1 .. n : j < k => c[j] <= c[k]
      /\ \A j \in 1 .. n :
           /\ Belongs(s[j])
           /\ Rest(s[j]) \subseteq Visible(es, c[j]) \cup Globals
                               \cup (IF j < n THEN Promised(s[j + 1]) ELSE p)
  BY DEF Serves, n
<1>3. ASSUME NEW j \in 1 .. n
      PROVE  Rest(s[j]) \subseteq Visible(fs, c[j]) \cup Globals
                               \cup (IF j < n THEN Promised(s[j + 1]) ELSE q)
  <2>1. c[j] \in Int /\ c[n] \in Int /\ d = c[n] /\ n \in 1 .. n
    BY <1>1, <1>2 DEF n
  <2>2. c[j] <= d
    <3>1. CASE j = n
      BY <2>1, <3>1
    <3>2. CASE j < n
      BY <1>2, <2>1, <3>2
    <3> QED BY <1>1, <3>1, <3>2
  <2>3. Visible(es, c[j]) \subseteq Visible(fs, c[j])
    BY <2>1, <2>2
  <2>4. Rest(s[j]) \subseteq Visible(es, c[j]) \cup Globals
                               \cup (IF j < n THEN Promised(s[j + 1]) ELSE p)
    BY <1>2
  <2>5. CASE j < n
    BY <2>3, <2>4, <2>5
  <2>6. CASE ~ j < n
    <3>1. j = n
      BY <1>1, <2>6
    <3>2. p \subseteq Visible(fs, c[j]) \cup q
      BY <2>1, <3>1
    <3> QED BY <2>3, <2>4, <2>6, <3>2
  <2> QED BY <2>5, <2>6
<1>4. Nests(s, fs, q)
  BY TableNests DEF Serves
<1> QED BY <1>2, <1>3, <1>4 DEF Serves, n

---------------------------------------------------------------------------
(* A step, by what becomes of the top frame.                               *)

LEMMA DepthType == IInv => current_depth_ \in Nat
<1> SUFFICES ASSUME IInv PROVE current_depth_ \in Nat
  OBVIOUS
<1>1. PICK N : kont \in Seq(FramesOver(N))
  BY DEF IInv, IsStack
<1>2. IsFiniteSet(DOMAIN kont)
  <2>1. DOMAIN kont = 1 .. Len(kont) /\ Len(kont) \in Nat
    BY <1>1
  <2> QED BY <2>1, FS_Interval
<1>3. {i \in DOMAIN kont : HoldsScope(kont[i])} \subseteq DOMAIN kont
  OBVIOUS
<1>4. Cardinality({i \in DOMAIN kont : HoldsScope(kont[i])}) \in Nat
  BY <1>2, <1>3, FS_Subset, FS_CardinalityType
<1> QED BY <1>4 DEF IInv, DepthsBalanced, Count

(* Steps from a state in which every frame is served.                      *)
From ==
  Ready /\ current_depth_' \in Nat /\ Touch /\ Serving /\ UNCHANGED <<program, registry_>>

LEMMA VisibleStays ==
  ASSUME From
  PROVE  \A a \in Int : a <= current_depth_' => Visible(entries_, a) \subseteq Visible(entries_', a)
<1>1. \A i \in DOMAIN entries_ : entries_[i].scope_depth \in Nat
  BY ReadyFacts, TableFacts DEF From
<1>2. current_depth_' \in Int
  BY DEF From
<1> QED BY <1>1, <1>2 DEF From, Touch, Stays, SameSlots, Visible

(* The top frame, and those below it after the step.                       *)
LEMMA BelowServed ==
  ASSUME From
  PROVE  \E S, c : LET s == Front(kont) IN
           /\ kont \in Seq(S) /\ s \in Seq(S) /\ Top \in S
           /\ Serves(s, c, entries_, Promised(Top))
           /\ s # <<>> => c[Len(s)] = current_depth_ - ScopeOf(Top) /\ c[Len(s)] \in Int
           /\ Belongs(Top)
           /\ Rest(Top) \subseteq Visible(entries_, current_depth_) \cup Globals
<1>1. PICK N : kont \in Seq(FramesOver(N))
  BY DEF From, Ready, IInv, IsStack
<1>2. kont # <<>>
  BY DEF From, Ready
<1>3. PICK c : c[Len(kont)] = current_depth_ /\ Serves(kont, c, entries_, {})
  BY <1>2 DEF From, Serving
<1> DEFINE S == FramesOver(N)
           s == Front(kont)
           n == Len(kont)
<1>4. /\ s \in Seq(S) /\ Len(s) = n - 1 /\ Top = kont[n] /\ Top \in S
      /\ n \in Nat \ {0} /\ Last(kont) = Top
  BY <1>1, <1>2, FrontLast, EmptySeq DEF Top
<1>5. Serves(s, c, entries_, Promised(Top))
  BY <1>1, <1>2, <1>3, <1>4, FrontServes
<1> HIDE DEF s
<1>6. /\ Belongs(Top) /\ Rest(Top) \subseteq Visible(entries_, current_depth_) \cup Globals
      /\ c \in [Nat -> Int]
      /\ \A j \in 1 .. n - 1 : c[j + 1] = c[j] + ScopeOf(kont[j + 1])
  <2>1. n \in 1 .. n /\ ~ n < n
    BY <1>4
  <2> QED BY <1>3, <1>4, <2>1 DEF Serves
<1>7. ASSUME s # <<>> PROVE c[n - 1] = current_depth_ - ScopeOf(Top) /\ c[n - 1] \in Int
  <2>1. n - 1 \in 1 .. n - 1 /\ n - 1 \in Nat /\ (n - 1) + 1 = n
    BY <1>4, <1>7, EmptySeq
  <2>2. c[n] = c[n - 1] + ScopeOf(Top) /\ c[n - 1] \in Int /\ c[n] = current_depth_
    BY <1>3, <1>4, <1>6, <2>1
  <2>3. ScopeOf(Top) \in {0, 1}
    BY ScopeIs
  <2> QED BY <2>2, <2>3
<1> QED BY <1>1, <1>4, <1>5, <1>6, <1>7 DEF s

(* The first frame is interpret()'s, and no other is.                      *)
LEMMA TopNests ==
  ASSUME From
  PROVE  /\ Top.at = "interpret" <=> Front(kont) = <<>>
         /\ Top.at = "interpret" => Checker!Lists(entries_, Top.i)
         /\ Belongs(Top)
<1>1. PICK N : kont \in Seq(FramesOver(N))
  BY DEF From, Ready, IInv, IsStack
<1>2. kont # <<>> /\ kont[1].at = "interpret"
  BY DEF From, Ready, IInv
<1>3. PICK c : Serves(kont, c, entries_, {})
  BY <1>2 DEF From, Serving
<1>4. PICK n : n = Len(kont)
  OBVIOUS
<1>5. /\ n \in Nat \ {0} /\ Top = kont[n] /\ Len(Front(kont)) = n - 1
      /\ Front(kont) \in Seq(FramesOver(N))
  BY <1>1, <1>2, <1>4, FrontLast, EmptySeq DEF Top
<1>6. (Front(kont) = <<>> <=> n = 1) /\ n \in 1 .. n
  BY <1>5, EmptySeq
<1>7. /\ \A j \in 1 .. n : kont[j].at = "interpret" => j = 1
      /\ Checker!Lists(entries_, Executed(kont, {}))
  BY <1>2, <1>3, <1>4 DEF Serves, Nests
<1>8. Top.at = "interpret" <=> n = 1
  BY <1>2, <1>5, <1>6, <1>7
<1>9. ASSUME n = 1 PROVE Executed(kont, {}) = Top.i
  <2>1. ~ UnderWay(kont, {})
    BY <1>4, <1>9 DEF UnderWay
  <2>2. Top.i \in Nat /\ Top = kont[1]
    BY <1>5, <1>9, TopFacts DEF From, Ready, IsFrame, FramesOver
  <2> QED BY <2>1, <2>2 DEF Executed
<1>10. Belongs(Top)
  BY BelowServed
<1> QED BY <1>6, <1>7, <1>8, <1>9, <1>10

(* Only a declaration of the program that ends changes the global          *)
(* variables.                                                              *)
LEMMA GlobalsSame ==
  ASSUME From, Promised(Top) = {} \/ kont' # Front(kont)
  PROVE  Checker!SameGlobals(entries_, entries_')
<1>1. ~ Declaring
  <2> SUFFICES ASSUME Declaring PROVE FALSE
    OBVIOUS
  <2>1. kont' = Front(kont)
    BY DEF Declaring, Define, Finish
  <2>2. Top.at \in {"exec", "define", "fields"} /\ (Top.at = "exec" => Ast[Top.node].kind = "var")
    BY DEF Declaring, Exec, At, Node
  <2>3. InProgram(Top.node) /\ Ast[Top.node].kind = "var"
    <3>1. Top.at # "interpret" /\ Belongs(Top)
      BY <2>2, TopNests
    <3>2. InProgram(Top.node) /\ Ast[Top.node].kind \in KindsAt(Top.at)
      BY <3>1 DEF Belongs
    <3>3. KindsAt("define") = {"var"} /\ KindsAt("fields") = {"var"}
      BY DEF KindsAt, CallPoints, LoopPoints
    <3> QED BY <2>2, <3>2, <3>3
  <2>4. Promised(Top) = {Ast[Top.node].name}
    <3>1. Top.node # Checker!None
      BY <2>3, Checker!KindFacts, ProgramsAssumption DEF InProgram
    <3> QED BY <2>2, <2>3, <3>1 DEF Promised, Checker!Declared
  <2> QED BY <2>1, <2>4
<1>2. PICK es, fs : es = entries_ /\ fs = entries_'
  OBVIOUS
<1>3. /\ DOMAIN es = 1 .. Len(es) /\ Len(es) \in Nat
      /\ \A i \in DOMAIN es : es[i].scope_depth \in Nat
  BY <1>2, ReadyFacts, TableFacts DEF From
<1>4. DOMAIN fs = 1 .. Len(fs) /\ Len(fs) \in Nat
  <2>1. IsTable(fs)
    BY <1>2 DEF From, Touch, TInv, IsTable
  <2> QED BY <2>1, TableFacts
<1>5. PICK d : d = current_depth_' /\ d \in Nat
  BY DEF From
<1>6. /\ \A i \in DOMAIN es \cap DOMAIN fs :
           fs[i].name = es[i].name /\ fs[i].scope_depth = es[i].scope_depth
      /\ \A i \in DOMAIN es : es[i].scope_depth <= d => i \in DOMAIN fs
      /\ \A i \in DOMAIN fs : i \in DOMAIN es \/ fs[i].scope_depth # 0
  BY <1>1, <1>2, <1>5 DEF From, Touch, SameSlots, Stays, Arrives
<1>7. Checker!SameGlobals(es, fs)
  BY <1>3, <1>4, <1>5, <1>6 DEF Checker!SameGlobals
<1> QED BY <1>2, <1>7

(* The lengths of the tables.                                              *)
LEMMA TableLengths ==
  ASSUME From
  PROVE  Len(entries_) \in Nat /\ Len(entries_') \in Nat
<1>1. Len(entries_) \in Nat
  BY ReadyFacts, TableFacts DEF From
<1>2. PICK fs : fs = entries_'
  OBVIOUS
<1>3. IsTable(fs)
  BY <1>2 DEF From, Touch, TInv, IsTable
<1> QED BY <1>1, <1>2, <1>3, TableFacts

LEMMA GlobalsKeep ==
  ASSUME From, Promised(Top) = {} \/ kont' # Front(kont)
  PROVE  \A i : Checker!Lists(entries_, i) => Checker!Lists(entries_', i)
<1>1. PICK es, fs : es = entries_ /\ fs = entries_'
  OBVIOUS
<1>2. Len(es) \in Nat /\ Len(fs) \in Nat /\ Checker!SameGlobals(es, fs)
  BY <1>1, GlobalsSame, TableLengths
<1>3. \A i : Checker!Lists(es, i) => Checker!Lists(fs, i)
  BY <1>2, Checker!ListsStay, ProgramsAssumption
<1> QED BY <1>1, <1>3

(* The global variables when the top frame is gone: a declaration that     *)
(* ends adds one if it is a statement of the program.                      *)
LEMMA PoppedLists ==
  ASSUME From, Finish, Promised(Top) = {} \/ \E k, v : Define(k, v),
         NEW s, s = Front(kont), s # <<>>
  PROVE  Checker!Lists(entries_', Executed(s, {}))
<1> DEFINE p == Promised(Top)
<1>1. PICK S, c : s \in Seq(S) /\ Serves(s, c, entries_, p) /\ kont \in Seq(S)
  BY BelowServed
<1>2. Nests(s, entries_, p) /\ Checker!Lists(entries_, Executed(s, p))
  BY <1>1 DEF Serves, Nests
<1>3. CASE p = {}
  BY <1>2, <1>3, GlobalsKeep
<1>4. CASE p # {}
  <2>1. PICK k, v : Define(k, v)
    BY <1>4
  <2>2. PICK n : n = Len(s)
    OBVIOUS
  <2>3. n \in Nat /\ n \in 1 .. n /\ 1 \in 1 .. n
    BY <1>1, <2>2, EmptySeq
  <2>4. /\ s[n].at = "interpret" => n = 1
        /\ Awaits(s[n], p)
    BY <1>2, <2>2, <2>3 DEF Nests
  <2>5. s[1].at = "interpret"
    <3>1. s[1] = kont[1] /\ kont[1].at = "interpret"
      BY <1>1, <2>3, FrontLast DEF From, Ready, IInv
    <3> QED BY <3>1
  <2>6. PICK d, es, fs : d = current_depth_ /\ es = entries_ /\ fs = entries_'
    OBVIOUS
  <2>7. /\ d \in Nat /\ IsTable(es) /\ Sorted(es, d) /\ d = ScopeCount(s) + ScopeOf(Top)
        /\ Len(es) \in Nat /\ Len(fs) \in Nat /\ IsStack(s)
    BY <2>6, ReadyFacts, TopFacts, TableLengths DEF From, Ready
  <2>8. fs = Checker!DefineEntry(es, d, Node.name, v)
    BY <2>1, <2>6 DEF Define, Defined, DefineEntry, Checker!DefineEntry, Entry, Checker!Entry
  <2>9. p \subseteq {Node.name} /\ Top.at \in {"exec", "define", "fields"}
    BY <1>4 DEF Promised, Checker!Declared, Node
  <2>10. ScopeOf(Top) = 0
    BY <2>9, Holding DEF PlainPoints
  <2>11. Checker!IsTable(es)
    BY <2>7 DEF IsTable, Checker!IsTable, EntriesOver, Checker!EntriesOver
  <2>12. CASE n = 1
    <3>1. s[1].i \in 1 .. Len(program) /\ p = Checker!Declared(program[s[1].i])
      BY <1>4, <2>4, <2>5, <2>12, Holding DEF Awaits, ScopeOf
    <3>2. PICK i : i = s[1].i - 1
      OBVIOUS
    <3>3. i \in Nat /\ i + 1 = s[1].i
      <4>1. s[1].i \in Nat /\ s[1].i # 0
        <5>1. PICK M : s \in Seq(FramesOver(M))
          BY <2>7 DEF IsStack
        <5>2. s[1].i \in Nat
          <6>1. s[1] \in FramesOver(M)
            BY <2>2, <2>3, <5>1
          <6> QED BY <6>1 DEF FramesOver
        <5> QED BY <3>1, <5>2
      <4> QED BY <3>2, <4>1
    <3>4. Executed(s, p) = i /\ Executed(s, {}) = i + 1
      BY <1>4, <2>2, <2>12, <3>2, <3>3 DEF Executed, UnderWay
    <3>5. d = 0
      <4>1. ScopeCount(s) = 0
        <5>1. {j \in DOMAIN s : HoldsScope(s[j])} = {}
          <6>1. DOMAIN s = 1 .. n /\ 1 .. 1 = {1}
            BY <1>1, <2>2
          <6> QED BY <2>5, <2>12, <6>1, Holding DEF ScopeOf
        <5> QED BY <5>1, FS_EmptySet DEF ScopeCount
      <4> QED BY <2>7, <2>10, <4>1
    <3>6. \A j \in 1 .. Len(es) : es[j].scope_depth = 0
      BY <2>7, <3>5, TableFacts DEF Sorted
    <3>7. Node.name \in Checker!Declared(program[i + 1])
      BY <1>4, <2>9, <3>1, <3>3
    <3>8. Checker!Lists(Checker!DefineEntry(es, 0, Node.name, v), i + 1)
      <4>1. PICK name : name = Node.name
        OBVIOUS
      <4>2. /\ i \in Nat /\ Checker!IsTable(es) /\ Checker!Lists(es, i)
            /\ \A j \in 1 .. Len(es) : es[j].scope_depth = 0
            /\ name \in Checker!Declared(program[i + 1])
        BY <1>2, <2>6, <2>11, <3>3, <3>4, <3>6, <3>7, <4>1
      <4>3. Checker!Lists(Checker!DefineEntry(es, 0, name, v), i + 1)
        BY <4>2, Checker!ListsDefine, ProgramsAssumption
      <4> QED BY <4>1, <4>3
    <3> QED BY <2>6, <2>8, <3>4, <3>5, <3>8
  <2>13. CASE n # 1
    <3>1. HoldsScope(s[n])
      BY <1>4, <2>4, <2>13 DEF Awaits
    <3>2. d # 0
      <4>1. n \in DOMAIN s /\ IsFiniteSet(DOMAIN s)
        <5>1. DOMAIN s = 1 .. n
          BY <1>1, <2>2
        <5> QED BY <2>3, <5>1, FS_Interval
      <4>2. ScopeCount(s) # 0 /\ ScopeCount(s) \in Nat
        <5> DEFINE G == {j \in DOMAIN s : HoldsScope(s[j])}
        <5>1. n \in G /\ IsFiniteSet(G)
          <6>1. G \subseteq DOMAIN s
            OBVIOUS
          <6> QED BY <3>1, <4>1, <6>1, FS_Subset
        <5>2. G # {}
          BY <5>1
        <5> HIDE DEF G
        <5>3. Cardinality(G) # 0 /\ Cardinality(G) \in Nat
          BY <5>1, <5>2, FS_EmptySet, FS_CardinalityType
        <5> QED BY <5>3 DEF ScopeCount, G
      <4> QED BY <2>7, <2>10, <4>2
    <3>3. Checker!SameGlobals(es, fs)
      <4>1. d \in Nat \ {0}
        BY <2>7, <3>2
      <4>2. PICK name : name = Node.name
        OBVIOUS
      <4>3. Checker!SameGlobals(es, Checker!DefineEntry(es, d, name, v))
        BY <2>11, <4>1, Checker!DefineSameGlobals, ProgramsAssumption
      <4> QED BY <2>8, <4>2, <4>3
    <3>4. Executed(s, p) = Executed(s, {})
      BY <2>2, <2>13 DEF Executed, UnderWay
    <3>5. Checker!Lists(fs, Executed(s, p))
      <4>1. PICK i : i = Executed(s, p)
        OBVIOUS
      <4>2. Checker!Lists(es, i)
        BY <1>2, <2>6, <4>1
      <4>3. Checker!Lists(fs, i)
        BY <2>7, <3>3, <4>2, Checker!ListsStay, ProgramsAssumption
      <4> QED BY <4>1, <4>3
    <3> QED BY <2>6, <3>4, <3>5
  <2> QED BY <2>12, <2>13
<1> QED BY <1>3, <1>4

LEMMA ServedAfter ==
  ASSUME UNCHANGED <<program, registry_>>,
         NEW c, kont' # <<>> => c[Len(kont')] = current_depth_',
         Serves(kont', c, entries_', {})
  PROVE  Serving'
<1>1. program' = program /\ registry_' = registry_
  OBVIOUS
<1>2. \A j : Belongs(kont[j])' <=> Belongs(kont'[j])
  <2>1. Checker!Text(program)' = Checker!Text(program)
    BY <1>1 DEF Checker!Text
  <2> QED BY <1>1, <2>1 DEF Belongs, InProgram, CalleeOf
<1>3. \A j : Rest(kont[j])' = Rest(kont'[j])
  BY <1>1 DEF Rest, RestOf, BodyOf, CalleeOf
<1>4. \A j : Promised(kont[j])' = Promised(kont'[j])
  BY DEF Promised
<1>5. Globals' = Globals /\ \A a : Visible(entries_, a)' = Visible(entries_', a)
  BY <1>1 DEF Globals, Visible
<1>6. (Nests(kont, entries_, {}))' <=> Nests(kont', entries_', {})
  <2>1. \A j : (Awaits(kont[j], IF j < Len(kont) THEN Promised(kont[j + 1]) ELSE {}))'
          <=> Awaits(kont'[j], IF j < Len(kont') THEN Promised(kont'[j + 1]) ELSE {})
    BY <1>1 DEF Awaits, HoldsScope, HasDeclarations, Promised
  <2>2. Executed(kont, {})' = Executed(kont', {})
    BY DEF Executed, UnderWay, Promised
  <2>3. Checker!Lists(entries_, Executed(kont, {}))'
          <=> Checker!Lists(entries_', Executed(kont', {}))
    BY <1>1, <2>2 DEF Checker!Lists, Checker!GlobalsFirst, Checker!Follows, Checker!Declared
  <2> QED BY <2>1, <2>2, <2>3 DEF Nests
<1>7. (Serves(kont, c, entries_, {}))' <=> Serves(kont', c, entries_', {})
  BY <1>2, <1>3, <1>4, <1>5, <1>6 DEF Serves
<1> QED BY <1>7 DEF Serving

LEMMA ServedNow ==
  ASSUME From, NEW c, kont' # <<>> => c[Len(kont')] = current_depth_',
         Serves(kont', c, entries_', {})
  PROVE  Serving'
BY ServedAfter DEF From

(* The three ways a step goes on.                                          *)
LEMMA Popping ==
  ASSUME From, Finish, current_depth_' = current_depth_ - ScopeOf(Top),
         Promised(Top) \subseteq Visible(entries_', current_depth_'),
         Promised(Top) = {} \/ \E k, v : Define(k, v)
  PROVE  Serving'
<1>0. PICK s : s = Front(kont)
  OBVIOUS
<1>1. PICK S, c :
        /\ s \in Seq(S) /\ Serves(s, c, entries_, Promised(Top))
        /\ s # <<>> => c[Len(s)] = current_depth_ - ScopeOf(Top) /\ c[Len(s)] \in Int
  BY <1>0, BelowServed
<1>2. kont' = s
  BY <1>0 DEF Finish
<1>3. Serves(s, c, entries_', {})
  <2> DEFINE d == current_depth_'
  <2>0. s # <<>> => Checker!Lists(entries_', Executed(s, {}))
    BY <1>0, PoppedLists
  <2>1. /\ s # <<>> => d = c[Len(s)]
        /\ \A a \in Int : a <= d => Visible(entries_, a) \subseteq Visible(entries_', a)
        /\ Promised(Top) \subseteq Visible(entries_', d) \cup {}
    BY <1>1, VisibleStays
  <2> HIDE DEF d
  <2>2. PICK p, q, fs, e : p = Promised(Top) /\ q = {} /\ fs = entries_' /\ e = d
    OBVIOUS
  <2>3. /\ s \in Seq(S) /\ Serves(s, c, entries_, p)
        /\ s # <<>> => e = c[Len(s)]
        /\ \A a \in Int : a <= e => Visible(entries_, a) \subseteq Visible(fs, a)
        /\ p \subseteq Visible(fs, e) \cup q
        /\ q = p \/ q = {}
        /\ s # <<>> => Checker!Lists(fs, Executed(s, q))
    BY <1>1, <2>0, <2>1, <2>2
  <2>4. Serves(s, c, fs, q)
    BY <2>3, TableServes
  <2> QED BY <2>2, <2>4
<1>4. Serves(kont', c, entries_', {})
  BY <1>2, <1>3
<1>5. kont' # <<>> => c[Len(kont')] = current_depth_'
  BY <1>1, <1>2
<1> QED BY <1>4, <1>5, ServedNow

(* A frame in the place of the top one.                                    *)
Placed(f) ==
  /\ current_depth_' = current_depth_ - ScopeOf(Top) + ScopeOf(f)
  /\ Promised(Top) = Promised(f)
  /\ f.at = "interpret" => Top.at = "interpret"
  /\ Belongs(f)

(* The step keeps the list of global variables.                            *)
KeepsLists == \A i : Checker!Lists(entries_, i) => Checker!Lists(entries_', i)

LEMMA NotPopped ==
  ASSUME From, NEW f, NEW g, Become(f) \/ BecomeThen(f, g)
  PROVE  KeepsLists
<1>1. PICK s, S : s = Front(kont) /\ s \in Seq(S)
  BY BelowServed
<1> DEFINE T == S \cup {f, g}
<1>2. s \in Seq(T) /\ f \in T /\ g \in T
  <2>1. S \subseteq T /\ f \in T /\ g \in T
    OBVIOUS
  <2> HIDE DEF T
  <2> QED BY <1>1, <2>1, SeqMonotonic
<1> HIDE DEF T
<1>3. Append(s, f) \in Seq(T) /\ Len(Append(s, f)) = Len(s) + 1 /\ Len(s) \in Nat
  BY <1>2, AppendProperties
<1>4. Len(Append(Append(s, f), g)) = Len(Append(s, f)) + 1
  BY <1>2, <1>3, AppendProperties
<1>5. Len(kont') # Len(s)
  <2>1. kont' = Append(s, f) \/ kont' = Append(Append(s, f), g)
    BY <1>1 DEF Become, BecomeThen
  <2> QED BY <1>3, <1>4, <2>1
<1>6. kont' # Front(kont)
  BY <1>1, <1>5
<1> QED BY <1>6, GlobalsKeep DEF KeepsLists

LEMMA Placing ==
  ASSUME From, KeepsLists, NEW f, Placed(f), NEW q, Awaits(f, q),
         Top.at = "interpret" => Checker!Lists(entries_', Executed(<<f>>, q)),
         Rest(f) \subseteq Visible(entries_', current_depth_') \cup Globals \cup q
  PROVE  \E S, c : LET t == Append(Front(kont), f) IN
           /\ t \in Seq(S) /\ Serves(t, c, entries_', q)
           /\ c[Len(t)] = current_depth_'
<1> DEFINE s == Front(kont)
           d == current_depth_'
           n == Len(s)
<1>1. PICK R, c :
        /\ s \in Seq(R) /\ Serves(s, c, entries_, Promised(Top))
        /\ s # <<>> => c[n] = current_depth_ - ScopeOf(Top) /\ c[n] \in Int
  BY BelowServed
<1> DEFINE S == R \cup {f}
<1> HIDE DEF s
<1>2. s \in Seq(S) /\ f \in S /\ n \in Nat /\ (n # 0 => s # <<>>)
  <2>1. R \subseteq S
    OBVIOUS
  <2>2. n \in Nat /\ (n # 0 => s # <<>>)
    BY <1>1, EmptySeq
  <2> HIDE DEF S
  <2>3. s \in Seq(S)
    BY <1>1, <2>1, SeqMonotonic
  <2> QED BY <2>2, <2>3 DEF S
<1> HIDE DEF S
<1>3. current_depth_ \in Int /\ d \in Int /\ ScopeOf(Top) \in {0, 1} /\ ScopeOf(f) \in {0, 1}
  BY ReadyFacts, ScopeIs DEF From
<1>4. d = current_depth_ - ScopeOf(Top) + ScopeOf(f)
  BY DEF Placed
<1>5. s # <<>> => d = c[n] + ScopeOf(f) /\ c[n] <= d
  BY <1>1, <1>3, <1>4
<1>6. \A a \in Int : a <= d => Visible(entries_, a) \subseteq Visible(entries_', a)
  BY VisibleStays
<1>7. Serves(s, c, entries_', Promised(Top))
  <2> DEFINE p == Promised(Top)
             fs == entries_'
  <2>1. PICK e : e = IF s # <<>> THEN c[n] ELSE d
    OBVIOUS
  <2>2. e \in Int /\ e <= d /\ (s # <<>> => e = c[n])
    BY <1>1, <1>3, <1>5, <2>1
  <2>3. \A a \in Int : a <= e => Visible(entries_, a) \subseteq Visible(entries_', a)
    <3> SUFFICES ASSUME NEW a \in Int, a <= e
                 PROVE  Visible(entries_, a) \subseteq Visible(entries_', a)
      OBVIOUS
    <3>1. a <= d
      <4> HIDE DEF d
      <4> QED BY <1>3, <2>2, AtMostAtMost
    <3> QED BY <1>6, <3>1
  <2>4. p \subseteq Visible(fs, e) \cup p
    OBVIOUS
  <2>5. s # <<>> => e = c[Len(s)]
    BY <2>2
  <2>6. Serves(s, c, entries_, p)
    BY <1>1
  <2>7. \A a \in Int : a <= e => Visible(entries_, a) \subseteq Visible(fs, a)
    BY <2>3
  <2>9. s # <<>> => Checker!Lists(fs, Executed(s, p))
    BY <2>6 DEF Serves, Nests, KeepsLists
  <2> HIDE DEF d, n, p, fs
  <2>8. Serves(s, c, fs, p)
    <3>1. PICK g, r : g = fs /\ r = p
      OBVIOUS
    <3>2. /\ s \in Seq(R) /\ Serves(s, c, entries_, r)
          /\ s # <<>> => e = c[Len(s)]
          /\ \A a \in Int : a <= e => Visible(entries_, a) \subseteq Visible(g, a)
          /\ r \subseteq Visible(g, e) \cup r
          /\ s # <<>> => Checker!Lists(g, Executed(s, r))
      BY <1>1, <2>4, <2>5, <2>6, <2>7, <2>9, <3>1
    <3>3. Serves(s, c, g, r)
      BY <3>2, TableServes
    <3> QED BY <3>1, <3>3
  <2> QED BY <2>8 DEF p, fs
<1> DEFINE t == Append(s, f)
           b == [c EXCEPT ![n + 1] = d]
<1>8. Serves(t, b, entries_', q)
  <2>0. Top.at = "interpret" <=> s = <<>>
    BY TopNests DEF s
  <2>1. n # 0 => d = c[n] + ScopeOf(f) /\ Promised(Top) = Promised(f) /\ f.at # "interpret"
    BY <1>2, <1>5, <2>0 DEF Placed
  <2>2. Belongs(f) /\ Rest(f) \subseteq Visible(entries_', d) \cup Globals \cup q
    BY DEF Placed
  <2>3. n = 0 => Checker!Lists(entries_', Executed(<<f>>, q))
    BY <1>1, <2>0, EmptySeq
  <2> HIDE DEF d
  <2>4. PICK fs, p, m : fs = entries_' /\ p = Promised(Top) /\ m = n
    OBVIOUS
  <2>5. /\ s \in Seq(S) /\ f \in S /\ Serves(s, c, fs, p) /\ m = Len(s) /\ d \in Int
        /\ m # 0 => d = c[m] + ScopeOf(f) /\ p = Promised(f) /\ f.at # "interpret"
        /\ m = 0 => Checker!Lists(fs, Executed(<<f>>, q))
        /\ Belongs(f) /\ Rest(f) \subseteq Visible(fs, d) \cup Globals \cup q
    BY <1>2, <1>3, <1>7, <2>1, <2>2, <2>3, <2>4
  <2>6. Serves(Append(s, f), [c EXCEPT ![m + 1] = d], fs, q)
    BY <2>5, AppendServes
  <2> QED BY <2>4, <2>6
<1>9. t \in Seq(S) /\ Len(t) = n + 1
  BY <1>2, AppendProperties
<1>10. b[n + 1] = d
  <2>1. c \in [Nat -> Int] /\ n + 1 \in Nat
    BY <1>1, <1>2 DEF Serves
  <2> QED BY <2>1
<1> HIDE DEF b, t
<1>11. b[Len(t)] = d
  BY <1>9, <1>10
<1> QED BY <1>8, <1>9, <1>11 DEF s, t

LEMMA Becoming ==
  ASSUME From, NEW f, Become(f), Placed(f),
         Rest(f) \subseteq Visible(entries_', current_depth_') \cup Globals,
         Top.at = "interpret" => Checker!Lists(entries_', Executed(<<f>>, {}))
  PROVE  Serving'
<1>1. PICK S, c : /\ Append(Front(kont), f) \in Seq(S)
                  /\ Serves(Append(Front(kont), f), c, entries_', {})
                  /\ c[Len(Append(Front(kont), f))] = current_depth_'
  <2>1. Rest(f) \subseteq Visible(entries_', current_depth_') \cup Globals \cup {}
    OBVIOUS
  <2>2. KeepsLists /\ Awaits(f, {})
    BY NotPopped DEF Awaits
  <2> QED BY <2>1, <2>2, Placing
<1>2. kont' = Append(Front(kont), f)
  BY DEF Become
<1>3. c[Len(kont')] = current_depth_' /\ Serves(kont', c, entries_', {})
  BY <1>1, <1>2
<1> QED BY <1>3, ServedNow

LEMMA CallingOn ==
  ASSUME From, NEW f, NEW g, BecomeThen(f, g), Placed(f), Belongs(g), ScopeOf(g) = 0,
         g.at # "interpret", Awaits(f, Promised(g)),
         Top.at = "interpret" => Checker!Lists(entries_', Executed(<<f>>, Promised(g))),
         Rest(f) \subseteq Visible(entries_', current_depth_') \cup Globals \cup Promised(g),
         Rest(g) \subseteq Visible(entries_', current_depth_') \cup Globals
  PROVE  Serving'
<1> DEFINE t == Append(Front(kont), f)
           d == current_depth_'
           n == Len(t)
<1>0. KeepsLists /\ Len(t) # 0
  <2>1. PICK S, s : s = Front(kont) /\ s \in Seq(S)
    BY BelowServed
  <2>2. Len(Append(s, f)) = Len(s) + 1 /\ Len(s) \in Nat
    BY <2>1
  <2> QED BY <2>1, <2>2, NotPopped
<1>1. PICK R, c : t \in Seq(R) /\ Serves(t, c, entries_', Promised(g)) /\ c[n] = d
  BY <1>0, Placing
<1>2. kont' = Append(t, g)
  BY DEF BecomeThen
<1> HIDE DEF t
<1> DEFINE S == R \cup {g}
           b == [c EXCEPT ![n + 1] = d]
           u == Append(t, g)
<1>3. t \in Seq(S) /\ g \in S /\ n \in Nat
  <2>1. R \subseteq S
    OBVIOUS
  <2> HIDE DEF S
  <2>2. t \in Seq(S)
    BY <1>1, <2>1, SeqMonotonic
  <2> QED BY <2>2 DEF S
<1> HIDE DEF S
<1>4. Serves(u, b, entries_', {})
  <2>1. d \in Int /\ d = c[n] + ScopeOf(g)
    <3>1. d \in Nat
      BY DEF From
    <3> HIDE DEF d, n
    <3> QED BY <1>1, <3>1
  <2>2. Rest(g) \subseteq Visible(entries_', d) \cup Globals \cup {}
    OBVIOUS
  <2>3. n # 0 /\ Awaits(g, {})
    BY <1>0 DEF Awaits
  <2> HIDE DEF d, n
  <2>4. PICK fs, p, m : fs = entries_' /\ p = Promised(g) /\ m = n
    OBVIOUS
  <2>5. /\ t \in Seq(S) /\ g \in S /\ Serves(t, c, fs, p) /\ m = Len(t) /\ d \in Int
        /\ m # 0 => d = c[m] + ScopeOf(g) /\ p = Promised(g) /\ g.at # "interpret"
        /\ m # 0 /\ Awaits(g, {}) /\ Belongs(g)
        /\ Rest(g) \subseteq Visible(fs, d) \cup Globals \cup {}
    BY <1>1, <1>3, <2>1, <2>2, <2>3, <2>4 DEF n
  <2>6. Serves(Append(t, g), [c EXCEPT ![m + 1] = d], fs, {})
    BY <2>5, AppendServes
  <2> QED BY <2>4, <2>6
<1>5. b[n + 1] = d /\ Len(u) = n + 1
  <2>1. c \in [Nat -> Int] /\ n + 1 \in Nat
    BY <1>1, <1>3 DEF Serves
  <2> QED BY <1>3, <2>1
<1> HIDE DEF b, u
<1>6. b[Len(kont')] = d /\ Serves(kont', b, entries_', {})
  BY <1>2, <1>4, <1>5 DEF u
<1> QED BY <1>6, ServedNow

LEMMA Keeping ==
  ASSUME From, UNCHANGED <<kont, entries_, current_depth_>>
  PROVE  Serving'
<1>1. PICK c : c[Len(kont)] = current_depth_ /\ Serves(kont, c, entries_, {})
  BY DEF From, Serving, Ready
<1>2. c[Len(kont')] = current_depth_' /\ Serves(kont', c, entries_', {})
  BY <1>1
<1> QED BY <1>2, ServedNow

---------------------------------------------------------------------------
(* What a node reads, and what its children do.                            *)

(* What the nodes read.                                                    *)
FreeOf(n) == Checker!FreeOf(Checker!Free, n)

LEMMA RestOfAll ==
  ASSUME NEW S, NEW nodes \in Seq(S)
  PROVE  RestOf(nodes, 0) = Checker!InSequence(Checker!Free, nodes)
<1>1. DOMAIN nodes = 1 .. Len(nodes)
  OBVIOUS
<1>2. 0 + 1 = 1
  OBVIOUS
<1> QED BY <1>1, <1>2 DEF RestOf, Checker!InSequence

LEMMA RestOfNext ==
  ASSUME NEW S, NEW nodes \in Seq(S), NEW i \in Nat, i < Len(nodes)
  PROVE  /\ FreeOf(nodes[i + 1]) \subseteq RestOf(nodes, i)
         /\ RestOf(nodes, i + 1) \subseteq RestOf(nodes, i) \cup Checker!Declared(nodes[i + 1])
<1> DEFINE n == Len(nodes)
           F(k) == FreeOf(nodes[k])
           D(k) == Checker!Declared(nodes[k])
<1>1. n \in Nat
  OBVIOUS
<1>2. \A a \in Nat : RestOf(nodes, a) =
        UNION {F(k) \ UNION {D(j) : j \in a + 1 .. k - 1} : k \in a + 1 .. n}
  BY DEF RestOf, FreeOf
<1> HIDE DEF n, F, D
<1>3. /\ i + 1 \in i + 1 .. n /\ i + 1 .. (i + 1) - 1 = {} /\ i + 1 \in Nat
      /\ \A k \in (i + 1) + 1 .. n :
           /\ k \in i + 1 .. n
           /\ \A j \in i + 1 .. k - 1 : j = i + 1 \/ j \in (i + 1) + 1 .. k - 1
  BY <1>1 DEF n
<1>4. F(i + 1) \subseteq RestOf(nodes, i)
  BY <1>2, <1>3
<1>5. ASSUME NEW x \in RestOf(nodes, i + 1), x \notin D(i + 1)
      PROVE  x \in RestOf(nodes, i)
  <2>1. PICK k \in (i + 1) + 1 .. n :
          x \in F(k) /\ ~ \E j \in (i + 1) + 1 .. k - 1 : x \in D(j)
    BY <1>2, <1>3, <1>5
  <2>2. ~ \E j \in i + 1 .. k - 1 : x \in D(j)
    BY <1>3, <1>5, <2>1
  <2> QED BY <1>2, <1>3, <2>1, <2>2
<1> QED BY <1>4, <1>5 DEF F, D

LEMMA SameNone == Checker!None = None
BY DEF None, Checker!None

LEMMA NotDeclaring ==
  ASSUME NEW n, n = None \/ Ast[n].kind # "var"
  PROVE  Checker!Declared(n) = {}
BY SameNone DEF Checker!Declared

LEMMA ChildInProgram ==
  ASSUME NEW n, InProgram(n), NEW i \in DOMAIN Ast[n].kids, Ast[n].kids[i] # None
  PROVE  InProgram(Ast[n].kids[i])
<1>1. n \in DOMAIN Ast /\ Checker!Within[n] \subseteq Checker!Text(program)
  BY DEF InProgram
<1>2. /\ Ast[n].kids[i] \in DOMAIN Ast \cup {None}
      /\ Ast[n].kids[i] # None => Ast[n].kids[i] \in Checker!Kids(n)
  BY <1>1, Checker!KidInTable, ProgramsAssumption, SameNone
<1>3. \A k \in Checker!Kids(n) : Checker!Within[k] \subseteq Checker!Text(program)
  BY <1>1, Checker!KidsInText, ProgramsAssumption
<1> QED BY <1>2, <1>3 DEF InProgram

(* A node with no scope of its own reads what its children do.             *)
PlainKinds == {"unary", "postfix", "member", "expression", "binary", "assignment",
               "index", "call", "list", "var", "return", "if"}

LEMMA ChildReads ==
  ASSUME NEW n \in DOMAIN Ast, Ast[n].kind \in PlainKinds, NEW i \in DOMAIN Ast[n].kids
  PROVE  FreeOf(Ast[n].kids[i]) \subseteq Checker!Free[n]
<1>1. Checker!Free[n] = Checker!FreeFrom(Checker!Free, n)
  BY Checker!FreeIs, ProgramsAssumption
<1>2. Checker!FreeFrom(Checker!Free, n) =
        UNION {FreeOf(Ast[n].kids[j]) : j \in DOMAIN Ast[n].kids}
  BY Checker!FreeFromIs, ProgramsAssumption DEF PlainKinds, FreeOf
<1> QED BY <1>1, <1>2

LEMMA ScopeReads ==
  ASSUME NEW n \in DOMAIN Ast
  PROVE  /\ Ast[n].kind = "variable" => Checker!Free[n] = {Ast[n].name}
         /\ Ast[n].kind \in {"block", "for", "while"} =>
              Checker!Free[n] = Checker!InSequence(Checker!Free, Ast[n].kids)
         /\ Ast[n].kind = "func" =>
              Checker!Free[n] = Checker!InSequence(Checker!Free, Ast[Ast[n].kids[1]].kids)
                                \ Checker!ParamNames(n)
<1>1. Checker!Free[n] = Checker!FreeFrom(Checker!Free, n)
  BY Checker!FreeIs, ProgramsAssumption
<1> QED BY <1>1, Checker!FreeFromIs, ProgramsAssumption

LEMMA BlockReads ==
  ASSUME NEW n \in DOMAIN Ast, Ast[n].kind = "block"
  PROVE  Ast[n].kids \in Seq(DOMAIN Ast) /\ Checker!Free[n] = RestOf(Ast[n].kids, 0)
<1>1. Ast[n].kids \in Seq(DOMAIN Ast)
  BY Checker!BlockShape, ProgramsAssumption
<1> QED BY <1>1, ScopeReads, RestOfAll

LEMMA FuncReads ==
  ASSUME NEW n \in DOMAIN Ast, Ast[n].kind = "func"
  PROVE  /\ Ast[Ast[n].kids[1]].kids \in Seq(DOMAIN Ast)
         /\ RestOf(Ast[Ast[n].kids[1]].kids, 0) \subseteq
              Checker!Free[n] \cup Checker!ParamNames(n)
<1>1. Ast[Ast[n].kids[1]].kids \in Seq(DOMAIN Ast)
  BY Checker!FuncShape, ProgramsAssumption
<1> QED BY <1>1, ScopeReads, RestOfAll

LEMMA LoopReads ==
  ASSUME NEW n \in DOMAIN Ast, Ast[n].kind \in {"while", "for"}
  PROVE  /\ DOMAIN Ast[n].kids = {1, 2, 3, 4} /\ Ast[n].kids[4] # None
         /\ FreeOf(Ast[n].kids[1]) \subseteq Checker!Free[n]
         /\ \A i \in {2, 3, 4} : FreeOf(Ast[n].kids[i]) \subseteq Checker!HeadFree(n)
         /\ Checker!HeadFree(n) \subseteq Checker!Free[n] \cup Checker!Declared(Ast[n].kids[1])
<1> DEFINE kid(i) == Ast[n].kids[i]
           F(i) == FreeOf(kid(i))
           D(i) == Checker!Declared(kid(i))
<1>1. /\ DOMAIN Ast[n].kids = {1, 2, 3, 4}
      /\ kid(2) \in Checker!Expr \cup {None} /\ kid(3) \in Checker!Expr \cup {None}
      /\ kid(4) \in Checker!Branch
  BY Checker!LoopShape, ProgramsAssumption, SameNone
<1>2. /\ \A m \in Checker!Expr : Ast[m].kind \in ExpressionKinds
      /\ None \notin DOMAIN Ast /\ Checker!Branch \subseteq DOMAIN Ast
  BY Checker!KindFacts, ProgramsAssumption, SameNone
     DEF ExpressionKinds, Checker!ExpressionKinds
<1>3. D(2) = {} /\ D(3) = {}
  BY <1>1, <1>2, NotDeclaring DEF ExpressionKinds
<1>4. Checker!Free[n] = UNION {F(i) \ UNION {D(j) : j \in 1 .. i - 1} : i \in {1, 2, 3, 4}}
  BY <1>1, ScopeReads DEF Checker!InSequence, FreeOf
<1>5. Checker!HeadFree(n) = UNION {F(i) : i \in {2, 3, 4}}
  BY DEF Checker!HeadFree, FreeOf
<1> HIDE DEF F, D
<1>6. ASSUME NEW i \in {2, 3, 4}, NEW x \in F(i), x \notin D(1)
      PROVE  x \in Checker!Free[n]
  <2>1. \A j \in 1 .. i - 1 : j \in {1, 2, 3}
    OBVIOUS
  <2>2. ~ \E j \in 1 .. i - 1 : x \in D(j)
    BY <1>3, <1>6, <2>1
  <2> QED BY <1>4, <2>2
<1>7. F(1) \subseteq Checker!Free[n]
  BY <1>4
<1> QED BY <1>1, <1>2, <1>5, <1>6, <1>7 DEF F, D

---------------------------------------------------------------------------
(* What the points of the handlers read and promise.                       *)

(* What the top frame reads is there after a step that closes no scope.    *)
LEMMA TopReads ==
  ASSUME From, Top.at # "interpret"
  PROVE  /\ InProgram(Top.node) /\ Ast[Top.node].kind \in KindsAt(Top.at)
         /\ Top.node \in DOMAIN Ast /\ Belongs(Top) /\ Top.i \in Nat
         /\ current_depth_ <= current_depth_' =>
              Rest(Top) \subseteq Visible(entries_', current_depth_') \cup Globals
<1>1. Belongs(Top) /\ Rest(Top) \subseteq Visible(entries_, current_depth_) \cup Globals
  BY BelowServed
<1>2. InProgram(Top.node) /\ Ast[Top.node].kind \in KindsAt(Top.at)
  BY <1>1 DEF Belongs
<1>3. Top.i \in Nat
  BY TopFacts DEF From, Ready, IsFrame, FramesOver
<1>4. current_depth_ <= current_depth_' =>
        Visible(entries_, current_depth_) \subseteq Visible(entries_', current_depth_')
  <2>1. current_depth_ \in Nat /\ current_depth_' \in Nat
    BY ReadyFacts DEF From
  <2> SUFFICES ASSUME current_depth_ <= current_depth_'
               PROVE  Visible(entries_, current_depth_) \subseteq
                        Visible(entries_', current_depth_')
    OBVIOUS
  <2>2. Visible(entries_, current_depth_) \subseteq Visible(entries_', current_depth_)
    BY <2>1, VisibleStays
  <2>3. Visible(entries_', current_depth_) \subseteq Visible(entries_', current_depth_')
    <3>1. \A i \in DOMAIN entries_' : entries_'[i].scope_depth \in Nat
      <4>1. IsTable(entries_')
        BY DEF From, Touch, TInv, IsTable
      <4> QED BY <4>1, TableFacts
    <3>2. \A i \in DOMAIN entries_' : entries_'[i].scope_depth <= current_depth_ =>
             entries_'[i].scope_depth <= current_depth_'
      BY <2>1, <3>1
    <3> QED BY <3>2 DEF Visible
  <2> QED BY <2>2, <2>3
<1> QED BY <1>1, <1>2, <1>3, <1>4 DEF InProgram

(* What frames read and promise, by their points.                          *)
DeclaringPoints == {"exec", "define", "fields"}

LEMMA FrameReads ==
  ASSUME NEW f
  PROVE  /\ f.at \in PlainPoints \cup {"arguments"} => Rest(f) = Checker!Free[f.node]
         /\ f.at \in LoopPoints => Rest(f) = Checker!HeadFree(f.node)
         /\ f.at = "interpret" => Rest(f) = {}
         /\ f.at = "block" => Rest(f) = RestOf(Ast[f.node].kids, f.i)
         /\ f.at = "body" => Rest(f) = RestOf(BodyOf(f), f.i)
         /\ f.at \notin DeclaringPoints \/ Ast[f.node].kind # "var" => Promised(f) = {}
         /\ f.at \in DeclaringPoints => Promised(f) = Checker!Declared(f.node)
         /\ f.at \in LoopPoints \cup CallPoints \cup {"interpret", "block"} => Promised(f) = {}
BY NotDeclaring DEF Rest, Promised, PlainPoints, LoopPoints, CallPoints, DeclaringPoints

LEMMA NewFrameIs ==
  ASSUME NEW p, NEW n
  PROVE  Frame(p, n).at = p /\ Frame(p, n).node = n /\ Frame(p, n).i = 0
BY DEF Frame

LEMMA CalledBelongs ==
  ASSUME NEW how \in Hows, NEW n, InProgram(n)
  PROVE  /\ Belongs(Frame(how, n)) /\ ScopeOf(Frame(how, n)) = 0
         /\ Rest(Frame(how, n)) = Checker!Free[n]
         /\ how = "exec" => Promised(Frame(how, n)) = Checker!Declared(n)
         /\ how # "exec" => Promised(Frame(how, n)) = {}
         /\ Frame(how, n).at # "interpret"
<1>1. how \in PlainPoints /\ how \in {"exec", "eval", "lval"}
  BY Names
<1>2. Frame(how, n).at = how /\ Frame(how, n).node = n
  BY NewFrameIs
<1>3. KindsAt(how) = {Ast[m].kind : m \in DOMAIN Ast}
  BY <1>1 DEF KindsAt, CallPoints, LoopPoints
<1>4. Belongs(Frame(how, n))
  BY <1>1, <1>2, <1>3 DEF Belongs, InProgram
<1> QED BY <1>1, <1>2, <1>4, Holding, FrameReads DEF DeclaringPoints

LEMMA KidShape ==
  ASSUME NEW n \in DOMAIN Ast
  PROVE  /\ Ast[n].kind \in {"unary", "postfix", "member", "expression"} =>
              1 \in DOMAIN Ast[n].kids /\ Ast[n].kids[1] # None
         /\ Ast[n].kind \in {"binary", "assignment", "index"} =>
              /\ 1 \in DOMAIN Ast[n].kids /\ Ast[n].kids[1] # None
              /\ 2 \in DOMAIN Ast[n].kids /\ Ast[n].kids[2] # None
         /\ Ast[n].kind = "if" =>
              /\ 1 \in DOMAIN Ast[n].kids /\ Ast[n].kids[1] # None
              /\ 2 \in DOMAIN Ast[n].kids /\ 3 \in DOMAIN Ast[n].kids
         /\ Ast[n].kind \in {"var", "return"} => 1 \in DOMAIN Ast[n].kids
         /\ Ast[n].kind \in {"call", "list"} =>
              /\ DOMAIN Ast[n].kids = 1 .. Len(Ast[n].kids)
              /\ \A i \in DOMAIN Ast[n].kids : Ast[n].kids[i] # None
<1>1. Checker!Expr \subseteq DOMAIN Ast /\ None \notin DOMAIN Ast
  BY Checker!KindFacts, ProgramsAssumption, SameNone
<1>2. CASE Ast[n].kind \in {"unary", "postfix", "member", "expression"}
  BY <1>1, <1>2, Checker!OneShape, ProgramsAssumption
<1>3. CASE Ast[n].kind \in {"binary", "assignment", "index"}
  BY <1>1, <1>3, Checker!TwoShape, ProgramsAssumption
<1>4. CASE Ast[n].kind = "if"
  BY <1>1, <1>4, Checker!IfShape, ProgramsAssumption
<1>5. CASE Ast[n].kind \in {"var", "return"}
  BY <1>5, Checker!MaybeShape, ProgramsAssumption
<1>6. CASE Ast[n].kind \in {"call", "list"}
  <2>1. Ast[n].kids \in Seq(Checker!Expr)
    BY <1>6, Checker!ListShape, ProgramsAssumption
  <2> QED BY <1>1, <1>6, <2>1
<1> QED BY <1>2, <1>3, <1>4, <1>5, <1>6

---------------------------------------------------------------------------
(* The whole steps.                                                        *)

LEMMA QuietFinish ==
  ASSUME From, AtPlain, Finish, UNCHANGED current_depth_, Promised(Top) = {}
  PROVE  Serving'
<1>1. ScopeOf(Top) = 0
  BY Holding DEF AtPlain
<1>2. current_depth_' = current_depth_ - ScopeOf(Top)
  BY <1>1, ReadyFacts DEF From
<1> QED BY <1>2, Popping

LEMMA RaisesServe ==
  ASSUME From
  PROVE  /\ \A m : Raise(m) => Serving'
         /\ \A c : RaiseError(c) => Serving'
         /\ \A v : Throw(v) => Serving'
<1>1. \A m : Raise(m) => Serving'
  BY Keeping DEF Raise, Stay, scopes
<1>2. \A c : RaiseError(c) => Serving'
  BY Keeping DEF RaiseError, scopes
<1> QED BY <1>1, <1>2 DEF Throw

LEMMA EndsServe ==
  ASSUME From, AtPlain, Promised(Top) = {}
  PROVE  /\ \A k : Done(k) => Serving'
         /\ \A k, x : Result(k, x) => Serving'
         /\ \A k, v : Yield(k, v) => Serving'
         /\ \A k, v : YieldCopy(k, v) => Serving'
         /\ \A k, new, result : StoreYield(k, new, result) => Serving'
<1>1. \A k, x : Result(k, x) => Serving'
  BY QuietFinish DEF Result, Stay, scopes
<1>2. \A k, v : Yield(k, v) => Serving'
  BY <1>1, RaisesServe DEF Yield
<1>3. ASSUME NEW k, NEW new, NEW result, StoreYield(k, new, result) PROVE Serving'
  <2>1. CASE Stale(Temp(0))
    BY <1>3, <2>1, RaisesServe DEF StoreYield
  <2>2. CASE ~ Stale(Temp(0)) /\ Thrown(new)
    BY <1>3, <2>2, RaisesServe DEF StoreYield
  <2>3. CASE ~ Stale(Temp(0)) /\ ~ Thrown(new)
    BY <1>3, <2>3, QuietFinish DEF StoreYield
  <2> QED BY <2>1, <2>2, <2>3
<1>4. \A k : Done(k) => Serving'
  BY QuietFinish DEF Done, Stay, scopes
<1>5. \A k, v : YieldCopy(k, v) => Serving'
  BY QuietFinish DEF YieldCopy, scopes
<1> QED BY <1>1, <1>2, <1>3, <1>4, <1>5

(* A frame at another point of the same class, at the same node or below.  *)
LEMMA PlacedAgain ==
  ASSUME From, NEW p, NEW n, Belongs(Frame(p, n)),
         Promised(Top) = Promised(Frame(p, n)), UNCHANGED current_depth_,
         \/ Top.at \in PlainPoints /\ p \in PlainPoints
         \/ Top.at \in LoopPoints /\ p \in LoopPoints
  PROVE  Placed(Frame(p, n)) /\ current_depth_ <= current_depth_'
<1>1. Same(Frame(p, n))
  BY SameClass
<1>2. current_depth_ \in Nat /\ ScopeOf(Top) \in {0, 1}
  BY ReadyFacts, ScopeIs DEF From
<1>3. current_depth_' = current_depth_ - ScopeOf(Top) + ScopeOf(Frame(p, n))
  BY <1>1, <1>2 DEF Same
<1>4. Frame(p, n).at # "interpret"
  BY NewFrameIs DEF PlainPoints, LoopPoints
<1> QED BY <1>2, <1>3, <1>4 DEF Placed

LEMMA ThenServes ==
  ASSUME From, NEW how \in Hows, NEW k, NEW p, Then(how, k, p),
         \/ Top.at \in PlainPoints /\ p \in PlainPoints
         \/ Top.at \in LoopPoints /\ p \in LoopPoints,
         Belongs(Frame(p, Top.node)), InProgram(Kid(k)),
         Promised(Top) = Promised(Frame(p, Top.node)), how # "exec" \/ p \in LoopPoints,
         Rest(Frame(p, Top.node)) \subseteq Rest(Top),
         Checker!Free[Kid(k)] \subseteq Rest(Top)
  PROVE  Serving'
<1> DEFINE f == Frame(p, Top.node)
           g == Frame(how, Kid(k))
<1>1. BecomeThen(f, g) /\ UNCHANGED current_depth_
  BY DEF Then, Stay, scopes
<1>2. Placed(f) /\ current_depth_ <= current_depth_'
  BY <1>1, PlacedAgain
<1>3. /\ Belongs(g) /\ ScopeOf(g) = 0 /\ Rest(g) = Checker!Free[Kid(k)]
      /\ g.at # "interpret" /\ (how # "exec" => Promised(g) = {})
  BY CalledBelongs
<1>6. Awaits(f, Promised(g)) /\ Top.at # "interpret"
  <2>1. p \in LoopPoints => HoldsScope(f)
    BY NewFrameIs DEF HoldsScope
  <2>2. Top.at # "interpret"
    BY DEF PlainPoints, LoopPoints
  <2> HIDE DEF f, g
  <2> QED BY <1>3, <2>1, <2>2 DEF Awaits
<1>4. Rest(Top) \subseteq Visible(entries_', current_depth_') \cup Globals
  <2>1. Top.at # "interpret"
    BY DEF PlainPoints, LoopPoints
  <2> QED BY <1>2, <2>1, TopReads
<1>5. Rest(f) \subseteq Rest(Top)
  OBVIOUS
<1> HIDE DEF f, g
<1> QED BY <1>1, <1>2, <1>3, <1>4, <1>5, <1>6, CallingOn

LEMMA ResumeServes ==
  ASSUME From, NEW k, NEW p, NEW n, Resume(k, Frame(p, n)),
         \/ Top.at \in PlainPoints /\ p \in PlainPoints
         \/ Top.at \in LoopPoints /\ p \in LoopPoints,
         Belongs(Frame(p, n)), Promised(Top) = Promised(Frame(p, n)),
         Rest(Frame(p, n)) \subseteq Rest(Top)
  PROVE  Serving'
<1> DEFINE f == Frame(p, n)
<1>1. Become(f) /\ UNCHANGED current_depth_
  BY DEF Resume, Stay, scopes
<1>2. Placed(f) /\ current_depth_ <= current_depth_'
  BY <1>1, PlacedAgain
<1>5. Top.at # "interpret"
  BY DEF PlainPoints, LoopPoints
<1>3. Rest(Top) \subseteq Visible(entries_', current_depth_') \cup Globals
  BY <1>2, <1>5, TopReads
<1>4. Rest(f) \subseteq Rest(Top)
  OBVIOUS
<1> HIDE DEF f
<1> QED BY <1>1, <1>2, <1>3, <1>4, <1>5, Becoming

LEMMA ThenNextServes ==
  ASSUME From, NEW how \in Hows, NEW nodes, ThenNext(how, nodes), Top.at # "interpret",
         InProgram(nodes[Top.i + 1]),
         Rest(Advanced) \subseteq Rest(Top)
           \cup (IF how = "exec" THEN Checker!Declared(nodes[Top.i + 1]) ELSE {}),
         Checker!Free[nodes[Top.i + 1]] \subseteq Rest(Top),
         how = "exec" => HoldsScope(Top) \/ Checker!Declared(nodes[Top.i + 1]) = {}
  PROVE  Serving'
<1> DEFINE f == Advanced
           n == nodes[Top.i + 1]
           g == Frame(how, n)
<1>1. BecomeThen(f, g) /\ UNCHANGED current_depth_
  BY DEF ThenNext, Stay, scopes
<1>2. Advanced.at = Top.at /\ Advanced.node = Top.node
  BY TopFacts DEF From, Ready, Advanced, IsFrame, FramesOver
<1>3. Belongs(f) /\ Promised(f) = Promised(Top) /\ ScopeOf(f) = ScopeOf(Top)
  <2>1. Belongs(Top)
    BY TopReads
  <2> QED BY <1>2, <2>1 DEF Belongs, CalleeOf, Promised, ScopeOf, HoldsScope
<1>4. current_depth_ \in Nat /\ ScopeOf(Top) \in {0, 1}
  BY ReadyFacts, ScopeIs DEF From
<1> HIDE DEF f
<1>5. /\ current_depth_' = current_depth_ - ScopeOf(Top) + ScopeOf(f)
      /\ current_depth_ <= current_depth_'
  BY <1>1, <1>3, <1>4
<1>10. f.at # "interpret" /\ (HoldsScope(Top) => HoldsScope(f))
  BY <1>2 DEF f, HoldsScope
<1>6. Placed(f)
  BY <1>3, <1>5, <1>10 DEF Placed
<1>7. /\ Belongs(g) /\ ScopeOf(g) = 0 /\ Rest(g) = Checker!Free[n]
      /\ how = "exec" => Promised(g) = Checker!Declared(n)
      /\ how # "exec" => Promised(g) = {}
      /\ g.at # "interpret"
  BY CalledBelongs
<1>11. Awaits(f, Promised(g))
  <2> HIDE DEF g
  <2> QED BY <1>7, <1>10 DEF Awaits
<1>8. Rest(Top) \subseteq Visible(entries_', current_depth_') \cup Globals
  BY <1>5, TopReads
<1>9. Rest(f) \subseteq Rest(Top) \cup Promised(g)
  BY <1>7 DEF f
<1> HIDE DEF g
<1> QED BY <1>1, <1>6, <1>7, <1>8, <1>9, <1>11, CallingOn

LEMMA FreeOfIs == ASSUME NEW n, n # None PROVE FreeOf(n) = Checker!Free[n]
BY SameNone DEF FreeOf, Checker!FreeOf

(* What is known of the top frame at a point without a scope.              *)
LEMMA PlainTop ==
  ASSUME From, AtPlain
  PROVE  /\ Top.node \in DOMAIN Ast /\ InProgram(Top.node) /\ Node.kind \in KindsAt(Top.at)
         /\ Belongs(Top) /\ Top.i \in Nat /\ Rest(Top) = Checker!Free[Top.node]
         /\ ScopeOf(Top) = 0
         /\ Top.at \notin DeclaringPoints \/ Node.kind # "var" => Promised(Top) = {}
         /\ Promised(Top) \subseteq Checker!Declared(Top.node)
         /\ current_depth_ <= current_depth_' =>
              Checker!Free[Top.node] \subseteq Visible(entries_', current_depth_') \cup Globals
<1>1. Top.at \in PlainPoints /\ Top.at # "interpret"
  BY DEF AtPlain, PlainPoints
<1>2. /\ InProgram(Top.node) /\ Ast[Top.node].kind \in KindsAt(Top.at)
      /\ Top.node \in DOMAIN Ast /\ Belongs(Top) /\ Top.i \in Nat
      /\ current_depth_ <= current_depth_' =>
           Rest(Top) \subseteq Visible(entries_', current_depth_') \cup Globals
  BY <1>1, TopReads
<1>3. /\ Rest(Top) = Checker!Free[Top.node]
      /\ Top.at \notin DeclaringPoints \/ Ast[Top.node].kind # "var" => Promised(Top) = {}
      /\ Top.at \in DeclaringPoints => Promised(Top) = Checker!Declared(Top.node)
  BY <1>1, FrameReads
<1>4. ScopeOf(Top) = 0
  BY <1>1, Holding
<1> QED BY <1>2, <1>3, <1>4 DEF Node

LEMMA KindTable ==
  /\ \A n \in DOMAIN Ast : \A p \in {"exec", "eval", "lval", "discard", "return",
                                     "load", "apply", "store", "element", "member"} :
       Ast[n].kind \in KindsAt(p)
  /\ KindsAt("define") = {"var"} /\ KindsAt("fields") = {"var"} /\ KindsAt("block") = {"block"}
  /\ KindsAt("branch") = {"if"} /\ KindsAt("right") = {"binary"}
  /\ KindsAt("target") = {"assignment"} /\ KindsAt("elements") = {"list"}
  /\ KindsAt("unary") = {"unary"} /\ KindsAt("operand") = {"unary"}
  /\ KindsAt("bump") = {"unary", "postfix"} /\ KindsAt("index") = {"index"}
  /\ KindsAt("arguments") = {"call"} /\ KindsAt("body") = {"call"}
  /\ \A p \in LoopPoints : KindsAt(p) = {"while", "for"}
BY DEF KindsAt, CallPoints, LoopPoints

(* A frame of a plain node at a later point belongs there.                 *)
LEMMA PlainBelongs ==
  ASSUME From, AtPlain, NEW p \in PlainPoints \ {"fields"}, Node.kind \in KindsAt(p)
  PROVE  /\ Belongs(Frame(p, Top.node)) /\ Rest(Frame(p, Top.node)) = Rest(Top)
         /\ \/ Node.kind # "var"
            \/ Top.at \in DeclaringPoints /\ p \in DeclaringPoints
            => Promised(Top) = Promised(Frame(p, Top.node))
<1> DEFINE f == Frame(p, Top.node)
<1>1. f.at = p /\ f.node = Top.node
  BY NewFrameIs
<1>2. p \notin {"fields", "body", "interpret"}
  BY DEF PlainPoints
<1> HIDE DEF f
<1>3. Belongs(f)
  BY <1>1, <1>2, PlainTop DEF Belongs, Node
<1>4. Rest(f) = Rest(Top)
  BY <1>1, PlainTop, FrameReads
<1>5. ASSUME \/ Node.kind # "var"
             \/ Top.at \in DeclaringPoints /\ p \in DeclaringPoints
      PROVE  Promised(Top) = Promised(f)
  BY <1>1, <1>5, FrameReads DEF Node
<1> QED BY <1>3, <1>4, <1>5 DEF f

LEMMA PlainGoes ==
  ASSUME From, AtPlain, NEW how \in Hows, NEW k, NEW p \in PlainPoints \ {"fields"},
         Then(how, k, p), Node.kind \in PlainKinds, Node.kind \in KindsAt(p),
         k \in DOMAIN Node.kids, Kid(k) # None,
         how # "exec",
         Node.kind # "var" \/ (Top.at \in DeclaringPoints /\ p \in DeclaringPoints)
  PROVE  Serving'
<1>1. Top.node \in DOMAIN Ast /\ InProgram(Top.node) /\ Rest(Top) = Checker!Free[Top.node]
  BY PlainTop
<1>2. InProgram(Kid(k))
  BY <1>1, ChildInProgram DEF Kid, Node
<1>3. Checker!Free[Kid(k)] \subseteq Rest(Top)
  <2>1. FreeOf(Kid(k)) \subseteq Checker!Free[Top.node]
    BY <1>1, ChildReads DEF Kid, Node
  <2> QED BY <1>1, <2>1, FreeOfIs
<1>4. Belongs(Frame(p, Top.node)) /\ Rest(Frame(p, Top.node)) \subseteq Rest(Top)
      /\ Promised(Top) = Promised(Frame(p, Top.node))
  BY PlainBelongs
<1>5. Top.at \in PlainPoints /\ p \in PlainPoints
  BY DEF AtPlain
<1> QED BY <1>2, <1>3, <1>4, <1>5, ThenServes

(* The next node of a list of expressions or statements.                   *)
LEMMA ListGoes ==
  ASSUME From, Running, NEW how \in Hows, how # "exec", NEW S, NEW nodes \in Seq(S),
         ThenNext(how, nodes), Top.at # "interpret",
         NEW n, n = nodes[Top.i + 1], n # None, InProgram(n),
         Checker!Free[n] \subseteq Rest(Top), Rest(Advanced) \subseteq Rest(Top)
  PROVE  Serving'
<1>1. Rest(Advanced) \subseteq Rest(Top)
        \cup (IF how = "exec" THEN Checker!Declared(nodes[Top.i + 1]) ELSE {})
  OBVIOUS
<1> QED BY <1>1, ThenNextServes

LEMMA AdvancedIs ==
  ASSUME From
  PROVE  /\ Advanced.at = Top.at /\ Advanced.node = Top.node /\ Advanced.i = Top.i + 1
         /\ Top.i \in Nat
BY TopFacts DEF From, Ready, Advanced, IsFrame, FramesOver

---------------------------------------------------------------------------
(* Every handler: expressions and the statements without a scope.          *)

LEMMA AtPoint ==
  ASSUME From, NEW p \in PlainPoints, At(p)
  PROVE  /\ AtPlain /\ Running /\ Top.at = p /\ Node.kind \in KindsAt(p)
         /\ p \notin DeclaringPoints => Promised(Top) = {}
<1>1. AtPlain /\ Running /\ Top.at = p
  BY AtFacts DEF From, Ready
<1> QED BY <1>1, PlainTop

LEMMA AtKind ==
  ASSUME From, NEW k, Exec(k) \/ Eval(k) \/ Lval(k)
  PROVE  /\ AtPlain /\ Running /\ Node.kind = k /\ Top.at \in Hows
         /\ k # "var" \/ ~ Exec(k) => Promised(Top) = {}
<1>1. AtPlain /\ Running /\ Node.kind = k
  BY AtFacts DEF From, Ready, Exec, Eval, Lval, AtPlain
<1>2. Top.at \in Hows /\ (~ Exec(k) => Top.at \notin DeclaringPoints)
  BY DEF Exec, Eval, Lval, At, Hows, DeclaringPoints
<1> QED BY <1>1, <1>2, PlainTop

LEMMA PlainNames ==
  {"exec", "eval", "lval", "discard", "define", "branch", "return", "load", "right", "apply",
   "target", "store", "unary", "operand", "bump", "elements", "index", "element", "member"}
  \subseteq PlainPoints \ {"fields"}
BY DEF PlainPoints

LEMMA NodeKids ==
  ASSUME From, AtPlain
  PROVE  /\ Node.kind \in {"unary", "postfix", "member", "expression"} =>
              1 \in DOMAIN Node.kids /\ Kid(1) # None
         /\ Node.kind \in {"binary", "assignment", "index"} =>
              /\ 1 \in DOMAIN Node.kids /\ Kid(1) # None
              /\ 2 \in DOMAIN Node.kids /\ Kid(2) # None
         /\ Node.kind = "if" =>
              /\ 1 \in DOMAIN Node.kids /\ Kid(1) # None
              /\ 2 \in DOMAIN Node.kids /\ 3 \in DOMAIN Node.kids
         /\ Node.kind \in {"var", "return"} => 1 \in DOMAIN Node.kids
BY PlainTop, KidShape DEF Node, Kid

LEMMA ExpressionStatementServes ==
  ASSUME From, ExecuteExpression \/ ExecuteDeclaration PROVE Serving'
<1>1. ASSUME Exec("expression"), Then("eval", 1, "discard") PROVE Serving'
  <2>1. AtPlain /\ Node.kind = "expression" /\ Promised(Top) = {}
    BY <1>1, AtKind
  <2>2. Node.kind \in KindsAt("discard") /\ Node.kind \in PlainKinds
    BY <2>1, PlainTop, KindTable DEF Node, PlainKinds
  <2> QED BY <1>1, <2>1, <2>2, NodeKids, HowNames, PlainNames, PlainGoes
<1>2. ASSUME At("discard"), Done(1) PROVE Serving'
  <2>1. AtPlain /\ Promised(Top) = {}
    BY <1>2, PlainNames, AtPoint DEF DeclaringPoints
  <2> QED BY <1>2, <2>1, EndsServe
<1>3. ASSUME ExecuteDeclaration PROVE Serving'
  <2>1. AtPlain /\ Promised(Top) = {}
    BY <1>3, AtKind DEF ExecuteDeclaration
  <2> QED BY <1>3, <2>1, EndsServe DEF ExecuteDeclaration
<1> QED BY <1>1, <1>2, <1>3 DEF ExecuteExpression

LEMMA IfServes == ASSUME From, ExecuteIf PROVE Serving'
<1> DEFINE cond == ToBool(Temp(0))
           chosen == IF IsTrue(cond) THEN Kid(2) ELSE Kid(3)
<1>1. ASSUME Exec("if"), Then("eval", 1, "branch") PROVE Serving'
  <2>1. AtPlain /\ Node.kind = "if" /\ Promised(Top) = {}
    BY <1>1, AtKind
  <2>2. Node.kind \in KindsAt("branch") /\ Node.kind \in PlainKinds
    BY <2>1, KindTable DEF PlainKinds
  <2> QED BY <1>1, <2>1, <2>2, NodeKids, HowNames, PlainNames, PlainGoes
<1>2. ASSUME At("branch"), Failed(cond), Throw(cond) PROVE Serving'
  BY <1>2, RaisesServe
<1>3. ASSUME At("branch"), chosen = None, Done(1) PROVE Serving'
  <2>1. AtPlain /\ Promised(Top) = {}
    BY <1>3, PlainNames, AtPoint DEF DeclaringPoints
  <2> QED BY <1>3, <2>1, EndsServe
<1>4. ASSUME At("branch"), chosen # None, Resume(1, Frame("exec", chosen)) PROVE Serving'
  <2>1. AtPlain /\ Promised(Top) = {} /\ Node.kind = "if" /\ Top.at = "branch"
    BY <1>4, PlainNames, AtPoint, KindTable DEF DeclaringPoints
  <2>2. PICK k \in DOMAIN Node.kids : chosen = Kid(k)
    BY <2>1, NodeKids
  <2> HIDE DEF chosen
  <2>3. InProgram(chosen) /\ Checker!Free[chosen] \subseteq Rest(Top)
    <3>1. /\ Top.node \in DOMAIN Ast /\ InProgram(Top.node)
          /\ Rest(Top) = Checker!Free[Top.node]
      BY <2>1, PlainTop
    <3>2. InProgram(chosen)
      BY <1>4, <2>2, <3>1, ChildInProgram DEF Kid, Node
    <3>3. FreeOf(chosen) \subseteq Checker!Free[Top.node]
      BY <2>1, <2>2, <3>1, ChildReads DEF Kid, Node, PlainKinds
    <3> QED BY <1>4, <3>1, <3>2, <3>3, FreeOfIs
  <2>6. Checker!Declared(chosen) = {}
    <3>1. Top.node \in DOMAIN Ast
      BY <2>1, PlainTop
    <3>2. Kid(2) \in Checker!Branch /\ Kid(3) \in Checker!Branch \cup {None}
      BY <2>1, <3>1, Checker!IfShape, ProgramsAssumption, SameNone DEF Node, Kid
    <3>3. chosen \in Checker!Branch
      BY <1>4, <3>2 DEF chosen
    <3>4. Ast[chosen].kind \in Checker!BranchKinds
      BY <3>3, Checker!KindFacts, ProgramsAssumption
    <3> QED BY <3>4, NotDeclaring DEF Checker!BranchKinds
  <2>4. /\ Belongs(Frame("exec", chosen)) /\ Promised(Top) = Promised(Frame("exec", chosen))
        /\ Rest(Frame("exec", chosen)) \subseteq Rest(Top)
    BY <2>1, <2>3, <2>6, CalledBelongs, HowNames
  <2>5. Top.at \in PlainPoints /\ "exec" \in PlainPoints
    BY <2>1, PlainNames
  <2> QED BY <1>4, <2>4, <2>5, ResumeServes
<1> QED BY <1>1, <1>2, <1>3, <1>4 DEF ExecuteIf

LEMMA ReturnServes == ASSUME From, ExecuteReturn PROVE Serving'
<1>1. ASSUME Exec("return"), Has(1), Then("eval", 1, "return") PROVE Serving'
  <2>1. AtPlain /\ Node.kind = "return" /\ Promised(Top) = {}
    BY <1>1, AtKind
  <2>2. Node.kind \in KindsAt("return") /\ Node.kind \in PlainKinds
    BY <2>1, PlainTop, KindTable DEF PlainKinds, Node
  <2> QED BY <1>1, <2>1, <2>2, NodeKids, HowNames, PlainNames, PlainGoes DEF Has
<1>2. ASSUME Exec("return"), Finish, Stay PROVE Serving'
  <2>1. AtPlain /\ Promised(Top) = {}
    BY <1>2, AtKind
  <2> QED BY <1>2, <2>1, QuietFinish DEF Stay, scopes
<1>3. ASSUME At("return"), Finish, Stay PROVE Serving'
  <2>1. AtPlain /\ Promised(Top) = {}
    BY <1>3, PlainNames, AtPoint DEF DeclaringPoints
  <2> QED BY <1>3, <2>1, QuietFinish DEF Stay, scopes
<1> QED BY <1>1, <1>2, <1>3 DEF ExecuteReturn

LEMMA ReadServes == ASSUME From, EvaluateLiteral \/ EvaluateByReference PROVE Serving'
<1>1. ASSUME EvaluateLiteral PROVE Serving'
  <2>1. AtPlain /\ Promised(Top) = {}
    BY <1>1, AtKind DEF EvaluateLiteral
  <2> QED BY <1>1, <2>1, EndsServe DEF EvaluateLiteral
<1>2. ASSUME Eval("variable") \/ Eval("index") \/ Eval("member"),
             BecomeThen(Frame("load", Top.node), Frame("lval", Top.node)), Stay
      PROVE  Serving'
  <2>1. AtPlain /\ Promised(Top) = {} /\ Top.at \in PlainPoints
    BY <1>2, AtKind DEF AtPlain
  <2>2. InProgram(Top.node) /\ Node.kind \in KindsAt("load") /\ Rest(Top) = Checker!Free[Top.node]
    BY <2>1, PlainTop, KindTable DEF Node
  <2>3. Belongs(Frame("load", Top.node)) /\ Rest(Frame("load", Top.node)) = Rest(Top)
    BY <2>1, <2>2, PlainNames, PlainBelongs
  <2>4. /\ Belongs(Frame("lval", Top.node)) /\ ScopeOf(Frame("lval", Top.node)) = 0
        /\ Rest(Frame("lval", Top.node)) = Rest(Top)
        /\ Promised(Frame("lval", Top.node)) = {} /\ Frame("lval", Top.node).at # "interpret"
    BY <2>2, HowNames, CalledBelongs
  <2>5. /\ UNCHANGED current_depth_ /\ Promised(Top) = Promised(Frame("load", Top.node))
        /\ "load" \in PlainPoints /\ Top.at # "interpret"
    <3>1. Promised(Frame("load", Top.node)) = {}
      BY NewFrameIs, FrameReads DEF DeclaringPoints
    <3> QED BY <1>2, <2>1, <3>1, PlainNames DEF Stay, scopes, PlainPoints
  <2>6. Placed(Frame("load", Top.node)) /\ current_depth_ <= current_depth_'
    BY <2>1, <2>3, <2>5, PlacedAgain
  <2>7. Rest(Top) \subseteq Visible(entries_', current_depth_') \cup Globals
    BY <2>1, <2>2, <2>6, PlainTop
  <2> DEFINE f == Frame("load", Top.node)
             g == Frame("lval", Top.node)
  <2>8. /\ BecomeThen(f, g) /\ Placed(f) /\ Belongs(g) /\ ScopeOf(g) = 0
        /\ Rest(f) = Rest(Top) /\ Rest(g) = Rest(Top)
        /\ g.at # "interpret" /\ Awaits(f, Promised(g)) /\ Top.at # "interpret"
    BY <1>2, <2>3, <2>4, <2>5, <2>6 DEF Awaits
  <2> HIDE DEF f, g
  <2> QED BY <2>7, <2>8, CallingOn
<1>3. ASSUME At("load"), \E m : Raise(m) \/ \E k, v : YieldCopy(k, v) PROVE Serving'
  <2>1. AtPlain /\ Promised(Top) = {}
    BY <1>3, PlainNames, AtPoint DEF DeclaringPoints
  <2> QED BY <1>3, <2>1, EndsServe, RaisesServe
<1> QED BY <1>1, <1>2, <1>3 DEF EvaluateByReference

LEMMA BinaryServes == ASSUME From, EvaluateBinary PROVE Serving'
<1> DEFINE truth == ToBool(Temp(0))
<1>1. ASSUME Eval("binary"), Then("eval", 1, "right") PROVE Serving'
  <2>1. AtPlain /\ Node.kind = "binary" /\ Promised(Top) = {}
    BY <1>1, AtKind
  <2>2. Node.kind \in KindsAt("right") /\ Node.kind \in PlainKinds
    BY <2>1, KindTable DEF PlainKinds
  <2> QED BY <1>1, <2>1, <2>2, NodeKids, HowNames, PlainNames, PlainGoes
<1>2. ASSUME At("right"), Then("eval", 2, "apply") PROVE Serving'
  <2>1. AtPlain /\ Promised(Top) = {} /\ Node.kind = "binary"
    BY <1>2, PlainNames, AtPoint, KindTable DEF DeclaringPoints
  <2>2. Node.kind \in KindsAt("apply") /\ Node.kind \in PlainKinds
    BY <2>1, PlainTop, KindTable DEF PlainKinds, Node
  <2> QED BY <1>2, <2>1, <2>2, NodeKids, HowNames, PlainNames, PlainGoes
<1>3. ASSUME At("right") \/ At("apply"),
             (\E v : Throw(v)) \/ (\E c : RaiseError(c)) \/ \E k, v : Yield(k, v)
      PROVE  Serving'
  <2>1. AtPlain /\ Promised(Top) = {}
    BY <1>3, PlainNames, AtPoint DEF DeclaringPoints
  <2> QED BY <1>3, <2>1, EndsServe, RaisesServe
<1> QED BY <1>1, <1>2, <1>3, Zenon DEF EvaluateBinary

LEMMA AssignmentServes == ASSUME From, EvaluateAssignment PROVE Serving'
<1>1. ASSUME Eval("assignment"), Then("eval", 2, "target") PROVE Serving'
  <2>1. AtPlain /\ Node.kind = "assignment" /\ Promised(Top) = {}
    BY <1>1, AtKind
  <2>2. Node.kind \in KindsAt("target") /\ Node.kind \in PlainKinds
    BY <2>1, KindTable DEF PlainKinds
  <2> QED BY <1>1, <2>1, <2>2, NodeKids, HowNames, PlainNames, PlainGoes
<1>2. ASSUME At("target"), Then("lval", 1, "store") PROVE Serving'
  <2>1. AtPlain /\ Promised(Top) = {} /\ Node.kind = "assignment"
    BY <1>2, PlainNames, AtPoint, KindTable DEF DeclaringPoints
  <2>2. Node.kind \in KindsAt("store") /\ Node.kind \in PlainKinds
    BY <2>1, PlainTop, KindTable DEF PlainKinds, Node
  <2> QED BY <1>2, <2>1, <2>2, NodeKids, HowNames, PlainNames, PlainGoes
<1>3. ASSUME At("store"), \E k, new, result : StoreYield(k, new, result) PROVE Serving'
  <2>1. AtPlain /\ Promised(Top) = {}
    BY <1>3, PlainNames, AtPoint DEF DeclaringPoints
  <2> QED BY <1>3, <2>1, EndsServe
<1> QED BY <1>1, <1>2, <1>3, Zenon DEF EvaluateAssignment

LEMMA UpdateServes ==
  ASSUME From, EvaluateUnary \/ EvaluatePostfix \/ Bump PROVE Serving'
<1>1. ASSUME Eval("unary"), Then("eval", 1, "unary") PROVE Serving'
  <2>1. AtPlain /\ Node.kind = "unary" /\ Promised(Top) = {}
    BY <1>1, AtKind
  <2>2. Node.kind \in KindsAt("unary") /\ Node.kind \in PlainKinds
    BY <2>1, KindTable DEF PlainKinds
  <2> QED BY <1>1, <2>1, <2>2, NodeKids, HowNames, PlainNames, PlainGoes
<1>2. ASSUME At("unary"), \E k, v : Yield(k, v) PROVE Serving'
  <2>1. AtPlain /\ Promised(Top) = {}
    BY <1>2, PlainNames, AtPoint DEF DeclaringPoints
  <2> QED BY <1>2, <2>1, EndsServe
<1>3. ASSUME At("unary"), Resume(1, Frame("operand", Top.node)) PROVE Serving'
  <2>1. AtPlain /\ Promised(Top) = {} /\ Node.kind = "unary" /\ Top.at = "unary"
    BY <1>3, PlainNames, AtPoint, KindTable DEF DeclaringPoints
  <2>2. Node.kind \in KindsAt("operand") /\ "operand" \in PlainPoints \ {"fields"}
        /\ Top.at \in PlainPoints
    BY <2>1, PlainNames, KindTable DEF AtPlain
  <2>3. /\ Belongs(Frame("operand", Top.node))
        /\ Rest(Frame("operand", Top.node)) \subseteq Rest(Top)
        /\ Promised(Top) = Promised(Frame("operand", Top.node))
    BY <2>1, <2>2, PlainBelongs
  <2> QED BY <1>3, <2>2, <2>3, ResumeServes
<1>4. ASSUME At("operand"), Then("lval", 1, "bump") PROVE Serving'
  <2>1. AtPlain /\ Promised(Top) = {} /\ Node.kind = "unary"
    BY <1>4, PlainNames, AtPoint, KindTable DEF DeclaringPoints
  <2>2. Node.kind \in KindsAt("bump") /\ Node.kind \in PlainKinds
    BY <2>1, KindTable DEF PlainKinds
  <2> QED BY <1>4, <2>1, <2>2, NodeKids, HowNames, PlainNames, PlainGoes
<1>5. ASSUME Eval("postfix"), Then("lval", 1, "bump") PROVE Serving'
  <2>1. AtPlain /\ Promised(Top) = {} /\ Node.kind = "postfix"
    BY <1>5, AtKind
  <2>2. Node.kind \in KindsAt("bump") /\ Node.kind \in PlainKinds
    BY <2>1, KindTable DEF PlainKinds
  <2> QED BY <1>5, <2>1, <2>2, NodeKids, HowNames, PlainNames, PlainGoes
<1>6. ASSUME At("bump"), \E k, new, result : StoreYield(k, new, result) PROVE Serving'
  <2>1. AtPlain /\ Promised(Top) = {}
    BY <1>6, PlainNames, AtPoint DEF DeclaringPoints
  <2> QED BY <1>6, <2>1, EndsServe
<1>7. CASE EvaluateUnary
  BY <1>7, <1>1, <1>2, <1>3, <1>4, Zenon DEF EvaluateUnary
<1>8. CASE EvaluatePostfix
  BY <1>8, <1>5 DEF EvaluatePostfix
<1>9. CASE Bump
  BY <1>9, <1>6, Zenon DEF Bump
<1> QED BY <1>7, <1>8, <1>9

LEMMA ListServes == ASSUME From, EvaluateList PROVE Serving'
<1>1. ASSUME Eval("list"), Resume(0, Frame("elements", Top.node)) PROVE Serving'
  <2>1. AtPlain /\ Promised(Top) = {} /\ Node.kind = "list"
    BY <1>1, AtKind
  <2>2. Node.kind \in KindsAt("elements") /\ "elements" \in PlainPoints \ {"fields"}
        /\ Top.at \in PlainPoints
    BY <2>1, PlainNames, KindTable DEF AtPlain
  <2>3. /\ Belongs(Frame("elements", Top.node))
        /\ Rest(Frame("elements", Top.node)) \subseteq Rest(Top)
        /\ Promised(Top) = Promised(Frame("elements", Top.node))
    BY <2>1, <2>2, PlainBelongs
  <2> QED BY <1>1, <2>2, <2>3, ResumeServes
<1>2. ASSUME At("elements"), ThenNext("eval", Node.kids) PROVE Serving'
  <2>1. AtPlain /\ Node.kind = "list" /\ Top.at = "elements" /\ Running
    BY <1>2, PlainNames, AtPoint, KindTable
  <2>2. /\ Top.node \in DOMAIN Ast /\ InProgram(Top.node) /\ Top.i \in Nat
        /\ Rest(Top) = Checker!Free[Top.node]
    BY <2>1, PlainTop
  <2> DEFINE i == Top.i + 1
             n == Node.kids[i]
  <2>3. DOMAIN Node.kids = 1 .. Len(Node.kids) /\ (\A j \in DOMAIN Node.kids : Node.kids[j] # None)
        /\ Node.kids \in Seq(Checker!Expr)
    BY <2>1, <2>2, KidShape, Checker!ListShape, ProgramsAssumption DEF Node
  <2>4. i \in DOMAIN Node.kids
    <3>1. Len(Node.kids) \in Nat /\ Top.i < Len(Node.kids)
      BY <1>2, <2>3 DEF ThenNext
    <3> QED BY <2>2, <2>3, <3>1
  <2> HIDE DEF i
  <2>5. n # None /\ InProgram(n) /\ Checker!Free[n] \subseteq Rest(Top)
    <3>1. n # None
      BY <2>3, <2>4
    <3>2. InProgram(n)
      BY <2>2, <2>4, <3>1, ChildInProgram DEF Node
    <3>3. FreeOf(n) \subseteq Checker!Free[Top.node]
      BY <2>1, <2>2, <2>4, ChildReads DEF Node, PlainKinds
    <3> QED BY <2>2, <3>1, <3>2, <3>3, FreeOfIs
  <2>6. Rest(Advanced) = Rest(Top)
    <3>1. Advanced.at = Top.at /\ Advanced.node = Top.node
      BY AdvancedIs
    <3>2. Advanced.at \in PlainPoints
      BY <2>1, <3>1 DEF AtPlain
    <3> QED BY <2>2, <3>1, <3>2, FrameReads
  <2> QED BY <1>2, <2>1, <2>3, <2>5, <2>6, ListGoes, HowNames DEF i
<1>3. ASSUME At("elements"), Finish, UNCHANGED scopes PROVE Serving'
  <2>1. AtPlain /\ Promised(Top) = {}
    BY <1>3, PlainNames, AtPoint DEF DeclaringPoints
  <2> QED BY <1>3, <2>1, QuietFinish DEF scopes
<1> QED BY <1>1, <1>2, <1>3 DEF EvaluateList

LEMMA LvalueServes ==
  ASSUME From, LvalueVariable \/ LvalueIndex \/ LvalueMember \/ LvalueOther PROVE Serving'
<1>1. ASSUME LvalueVariable PROVE Serving'
  <2>1. AtPlain /\ Promised(Top) = {}
    BY <1>1, AtKind DEF LvalueVariable, Lval, Exec, At
  <2> QED BY <1>1, <2>1, EndsServe, RaisesServe DEF LvalueVariable
<1>2. ASSUME Lval("index"), Then("lval", 1, "index") PROVE Serving'
  <2>1. AtPlain /\ Promised(Top) = {} /\ Node.kind = "index"
    BY <1>2, AtKind
  <2>2. Node.kind \in KindsAt("index") /\ Node.kind \in PlainKinds
    BY <2>1, KindTable DEF PlainKinds
  <2> QED BY <1>2, <2>1, <2>2, NodeKids, HowNames, PlainNames, PlainGoes
<1>3. ASSUME At("index"), Then("eval", 2, "element") PROVE Serving'
  <2>1. AtPlain /\ Promised(Top) = {} /\ Node.kind = "index"
    BY <1>3, PlainNames, AtPoint, KindTable DEF DeclaringPoints
  <2>2. Node.kind \in KindsAt("element") /\ Node.kind \in PlainKinds
    BY <2>1, PlainTop, KindTable DEF PlainKinds, Node
  <2> QED BY <1>3, <2>1, <2>2, NodeKids, HowNames, PlainNames, PlainGoes
<1>4. ASSUME Lval("member"), Then("lval", 1, "member") PROVE Serving'
  <2>1. AtPlain /\ Promised(Top) = {} /\ Node.kind = "member"
    BY <1>4, AtKind
  <2>2. Node.kind \in KindsAt("member") /\ Node.kind \in PlainKinds
    BY <2>1, PlainTop, KindTable DEF PlainKinds, Node
  <2> QED BY <1>4, <2>1, <2>2, NodeKids, HowNames, PlainNames, PlainGoes
<1>5. ASSUME At("element") \/ At("member"),
             \/ \E v : Throw(v)
             \/ \E m : Raise(m)
             \/ \E c : RaiseError(c)
             \/ \E k, x : Result(k, x)
      PROVE  Serving'
  <2>1. AtPlain /\ Promised(Top) = {}
    BY <1>5, PlainNames, AtPoint DEF DeclaringPoints
  <2> QED BY <1>5, <2>1, EndsServe, RaisesServe
<1>6. CASE LvalueIndex
  BY <1>6, <1>2, <1>3, <1>5 DEF LvalueIndex
<1>7. CASE LvalueMember
  BY <1>7, <1>4, <1>5 DEF LvalueMember
<1>8. CASE LvalueOther
  BY <1>8, RaisesServe DEF LvalueOther
<1> QED BY <1>1, <1>6, <1>7, <1>8

---------------------------------------------------------------------------
(* Declarations and blocks.                                                *)

LEMMA LeaveServes == ASSUME From, Leave, Promised(Top) = {} PROVE Serving'
<1>1. Finish
  BY DEF Leave
<1>2. current_depth_' = current_depth_ - ScopeOf(Top)
  <2>1. current_depth_ \in Nat
    BY ReadyFacts DEF From
  <2> QED BY <2>1 DEF Leave, EndsScope, PopScope, scopes, ScopeOf
<1> QED BY <1>1, <1>2, Popping

(* The name a var declaration defines is visible from then on.             *)
LEMMA DefineServes ==
  ASSUME From, AtPlain, NEW k, NEW v, Define(k, v) PROVE Serving'
<1> DEFINE e == Entry(Node.name, v, current_depth_)
           n == Len(entries_)
<1>1. /\ entries_' = Append(entries_, e) /\ Finish /\ current_depth_' = current_depth_
  BY DEF Define, Defined, DefineEntry
<1>2. PICK N, V : entries_ \in Seq(EntriesOver(N, V))
  BY ReadyFacts DEF From, IsTable
<1> DEFINE S == EntriesOver(N, V) \cup {e}
<1>3. n + 1 \in DOMAIN entries_' /\ entries_'[n + 1] = e
  <2>1. entries_ \in Seq(S) /\ e \in S
    <3>1. EntriesOver(N, V) \subseteq S /\ e \in S
      OBVIOUS
    <3> HIDE DEF S, e
    <3> QED BY <1>2, <3>1, SeqMonotonic
  <2> HIDE DEF S, e
  <2> QED BY <1>1, <2>1, AppendProperties
<1>4. e.name = Node.name /\ e.scope_depth = current_depth_
  BY DEF Entry
<1> HIDE DEF e, n
<1>5. current_depth_ \in Nat
  BY ReadyFacts DEF From
<1>6. Node.name \in Visible(entries_', current_depth_')
  BY <1>1, <1>3, <1>4, <1>5 DEF Visible
<1>7. Promised(Top) \subseteq {Node.name} /\ ScopeOf(Top) = 0
  BY PlainTop DEF Checker!Declared, Node
<1>8. /\ current_depth_' = current_depth_ - ScopeOf(Top)
      /\ Promised(Top) \subseteq Visible(entries_', current_depth_')
  BY <1>1, <1>5, <1>6, <1>7
<1>9. \E kk, vv : Define(kk, vv)
  OBVIOUS
<1> QED BY <1>1, <1>8, <1>9, Popping

LEMMA VarServes == ASSUME From, ExecuteVar PROVE Serving'
<1>1. ASSUME Exec("var"), ListForStruct, Resume(0, Frame("fields", Top.node)) PROVE Serving'
  <2> DEFINE f == Frame("fields", Top.node)
  <2>1. AtPlain /\ Node.kind = "var" /\ Top.at = "exec" /\ Top.at \in PlainPoints
    BY <1>1, AtKind DEF Exec, At, AtPlain
  <2>2. f.at = "fields" /\ f.node = Top.node
    BY NewFrameIs
  <2>3. Belongs(f)
    <3>1. Ast[f.node].kind \in KindsAt(f.at) /\ InProgram(f.node)
      BY <2>1, <2>2, PlainTop, KindTable DEF Node
    <3>2. Ast[f.node].kids[1] # None /\ Ast[Ast[f.node].kids[1]].kind = "list"
      BY <1>1, <2>2 DEF ListForStruct, Has, Kid, Node
    <3> HIDE DEF f
    <3> QED BY <2>2, <3>1, <3>2 DEF Belongs
  <2>4. Promised(Top) = Promised(f) /\ Rest(f) = Rest(Top)
    <3>1. f.at \in PlainPoints /\ f.at \in DeclaringPoints /\ Top.at \in DeclaringPoints
      BY <2>1, <2>2 DEF PlainPoints, DeclaringPoints
    <3> HIDE DEF f
    <3> QED BY <2>1, <2>2, <3>1, FrameReads
  <2>5. "fields" \in PlainPoints
    BY DEF PlainPoints
  <2> QED BY <1>1, <2>1, <2>3, <2>4, <2>5, ResumeServes
<1>2. ASSUME Exec("var"), Has(1), Then("eval", 1, "define") PROVE Serving'
  <2>1. AtPlain /\ Node.kind = "var"
    BY <1>2, AtKind
  <2>2. /\ Node.kind \in KindsAt("define") /\ Node.kind \in PlainKinds
        /\ "define" \in DeclaringPoints /\ Top.at \in DeclaringPoints
        /\ 1 \in DOMAIN Node.kids
    BY <1>2, <2>1, PlainTop, KindTable, NodeKids DEF PlainKinds, Node, DeclaringPoints, Exec, At
  <2> QED BY <1>2, <2>1, <2>2, HowNames, PlainNames, PlainGoes DEF Has
<1>3. ASSUME At("define") \/ At("fields") \/ Exec("var"), \E k, v : Define(k, v) PROVE Serving'
  <2>1. AtPlain
    BY <1>3, AtFacts DEF From, Ready, PlainPoints
  <2> QED BY <1>3, <2>1, DefineServes
<1>4. ASSUME At("fields"), ThenNext("eval", Ast[Kid(1)].kids) PROVE Serving'
  <2> DEFINE l == Kid(1)
             nodes == Ast[l].kids
             i == Top.i + 1
             n == nodes[i]
  <2>1. AtPlain /\ Running /\ Top.at = "fields" /\ Node.kind = "var"
    <3>1. "fields" \in PlainPoints
      BY DEF PlainPoints
    <3> QED BY <1>4, <3>1, AtPoint, KindTable
  <2>2. /\ Top.node \in DOMAIN Ast /\ InProgram(Top.node) /\ Top.i \in Nat
        /\ Rest(Top) = Checker!Free[Top.node] /\ Belongs(Top)
    BY <2>1, PlainTop
  <2>3. l # None /\ Ast[l].kind = "list" /\ 1 \in DOMAIN Node.kids
    BY <2>1, <2>2, NodeKids DEF Belongs, Kid, Node
  <2>4. InProgram(l) /\ l \in DOMAIN Ast /\ Checker!Free[l] \subseteq Rest(Top)
    <3>1. InProgram(l)
      BY <2>2, <2>3, ChildInProgram DEF Kid, Node
    <3>2. FreeOf(l) \subseteq Checker!Free[Top.node]
      BY <2>1, <2>2, <2>3, ChildReads DEF Kid, Node, PlainKinds
    <3> QED BY <2>2, <2>3, <3>1, <3>2, FreeOfIs DEF InProgram
  <2> HIDE DEF l
  <2>5. DOMAIN nodes = 1 .. Len(nodes) /\ (\A j \in DOMAIN nodes : nodes[j] # None)
        /\ nodes \in Seq(Checker!Expr)
    BY <2>3, <2>4, KidShape, Checker!ListShape, ProgramsAssumption
  <2>6. i \in DOMAIN nodes
    <3>1. Len(nodes) \in Nat /\ Top.i < Len(nodes)
      BY <1>4, <2>5 DEF ThenNext, l
    <3> QED BY <2>2, <2>5, <3>1
  <2> HIDE DEF i
  <2>7. n # None /\ InProgram(n) /\ Checker!Free[n] \subseteq Rest(Top)
    <3>1. n # None
      BY <2>5, <2>6
    <3>2. InProgram(n)
      BY <2>4, <2>6, <3>1, ChildInProgram
    <3>3. FreeOf(n) \subseteq Checker!Free[l]
      BY <2>3, <2>4, <2>6, ChildReads DEF PlainKinds
    <3> QED BY <2>4, <3>1, <3>2, <3>3, FreeOfIs
  <2>8. Rest(Advanced) = Rest(Top)
    <3>1. Advanced.at = Top.at /\ Advanced.node = Top.node
      BY AdvancedIs
    <3>2. Advanced.at \in PlainPoints
      BY <2>1, <3>1 DEF AtPlain
    <3> QED BY <2>2, <3>1, <3>2, FrameReads
  <2>9. ThenNext("eval", nodes)
    BY <1>4 DEF l
  <2> QED BY <2>1, <2>5, <2>7, <2>8, <2>9, ListGoes, HowNames DEF i
<1> QED BY <1>1, <1>2, <1>3, <1>4 DEF ExecuteVar

---------------------------------------------------------------------------

LEMMA BlockServes == ASSUME From, ExecuteBlock PROVE Serving'
<1>1. ASSUME Exec("block"), Become(Frame("block", Top.node)),
             IF HasDeclarations(Top.node) THEN PushScope ELSE UNCHANGED scopes
      PROVE  Serving'
  <2> DEFINE f == Frame("block", Top.node)
  <2>1. AtPlain /\ Node.kind = "block" /\ Promised(Top) = {}
    BY <1>1, AtKind
  <2>2. /\ Top.node \in DOMAIN Ast /\ InProgram(Top.node) /\ ScopeOf(Top) = 0
        /\ f.at = "block" /\ f.node = Top.node /\ f.i = 0
    BY <2>1, PlainTop, NewFrameIs
  <2> HIDE DEF f
  <2>3. /\ current_depth_ \in Nat /\ ScopeOf(f) \in {0, 1}
        /\ current_depth_' = current_depth_ + ScopeOf(f)
    <3>1. ScopeOf(f) = IF HasDeclarations(Top.node) THEN 1 ELSE 0
      BY <2>2, Holding
    <3>2. current_depth_ \in Nat
      BY ReadyFacts DEF From
    <3> QED BY <1>1, <3>1, <3>2 DEF PushScope, scopes
  <2>4. Belongs(f)
    BY <2>1, <2>2, KindTable DEF Belongs, Node
  <2>8. Promised(f) = {} /\ Top.at # "interpret"
    BY <2>1, <2>2, FrameReads DEF AtPlain, PlainPoints
  <2>5. Placed(f) /\ current_depth_ <= current_depth_'
    BY <2>1, <2>2, <2>3, <2>4, <2>8 DEF Placed
  <2>6. Rest(f) = Checker!Free[Top.node]
    BY <2>1, <2>2, FrameReads, BlockReads DEF Node
  <2>7. Rest(f) \subseteq Visible(entries_', current_depth_') \cup Globals
    BY <2>1, <2>5, <2>6, PlainTop
  <2> QED BY <1>1, <2>5, <2>7, <2>8, Becoming DEF f
<1> DEFINE nodes == Node.kids
           i == Top.i
           n == nodes[i + 1]
<1>2. ASSUME At("block")
      PROVE  /\ Running /\ Top.at = "block" /\ Top.node \in DOMAIN Ast /\ InProgram(Top.node)
             /\ Node.kind = "block" /\ Promised(Top) = {} /\ Rest(Top) = RestOf(nodes, i)
             /\ nodes \in Seq(DOMAIN Ast) /\ i \in Nat
  <2>1. Running /\ Top.at = "block"
    BY <1>2, AtFacts DEF From, Ready
  <2>2. /\ Top.node \in DOMAIN Ast /\ InProgram(Top.node) /\ Ast[Top.node].kind = "block"
        /\ i \in Nat
    BY <2>1, TopReads, KindTable
  <2> QED BY <2>1, <2>2, FrameReads, BlockReads DEF Node
<1>3. ASSUME At("block"), ThenNext("exec", nodes) PROVE Serving'
  <2>1. i < Len(nodes)
    BY <1>3 DEF ThenNext
  <2>2. i + 1 \in DOMAIN nodes
    BY <1>2, <1>3, <2>1
  <2>3. n # None /\ n \in DOMAIN Ast
    BY <1>2, <1>3, <2>2, Checker!KindFacts, ProgramsAssumption, SameNone
  <2>4. InProgram(n)
    BY <1>2, <1>3, <2>2, <2>3, ChildInProgram DEF Node
  <2>5. /\ FreeOf(n) \subseteq Rest(Top)
        /\ RestOf(nodes, i + 1) \subseteq Rest(Top) \cup Checker!Declared(n)
    <3> HIDE DEF nodes, i
    <3> QED BY <1>2, <1>3, <2>1, RestOfNext
  <2>6. Rest(Advanced) = RestOf(nodes, i + 1)
    BY <1>2, <1>3, AdvancedIs, FrameReads DEF Node
  <2>7. /\ ThenNext("exec", nodes) /\ InProgram(nodes[Top.i + 1])
        /\ Rest(Advanced) \subseteq Rest(Top)
             \cup (IF "exec" = "exec" THEN Checker!Declared(nodes[Top.i + 1]) ELSE {})
        /\ Checker!Free[nodes[Top.i + 1]] \subseteq Rest(Top)
    BY <1>3, <2>3, <2>4, <2>5, <2>6, FreeOfIs
  <2>8. Top.at # "interpret"
    BY <1>2, <1>3
  <2>9. HoldsScope(Top) \/ Checker!Declared(nodes[Top.i + 1]) = {}
    <3>1. Checker!Declared(n) # {} => Ast[n].kind = "var"
      BY NotDeclaring
    <3>2. Ast[n].kind = "var" => HasDeclarations(Top.node)
      BY <2>2 DEF HasDeclarations, Node
    <3> QED BY <1>2, <1>3, <3>1, <3>2 DEF HoldsScope
  <2> HIDE DEF nodes
  <2> QED BY <2>7, <2>8, <2>9, HowNames, ThenNextServes
<1>4. ASSUME At("block"), Leave PROVE Serving'
  BY <1>2, <1>4, LeaveServes
<1> QED BY <1>1, <1>3, <1>4 DEF ExecuteBlock

---------------------------------------------------------------------------
(* Loops, and the statements of the program.                               *)

LEMMA LoopTop ==
  ASSUME From, NEW p \in LoopPoints, At(p)
  PROVE  /\ Running /\ Top.at = p /\ Top.node \in DOMAIN Ast /\ InProgram(Top.node)
         /\ Node.kind \in {"while", "for"} /\ Promised(Top) = {}
         /\ Rest(Top) = Checker!HeadFree(Top.node)
         /\ \A q \in LoopPoints : /\ Belongs(Frame(q, Top.node))
                                  /\ Rest(Frame(q, Top.node)) = Rest(Top)
                                  /\ Promised(Frame(q, Top.node)) = {}
<1>1. Running /\ Top.at = p
  BY AtFacts DEF From, Ready
<1>2. p # "interpret" /\ \A q \in LoopPoints : q \notin {"fields", "body", "interpret"}
  BY DEF LoopPoints
<1>3. /\ Top.node \in DOMAIN Ast /\ InProgram(Top.node) /\ Ast[Top.node].kind \in {"while", "for"}
  BY <1>1, <1>2, TopReads, KindTable
<1>4. Rest(Top) = Checker!HeadFree(Top.node) /\ Promised(Top) = {}
  BY <1>1, FrameReads
<1>5. ASSUME NEW q \in LoopPoints
      PROVE  /\ Belongs(Frame(q, Top.node)) /\ Rest(Frame(q, Top.node)) = Rest(Top)
             /\ Promised(Frame(q, Top.node)) = {}
  <2> DEFINE f == Frame(q, Top.node)
  <2>1. f.at = q /\ f.node = Top.node
    BY NewFrameIs
  <2> HIDE DEF f
  <2>2. Belongs(f)
    BY <1>2, <1>3, <2>1, KindTable DEF Belongs
  <2>3. Rest(f) = Rest(Top) /\ Promised(f) = {}
    BY <1>4, <2>1, FrameReads
  <2> QED BY <2>2, <2>3 DEF f
<1> QED BY <1>1, <1>3, <1>4, <1>5 DEF Node

LEMMA LoopGoes ==
  ASSUME From, NEW p \in LoopPoints, At(p), NEW q \in LoopPoints, NEW how \in Hows,
         NEW k \in {2, 3, 4}, Has(k), Then(how, k, q)
  PROVE  Serving'
<1>1. /\ Top.at = p /\ Top.node \in DOMAIN Ast /\ InProgram(Top.node) /\ Promised(Top) = {}
      /\ Node.kind \in {"while", "for"} /\ Rest(Top) = Checker!HeadFree(Top.node)
      /\ Belongs(Frame(q, Top.node)) /\ Rest(Frame(q, Top.node)) = Rest(Top)
      /\ Promised(Frame(q, Top.node)) = {}
  BY LoopTop
<1>2. k \in DOMAIN Node.kids /\ FreeOf(Kid(k)) \subseteq Rest(Top)
  BY <1>1, LoopReads DEF Node, Kid
<1>3. InProgram(Kid(k))
  BY <1>1, <1>2, ChildInProgram DEF Node, Kid, Has
<1>4. Checker!Free[Kid(k)] \subseteq Rest(Top)
  BY <1>2, FreeOfIs DEF Has
<1>5. Promised(Top) = Promised(Frame(q, Top.node))
      /\ Rest(Frame(q, Top.node)) \subseteq Rest(Top)
  BY <1>1
<1> QED BY <1>1, <1>3, <1>4, <1>5, ThenServes

LEMMA LoopResumes ==
  ASSUME From, NEW p \in LoopPoints, At(p), NEW q \in LoopPoints,
         NEW k, Resume(k, Frame(q, Top.node))
  PROVE  Serving'
<1>1. /\ Top.at = p /\ Promised(Top) = {}
      /\ Belongs(Frame(q, Top.node)) /\ Rest(Frame(q, Top.node)) = Rest(Top)
      /\ Promised(Frame(q, Top.node)) = {}
  BY LoopTop
<1>2. Promised(Top) = Promised(Frame(q, Top.node))
      /\ Rest(Frame(q, Top.node)) \subseteq Rest(Top)
  BY <1>1
<1> QED BY <1>1, <1>2, ResumeServes

LEMMA LoopNames ==
  LoopPoints = {"condition", "decide", "enter", "increment", "again"}
BY DEF LoopPoints

LEMMA LoopServes ==
  ASSUME From, ExecuteLoop \/ LoopDecide \/ LoopNext PROVE Serving'
<1>1. CASE ExecuteLoop
  <2> DEFINE f == Frame("condition", Top.node)
             g == Frame("exec", Kid(1))
  <2>1. AtPlain /\ Node.kind \in {"while", "for"} /\ Promised(Top) = {}
    BY <1>1, AtKind DEF ExecuteLoop
  <2>2. /\ Top.node \in DOMAIN Ast /\ InProgram(Top.node) /\ ScopeOf(Top) = 0
        /\ f.at = "condition" /\ f.node = Top.node /\ "condition" \in LoopPoints
    BY <2>1, PlainTop, NewFrameIs, LoopNames
  <2> HIDE DEF f
  <2>3. /\ Belongs(f) /\ ScopeOf(f) = 1 /\ Rest(f) = Checker!HeadFree(Top.node)
        /\ Promised(f) = {}
    BY <2>1, <2>2, KindTable, Holding, FrameReads DEF Belongs, Node
  <2>4. current_depth_ \in Nat /\ current_depth_' = current_depth_ + 1
    BY <1>1, ReadyFacts DEF From, ExecuteLoop, PushScope
  <2>5. Placed(f) /\ current_depth_ <= current_depth_'
    BY <2>1, <2>2, <2>3, <2>4 DEF Placed
  <2>6. Checker!Free[Top.node] \subseteq Visible(entries_', current_depth_') \cup Globals
    BY <2>1, <2>5, PlainTop
  <2>7. /\ 1 \in DOMAIN Node.kids /\ FreeOf(Kid(1)) \subseteq Checker!Free[Top.node]
        /\ Rest(f) \subseteq Checker!Free[Top.node] \cup Checker!Declared(Kid(1))
    BY <2>1, <2>2, <2>3, LoopReads DEF Node, Kid
  <2>10. Top.at # "interpret" /\ HoldsScope(f)
    BY <2>1, <2>2 DEF AtPlain, PlainPoints, HoldsScope
  <2>8. CASE Has(1)
    <3>1. InProgram(Kid(1))
      BY <2>2, <2>7, <2>8, ChildInProgram DEF Has, Kid, Node
    <3>2. /\ Belongs(g) /\ ScopeOf(g) = 0 /\ Promised(g) = Checker!Declared(Kid(1))
          /\ Rest(g) = Checker!Free[Kid(1)] /\ g.at # "interpret"
      BY <3>1, HowNames, CalledBelongs
    <3>3. Rest(g) \subseteq Checker!Free[Top.node]
      BY <2>7, <2>8, <3>2, FreeOfIs DEF Has
    <3>4. BecomeThen(f, g)
      BY <1>1, <2>8 DEF ExecuteLoop, f
    <3> HIDE DEF g
    <3>5. /\ Rest(f) \subseteq Visible(entries_', current_depth_') \cup Globals \cup Promised(g)
          /\ Rest(g) \subseteq Visible(entries_', current_depth_') \cup Globals
      BY <2>6, <2>7, <3>2, <3>3
    <3>6. Awaits(f, Promised(g))
      BY <2>10 DEF Awaits
    <3> QED BY <2>5, <2>10, <3>2, <3>4, <3>5, <3>6, CallingOn
  <2>9. CASE ~ Has(1)
    <3>1. Become(f)
      BY <1>1, <2>9 DEF ExecuteLoop, f
    <3>2. Checker!Declared(Kid(1)) = {}
      BY <2>9, NotDeclaring DEF Has
    <3>3. Rest(f) \subseteq Visible(entries_', current_depth_') \cup Globals
      BY <2>6, <2>7, <3>2
    <3> QED BY <2>5, <2>10, <3>1, <3>3, Becoming
  <2> QED BY <2>8, <2>9
<1>2. CASE LoopDecide
  <2>1. At("decide") /\ "decide" \in LoopPoints /\ "enter" \in LoopPoints
    BY <1>2, LoopNames DEF LoopDecide
  <2>2. \/ \E v : Throw(v)
        \/ Resume(1, Frame("enter", Top.node))
        \/ Leave
    BY <1>2 DEF LoopDecide
  <2>3. ASSUME Leave PROVE Serving'
    BY <2>1, <2>3, LoopTop, LeaveServes
  <2> QED BY <2>1, <2>2, <2>3, RaisesServe, LoopResumes
<1>3. CASE LoopNext
  <2>1. ASSUME At("condition"), Has(2), Then("eval", 2, "decide") PROVE Serving'
    BY <2>1, LoopNames, HowNames, LoopGoes
  <2>2. ASSUME At("condition"), Resume(0, Frame("enter", Top.node)) PROVE Serving'
    BY <2>2, LoopNames, LoopResumes
  <2>3. ASSUME At("enter"), Then("exec", 4, "increment") PROVE Serving'
    <3>1. "enter" \in LoopPoints /\ "increment" \in LoopPoints
      BY LoopNames
    <3>2. Has(4)
      BY <2>3, <3>1, LoopTop, LoopReads DEF Has, Kid, Node
    <3> QED BY <2>3, <3>1, <3>2, HowNames, LoopGoes
  <2>4. ASSUME At("increment"), HasIncrement, Then("eval", 3, "again") PROVE Serving'
    BY <2>4, LoopNames, HowNames, LoopGoes DEF HasIncrement
  <2>5. ASSUME At("increment"), Resume(0, Frame("condition", Top.node)) PROVE Serving'
    BY <2>5, LoopNames, LoopResumes
  <2>6. ASSUME At("again"), Resume(1, Frame("condition", Top.node)) PROVE Serving'
    BY <2>6, LoopNames, LoopResumes
  <2> QED BY <1>3, <2>1, <2>2, <2>3, <2>4, <2>5, <2>6 DEF LoopNext
<1> QED BY <1>1, <1>2, <1>3

---------------------------------------------------------------------------
(* What the checker has established of an accepted program.                *)
Vetted ==
  /\ Checker!Ground /\ Checker!Closed
  /\ \A n \in Checker!Text(program) : Checker!CallFits(n)

LEMMA StatementFacts ==
  ASSUME Vetted
  PROVE  /\ program \in Seq(DOMAIN Ast)
         /\ \A i \in DOMAIN program : /\ program[i] # None /\ InProgram(program[i])
                                      /\ Checker!Free[program[i]] \subseteq Globals
<1>1. program \in Seq(DOMAIN Ast)
  <2>1. program \in Programs
    BY DEF Vetted, Checker!Ground
  <2> QED BY <2>1, Checker!ProgramShape, ProgramsAssumption
<1>2. ASSUME NEW i \in DOMAIN program
      PROVE  /\ program[i] # None /\ InProgram(program[i])
             /\ Checker!Free[program[i]] \subseteq Globals
  <2>1. program[i] \in DOMAIN Ast /\ DOMAIN program = 1 .. Len(program) /\ Len(program) \in Nat
    BY <1>1, <1>2
  <2>2. program[i] # None
    BY <2>1, Checker!KindFacts, ProgramsAssumption, SameNone
  <2>3. Checker!Within[program[i]] \subseteq Checker!Text(program)
    BY <1>2, Checker!ProgramInText, ProgramsAssumption
  <2>4. Checker!Free[program[i]] \subseteq
          UNION {Checker!Declared(program[j]) : j \in 1 .. i - 1}
    BY <1>2 DEF Vetted, Checker!Closed
  <2>5. 1 .. i - 1 \subseteq DOMAIN program
    BY <1>2, <2>1
  <2> HIDE DEF Checker!Free
  <2>6. Checker!Free[program[i]] \subseteq Globals
    BY <2>4, <2>5 DEF Globals
  <2> QED BY <2>1, <2>2, <2>3, <2>6 DEF InProgram
<1> QED BY <1>1, <1>2

LEMMA InterpretServes == ASSUME From, Vetted, Interpret PROVE Serving'
<1>1. Running /\ Top.at = "interpret"
  BY AtFacts DEF From, Ready, Interpret
<1>2. /\ Promised(Top) = {} /\ ScopeOf(Top) = 0 /\ current_depth_ \in Nat
  BY <1>1, FrameReads, Holding, ReadyFacts DEF From
<1> DEFINE f == Advanced
           n == program[Top.i + 1]
           g == Frame("exec", n)
           D == Checker!Declared(n)
<1>3. f.at = "interpret" /\ Top.i \in Nat /\ f.i = Top.i + 1
  BY <1>1, AdvancedIs
<1> HIDE DEF f
<1>4. Rest(f) = {} /\ Promised(f) = {} /\ ScopeOf(f) = 0 /\ Belongs(f)
  BY <1>3, FrameReads, Holding DEF Belongs
<1>5. UNCHANGED current_depth_ => Placed(f)
  BY <1>1, <1>2, <1>4 DEF Placed
<1>9. \A p : Executed(<<f>>, p) = IF p # {} THEN Top.i ELSE Top.i + 1
  <2>1. <<f>>[1] = f /\ Len(<<f>>) = 1
    OBVIOUS
  <2> SUFFICES ASSUME NEW p PROVE Executed(<<f>>, p) = IF p # {} THEN Top.i ELSE Top.i + 1
    OBVIOUS
  <2>2. Executed(<<f>>, p) = f.i - (IF p # {} THEN 1 ELSE 0)
    BY <2>1 DEF Executed, UnderWay
  <2> QED BY <1>3, <2>2
<1>10. Checker!Lists(entries_, Top.i)
  BY <1>1, TopNests
<1>11. UNCHANGED entries_ => Checker!Lists(entries_', Executed(<<f>>, D))
  <2> SUFFICES ASSUME UNCHANGED entries_ PROVE Checker!Lists(entries_', Executed(<<f>>, D))
    OBVIOUS
  <2>1. CASE D # {}
    BY <1>9, <1>10, <2>1
  <2>2. CASE D = {}
    <3>1. PICK i, es : i = Top.i /\ es = entries_
      OBVIOUS
    <3>2. i \in Nat /\ Len(es) \in Nat /\ Checker!Lists(es, i)
          /\ Checker!Declared(program[i + 1]) = {}
      BY <1>3, <1>10, <2>2, <3>1, TableLengths
    <3>3. Checker!Lists(es, i + 1)
      BY <3>2, Checker!ListsSkip, ProgramsAssumption
    <3> QED BY <1>9, <2>2, <3>1, <3>3
  <2> QED BY <2>1, <2>2
<1>6. ASSUME Ast[n].kind = "func", Resume(0, f) PROVE Serving'
  <2>1. Become(f) /\ Placed(f) /\ UNCHANGED entries_
    BY <1>5, <1>6 DEF Resume, Stay, scopes
  <2>2. Rest(f) \subseteq Visible(entries_', current_depth_') \cup Globals
    BY <1>4
  <2>3. Checker!Lists(entries_', Executed(<<f>>, {}))
    <3>1. D = {}
      BY <1>6, NotDeclaring
    <3> QED BY <1>11, <2>1, <3>1
  <2> QED BY <2>1, <2>2, <2>3, Becoming
<1>7. ASSUME ThenNext("exec", program) PROVE Serving'
  <2>1. program \in Seq(DOMAIN Ast) /\ Top.i < Len(program)
    BY <1>7, StatementFacts DEF ThenNext
  <2>2. Top.i + 1 \in DOMAIN program /\ Top.i + 1 \in 1 .. Len(program)
    BY <1>3, <2>1
  <2>3. InProgram(n) /\ Checker!Free[n] \subseteq Globals
    BY <2>2, StatementFacts
  <2>4. /\ Belongs(g) /\ ScopeOf(g) = 0 /\ Rest(g) = Checker!Free[n]
        /\ g.at # "interpret" /\ Promised(g) = D
    BY <2>3, HowNames, CalledBelongs
  <2>5. BecomeThen(f, g) /\ Placed(f) /\ UNCHANGED entries_
    BY <1>5, <1>7 DEF ThenNext, Stay, scopes, f
  <2> HIDE DEF g
  <2>6. /\ Rest(f) \subseteq Visible(entries_', current_depth_') \cup Globals \cup Promised(g)
        /\ Rest(g) \subseteq Visible(entries_', current_depth_') \cup Globals
    BY <1>4, <2>3, <2>4
  <2>7. Awaits(f, Promised(g))
    BY <1>3, <2>2, <2>4 DEF Awaits
  <2>8. Checker!Lists(entries_', Executed(<<f>>, Promised(g)))
    BY <1>11, <2>4, <2>5
  <2> QED BY <2>4, <2>5, <2>6, <2>7, <2>8, CallingOn
<1>8. ASSUME Finish, Stay PROVE Serving'
  <2>1. current_depth_' = current_depth_ - ScopeOf(Top)
    BY <1>2, <1>8 DEF Stay, scopes
  <2> QED BY <1>2, <1>8, <2>1, Popping
<1> QED BY <1>6, <1>7, <1>8 DEF Interpret, f

---------------------------------------------------------------------------
(* Calls.                                                                  *)

LEMMA CallTop ==
  ASSUME From, NEW p \in CallPoints, At(p)
  PROVE  /\ Running /\ Top.at = p /\ Top.node \in DOMAIN Ast /\ InProgram(Top.node)
         /\ Node.kind = "call" /\ Promised(Top) = {} /\ Belongs(Top) /\ Top.i \in Nat
<1>1. Running /\ Top.at = p
  BY AtFacts DEF From, Ready
<1>2. p \in {"arguments", "body"}
  BY DEF CallPoints
<1>3. /\ Top.node \in DOMAIN Ast /\ InProgram(Top.node) /\ Ast[Top.node].kind = "call"
      /\ Belongs(Top) /\ Top.i \in Nat
  BY <1>1, <1>2, TopReads, KindTable
<1> QED BY <1>1, <1>3, FrameReads DEF Node

LEMMA CallNames == CallPoints = {"arguments", "body"}
BY DEF CallPoints

LEMMA EvaluateCallServes == ASSUME From, EvaluateCall PROVE Serving'
<1>1. ASSUME Eval("call"), Become(Frame("arguments", Top.node)), UNCHANGED scopes
      PROVE  Serving'
  <2> DEFINE f == Frame("arguments", Top.node)
  <2>1. AtPlain /\ Node.kind = "call" /\ Promised(Top) = {}
    BY <1>1, AtKind
  <2>2. /\ Top.node \in DOMAIN Ast /\ InProgram(Top.node) /\ ScopeOf(Top) = 0
        /\ f.at = "arguments" /\ f.node = Top.node
    BY <2>1, PlainTop, NewFrameIs
  <2> HIDE DEF f
  <2>3. /\ Belongs(f) /\ ScopeOf(f) = 0 /\ Rest(f) = Checker!Free[Top.node]
        /\ Promised(f) = {}
    BY <2>1, <2>2, KindTable, Holding, FrameReads, CallNames DEF Belongs, Node
  <2>7. Top.at # "interpret"
    BY <2>1 DEF AtPlain, PlainPoints
  <2>4. current_depth_ \in Nat /\ current_depth_' = current_depth_
    BY <1>1, ReadyFacts DEF From, scopes
  <2>5. Placed(f) /\ current_depth_ <= current_depth_'
    BY <2>1, <2>2, <2>3, <2>4 DEF Placed
  <2>6. Rest(f) \subseteq Visible(entries_', current_depth_') \cup Globals
    BY <2>1, <2>3, <2>5, PlainTop
  <2> QED BY <1>1, <2>5, <2>6, <2>7, Becoming DEF f
<1>2. ASSUME At("arguments"), ThenNext("eval", Node.kids) PROVE Serving'
  <2>1. /\ Running /\ Top.at = "arguments" /\ Top.node \in DOMAIN Ast /\ InProgram(Top.node)
        /\ Node.kind = "call" /\ Top.i \in Nat
    BY <1>2, CallTop, CallNames
  <2>2. Rest(Top) = Checker!Free[Top.node]
    BY <2>1, FrameReads
  <2> DEFINE i == Top.i + 1
             n == Node.kids[i]
  <2>3. DOMAIN Node.kids = 1 .. Len(Node.kids) /\ (\A j \in DOMAIN Node.kids : Node.kids[j] # None)
        /\ Node.kids \in Seq(Checker!Expr)
    BY <2>1, KidShape, Checker!ListShape, ProgramsAssumption DEF Node
  <2>4. i \in DOMAIN Node.kids
    <3>1. Len(Node.kids) \in Nat /\ Top.i < Len(Node.kids)
      BY <1>2, <2>3 DEF ThenNext
    <3> QED BY <2>1, <2>3, <3>1
  <2> HIDE DEF i
  <2>5. n # None /\ InProgram(n) /\ Checker!Free[n] \subseteq Rest(Top)
    <3>1. n # None
      BY <2>3, <2>4
    <3>2. InProgram(n)
      BY <2>1, <2>4, <3>1, ChildInProgram DEF Node
    <3>3. FreeOf(n) \subseteq Checker!Free[Top.node]
      BY <2>1, <2>4, ChildReads DEF Node, PlainKinds
    <3> QED BY <2>2, <3>1, <3>2, <3>3, FreeOfIs
  <2>6. Rest(Advanced) = Rest(Top)
    BY <2>1, <2>2, AdvancedIs, FrameReads
  <2> QED BY <1>2, <2>1, <2>3, <2>5, <2>6, ListGoes, HowNames DEF i
<1> QED BY <1>1, <1>2, RaisesServe DEF EvaluateCall, Overflow

LEMMA BuiltinServes == ASSUME From, CallBuiltin PROVE Serving'
<1>1. Promised(Top) = {}
  BY CallTop, CallNames DEF CallBuiltin, Invoke
<1>2. Leave \/ \E c : RaiseError(c)
  BY DEF CallBuiltin
<1> QED BY <1>1, <1>2, RaisesServe, LeaveServes

(* The function that an accepted call enters is one of the program's, and  *)
(* takes as many arguments as there are.                                   *)
LEMMA CalledFunction ==
  ASSUME From, Vetted, Invoke("func")
  PROVE  /\ \E i \in DOMAIN program : /\ registry_[Node.name] = program[i]
                                      /\ Ast[program[i]].kind = "func"
         /\ DOMAIN Callee.params = 1 .. Top.i
<1>1. /\ Top.node \in DOMAIN Ast /\ InProgram(Top.node) /\ Node.kind = "call"
      /\ Top.i = Len(Node.kids)
  BY CallTop, CallNames DEF Invoke
<1>2. Top.node \in Checker!Text(program)
  BY <1>1, Checker!KidsInText, ProgramsAssumption DEF InProgram
<1>3. /\ Node.name \in DOMAIN registry_
      /\ Len(Callee.params) = Top.i
  BY <1>1, <1>2 DEF Vetted, Checker!CallFits, Node, Callee
<1>4. \/ registry_[Node.name] \in Builtins
      \/ \E i \in DOMAIN program : registry_[Node.name] = program[i]
  BY <1>3, Checker!RegistryFacts, ProgramsAssumption DEF Vetted
<1>5. Callee.kind = "func" /\ Callee = Ast[registry_[Node.name]]
  BY DEF Invoke, Callee
<1>6. \A n \in Builtins : n \in DOMAIN Ast /\ Ast[n].kind = "builtin"
  BY ProgramsAssumption DEF Checker!AstAssumption, Checker!OfKind
<1>7. PICK i \in DOMAIN program : registry_[Node.name] = program[i]
  BY <1>4, <1>5, <1>6
<1>8. program[i] \in DOMAIN Ast
  BY StatementFacts
<1>9. \E S : Callee.params \in Seq(S)
  BY <1>5, <1>7, <1>8, Checker!ParamShape, ProgramsAssumption
<1>10. DOMAIN Callee.params = 1 .. Top.i
  BY <1>3, <1>9
<1> QED BY <1>5, <1>7, <1>10

(* The parameters of a call are visible in the scope it opens.             *)
LEMMA ParametersVisible ==
  ASSUME Ready, NEW n \in Nat, NEW name, NEW value, NEW d \in Nat, NEW es,
         es = entries_ \o [j \in 1 .. n |-> Entry(name[j].name, value[j], d)]
  PROVE  {name[j].name : j \in 1 .. n} \subseteq Visible(es, d)
<1> DEFINE new == [j \in 1 .. n |-> Entry(name[j].name, value[j], d)]
           M == {name[j].name : j \in 1 .. n}
           W == {value[j] : j \in 1 .. n}
           m == Len(entries_)
<1>1. PICK N, V : entries_ \in Seq(EntriesOver(N, V))
  BY ReadyFacts DEF IsTable
<1> DEFINE S == EntriesOver(N, V) \cup EntriesOver(M, W)
<1>2. /\ \A j \in 1 .. n : Entry(name[j].name, value[j], d) \in S
      /\ DOMAIN new = 1 .. n /\ \A j \in 1 .. n : new[j] = Entry(name[j].name, value[j], d)
  BY DEF Entry, EntriesOver
<1>3. EntriesOver(N, V) \subseteq S
  OBVIOUS
<1> HIDE DEF S
<1>4. new \in Seq(S) /\ Len(new) = n
  <2>1. new \in [1 .. n -> S]
    BY <1>2
  <2> HIDE DEF new
  <2> QED BY <2>1
<1>5. entries_ \in Seq(S)
  BY <1>1, <1>3, SeqMonotonic
<1>6. es = entries_ \o new
  OBVIOUS
<1> HIDE DEF new
<1>7. ASSUME NEW j \in 1 .. n
      PROVE  m + j \in DOMAIN es /\ es[m + j] = new[j]
  <2>1. m \in Nat /\ DOMAIN es = 1 .. m + n /\ m + j \in 1 .. m + n
        /\ m + j > m
    BY <1>4, <1>5, <1>6
  <2>2. es[m + j] = new[(m + j) - m] /\ (m + j) - m = j
    <3> HIDE DEF m
    <3>1. \A i \in m + 1 .. m + n : es[i] = new[i - m]
      BY <1>4, <1>5, <1>6 DEF m
    <3>2. m + j \in m + 1 .. m + n /\ (m + j) - m = j
      BY <2>1
    <3> QED BY <3>1, <3>2
  <2> QED BY <2>1, <2>2
<1>8. ASSUME NEW j \in 1 .. n PROVE name[j].name \in Visible(es, d)
  <2>1. new[j].name = name[j].name /\ new[j].scope_depth = d
    BY <1>2 DEF Entry
  <2>2. PICK k \in DOMAIN es : es[k].name = name[j].name /\ es[k].scope_depth = d
    BY <1>7, <2>1
  <2>3. es[k].scope_depth <= d
    BY <2>2
  <2> QED BY <2>2, <2>3 DEF Visible
<1> QED BY <1>8

LEMMA EnterServes ==
  ASSUME From, Vetted, Invoke("func"), current_depth_' = current_depth_ + 1,
         NEW value,
         entries_' = entries_ \o
           [j \in 1 .. Top.i |-> Entry(Callee.params[j].name, value[j], current_depth_')],
         Become(Frame("body", Top.node))
  PROVE  Serving'
<1> DEFINE f == Frame("body", Top.node)
           d == current_depth_'
<1>1. /\ Top.at = "arguments" /\ Top.node \in DOMAIN Ast /\ InProgram(Top.node)
      /\ Node.kind = "call" /\ Promised(Top) = {} /\ Top.i \in Nat
  BY CallTop, CallNames DEF Invoke
<1>2. PICK i \in DOMAIN program : /\ registry_[Node.name] = program[i]
                                  /\ Ast[program[i]].kind = "func"
  BY CalledFunction
<1>3. DOMAIN Callee.params = 1 .. Top.i /\ Callee = Ast[program[i]]
  BY <1>2, CalledFunction DEF Callee
<1>4. f.at = "body" /\ f.node = Top.node /\ f.i = 0
  BY NewFrameIs
<1> HIDE DEF f
<1>5. CalleeOf(f) = program[i]
  BY <1>2, <1>4 DEF CalleeOf, Node
<1>6. Belongs(f)
  BY <1>1, <1>2, <1>4, <1>5, KindTable DEF Belongs, Node
<1>7. ScopeOf(Top) = 0 /\ ScopeOf(f) = 1 /\ current_depth_ \in Nat
  BY <1>1, <1>4, Holding, ReadyFacts DEF From
<1>13. Promised(f) = {}
  BY <1>4, FrameReads, CallNames
<1>8. Placed(f)
  BY <1>1, <1>4, <1>6, <1>7, <1>13 DEF Placed
<1>9. Rest(f) \subseteq Checker!Free[program[i]] \cup Checker!ParamNames(program[i])
  <2>1. program[i] \in DOMAIN Ast
    BY StatementFacts DEF InProgram
  <2>2. Rest(f) = RestOf(Ast[Ast[program[i]].kids[1]].kids, 0)
    BY <1>4, <1>5, FrameReads DEF BodyOf
  <2> QED BY <1>2, <2>1, <2>2, FuncReads
<1>10. Checker!Free[program[i]] \subseteq Globals
  BY StatementFacts
<1>11. Checker!ParamNames(program[i]) \subseteq Visible(entries_', d)
  <2> DEFINE name == Callee.params
  <2>1. {name[j].name : j \in 1 .. Top.i} \subseteq Visible(entries_', d)
    <3>1. d \in Nat /\ Ready
      BY DEF From
    <3>2. PICK c, es, nm : c = d /\ es = entries_' /\ nm = name
      OBVIOUS
    <3>3. /\ c \in Nat /\ Ready /\ Top.i \in Nat
          /\ es = entries_ \o [j \in 1 .. Top.i |-> Entry(nm[j].name, value[j], c)]
      BY <1>1, <3>1, <3>2
    <3>4. {nm[j].name : j \in 1 .. Top.i} \subseteq Visible(es, c)
      BY <3>3, ParametersVisible
    <3> QED BY <3>2, <3>4
  <2> QED BY <1>3, <2>1 DEF Checker!ParamNames
<1>12. Rest(f) \subseteq Visible(entries_', current_depth_') \cup Globals
  BY <1>9, <1>10, <1>11
<1> QED BY <1>1, <1>8, <1>12, Becoming DEF f

(* The statements of a function's body.                                    *)
LEMMA BodyServes == ASSUME From, Vetted, At("body"), ThenNext("exec", Ast[Callee.kids[1]].kids)
                    PROVE  Serving'
<1> DEFINE nodes == Ast[Callee.kids[1]].kids
           i == Top.i
           n == nodes[i + 1]
<1>1. /\ Running /\ Top.at = "body" /\ Top.node \in DOMAIN Ast /\ Promised(Top) = {}
      /\ Belongs(Top) /\ i \in Nat
  BY CallTop, CallNames
<1>2. PICK k \in DOMAIN program : CalleeOf(Top) = program[k] /\ Ast[program[k]].kind = "func"
  BY <1>1 DEF Belongs
<1>3. nodes = BodyOf(Top) /\ Callee = Ast[program[k]]
  BY <1>2 DEF BodyOf, CalleeOf, Callee, Node
<1>4. InProgram(program[k]) /\ program[k] \in DOMAIN Ast
  BY StatementFacts DEF InProgram
<1> DEFINE b == Ast[program[k]].kids[1]
<1>5. b \in DOMAIN Ast /\ b # None /\ 1 \in DOMAIN Ast[program[k]].kids
      /\ Ast[b].kids \in Seq(DOMAIN Ast) /\ nodes = Ast[b].kids
  BY <1>2, <1>3, <1>4, Checker!FuncShape, Checker!KindFacts, ProgramsAssumption, SameNone
<1>6. InProgram(b)
  BY <1>4, <1>5, ChildInProgram
<1>7. Rest(Top) = RestOf(nodes, i)
  BY <1>1, <1>3, FrameReads
<1>8. i < Len(nodes)
  BY DEF ThenNext
<1>9. nodes \in Seq(DOMAIN Ast)
  BY <1>5
<1>10. ThenNext("exec", nodes)
  OBVIOUS
<1>11. Rest(Advanced) = RestOf(nodes, i + 1)
  <2>1. Advanced.at = "body" /\ Advanced.node = Top.node /\ Advanced.i = i + 1
    BY <1>1, AdvancedIs
  <2>2. BodyOf(Advanced) = BodyOf(Top)
    BY <2>1 DEF BodyOf, CalleeOf
  <2> QED BY <1>3, <2>1, <2>2, FrameReads
<1> HIDE DEF nodes, b
<1>12. n # None /\ i + 1 \in DOMAIN nodes /\ InProgram(n)
  <2>1. i + 1 \in DOMAIN nodes /\ n \in DOMAIN Ast
    BY <1>1, <1>8, <1>9
  <2>2. n # None
    BY <2>1, Checker!KindFacts, ProgramsAssumption, SameNone
  <2> QED BY <1>5, <1>6, <2>1, <2>2, ChildInProgram
<1>13. /\ FreeOf(n) \subseteq Rest(Top)
       /\ RestOf(nodes, i + 1) \subseteq Rest(Top) \cup Checker!Declared(n)
  <2> HIDE DEF i
  <2> QED BY <1>1, <1>7, <1>8, <1>9, RestOfNext
<1>14. /\ InProgram(nodes[Top.i + 1])
       /\ Rest(Advanced) \subseteq Rest(Top)
            \cup (IF "exec" = "exec" THEN Checker!Declared(nodes[Top.i + 1]) ELSE {})
       /\ Checker!Free[nodes[Top.i + 1]] \subseteq Rest(Top)
  BY <1>11, <1>12, <1>13, FreeOfIs
<1>15. Top.at # "interpret" /\ HoldsScope(Top)
  BY <1>1 DEF HoldsScope
<1> QED BY <1>10, <1>14, <1>15, HowNames, ThenNextServes

LEMMA UserServes == ASSUME From, Vetted, CallUser PROVE Serving'
<1>1. ASSUME Invoke("func"), current_depth_' = current_depth_ + 1,
             entries_' = entries_ \o
               [j \in 1 .. Top.i |->
                  Entry(Callee.params[j].name, Last(Arguments.vectors)[j], current_depth_')],
             Become(Frame("body", Top.node))
      PROVE  Serving'
  <2>1. PICK value : value = Last(Arguments.vectors)
    OBVIOUS
  <2>2. entries_' = entries_ \o
          [j \in 1 .. Top.i |-> Entry(Callee.params[j].name, value[j], current_depth_')]
    BY <1>1, <2>1
  <2> QED BY <1>1, <2>2, EnterServes
<1>2. ASSUME At("body"), Leave PROVE Serving'
  BY <1>2, CallTop, CallNames, LeaveServes
<1> QED BY <1>1, <1>2, BodyServes DEF CallUser

---------------------------------------------------------------------------
(* Every step.                                                             *)

LEMMA ReturningServes ==
  ASSUME From, OInv, Returning PROVE Serving'
<1>1. ASSUME mode = "return", Leave PROVE Serving'
  <2>1. Waits(Top.at) = "end"
    BY <1>1 DEF OInv, Full, Top
  <2>2. Top.at \in {"interpret", "block", "condition", "increment", "body"}
    BY <2>1 DEF Waits
  <2>3. Promised(Top) = {}
    BY <2>2, FrameReads, LoopNames, CallNames
  <2> QED BY <1>1, <2>3, LeaveServes
<1>2. ASSUME UNCHANGED kont, Stay PROVE Serving'
  BY <1>2, Keeping DEF Stay, scopes
<1> QED BY <1>1, <1>2 DEF Returning, DropsResult, ReturnIgnored

LEMMA StepServes == ASSUME From, Vetted, OInv, Statement \/ Expression \/ CallStep \/ Returning
                    PROVE  Serving'
<1>1. ASSUME Statement PROVE Serving'
  BY <1>1, InterpretServes, ExpressionStatementServes, VarServes, BlockServes, LoopServes,
     IfServes, ReturnServes DEF Statement
<1>2. ASSUME Expression PROVE Serving'
  BY <1>2, ReadServes, BinaryServes, AssignmentServes, UpdateServes, ListServes, LvalueServes
     DEF Expression
<1>3. ASSUME CallStep PROVE Serving'
  BY <1>3, EvaluateCallServes, BuiltinServes, UserServes DEF CallStep
<1> QED BY <1>1, <1>2, <1>3, ReturningServes

LEMMA DepthTypeNext == IInv' => current_depth_' \in Nat
<1>1. (IInv => current_depth_ \in Nat)'
  BY DepthType, PTL
<1> QED BY <1>1

LEMMA ListsNext ==
  ASSUME UNCHANGED program
  PROVE  /\ Checker!Lists(entries_, Len(program))' <=> Checker!Lists(entries_', Len(program))
         /\ Checker!Lists(symbols_, Len(program))' <=> Checker!Lists(symbols_', Len(program))
BY DEF Checker!Lists, Checker!GlobalsFirst, Checker!Follows, Checker!Declared

(* The last step of interpret() leaves the globals of every statement.     *)
LEMMA FinishingLists ==
  ASSUME From, mode # "finished", Next, mode' = "finished"
  PROVE  current_depth_' = 0 /\ Checker!Lists(entries_, Len(program))'
<1>1. /\ Top.at = "interpret" /\ Top.i = Len(program)
      /\ entries_' = entries_ /\ current_depth_' = current_depth_
  BY Finishing DEF At, Stay, scopes
<1>2. Front(kont) = <<>> /\ Checker!Lists(entries_, Top.i)
  BY <1>1, TopNests
<1>3. current_depth_ = 0
  <2>1. current_depth_ = ScopeCount(<<>>) + ScopeOf(Top) /\ ScopeOf(Top) = 0
    BY <1>1, <1>2, TopFacts, Holding DEF From, Ready
  <2>2. ScopeCount(<<>>) = 0
    <3>1. {i \in DOMAIN <<>> : HoldsScope(<<>>[i])} = {}
      OBVIOUS
    <3> QED BY <3>1, FS_EmptySet DEF ScopeCount
  <2> QED BY <2>1, <2>2
<1>4. Checker!Lists(entries_', Len(program))
  BY <1>1, <1>2
<1> QED BY <1>1, <1>3, <1>4, ListsNext DEF From

LEMMA NextServes ==
  ASSUME IInv, TInv, OInv, VInv, Vetted, Next PROVE VInv'
<1>1. Ready /\ Touch /\ UNCHANGED <<program, registry_>>
  BY NextMoves, NextTouch DEF Ready, Move, Next
<1>2. current_depth_' \in Nat
  BY StepIInv, DepthTypeNext
<1>3. CASE mode \in {"run", "return"}
  <2>1. From
    BY <1>1, <1>2, <1>3 DEF From, VInv
  <2>2. ASSUME Unwind \/ Escape PROVE FALSE
    BY <1>3, <2>2, Names DEF Unwind, Escape, InFlight, ValueError
  <2>3. Serving'
    BY <2>1, <2>2, StepServes DEF Next
  <2>4. ASSUME mode' = "finished"
        PROVE  current_depth_' = 0 /\ Checker!Lists(entries_, Len(program))'
    <3>1. mode # "finished"
      BY <1>3
    <3> QED BY <2>1, <2>4, <3>1, FinishingLists
  <2> QED BY <2>3, <2>4 DEF VInv
<1>4. CASE mode \notin {"run", "return"}
  <2>1. Unwind \/ Escape
    BY <1>4, OrdinaryMode
  <2>2. mode' \notin {"run", "return"}
    BY <1>4, <2>1 DEF Unwind, Escape, InFlight, ReportsError
  <2>3. mode # "finished"
    BY <2>1 DEF Unwind, Escape, InFlight, ValueError
  <2>4. mode' # "finished"
    BY <2>1, <2>3 DEF Unwind, Escape
  <2> QED BY <2>2, <2>4 DEF VInv
<1> QED BY <1>3, <1>4

---------------------------------------------------------------------------
(* The stages.                                                             *)

(* The interpreter before its first step.                                  *)
Waiting ==
  /\ kont = <<Frame("interpret", None)>> /\ mode = "run"
  /\ entries_ = <<>> /\ current_depth_ = 0

LEMMA WaitingServes == Waiting => VInv
<1> SUFFICES ASSUME Waiting PROVE Serving
  BY DEF VInv, Waiting
<1> DEFINE f == Frame("interpret", None)
           c == [n \in Nat |-> 0]
<1>1. f.at = "interpret" /\ f.i = 0
  BY NewFrameIs
<1>2. Belongs(f) /\ Rest(f) = {}
  BY <1>1, FrameReads DEF Belongs
<1>3. kont = <<f>> /\ Len(kont) = 1 /\ kont[1] = f
  BY DEF Waiting
<1>4. c \in [Nat -> Int] /\ c[1] = 0
  OBVIOUS
<1> HIDE DEF c, f
<1>5. Serves(kont, c, entries_, {})
  <2>1. 1 .. Len(kont) = {1} /\ 1 .. Len(kont) - 1 = {} /\ ~ 1 < 1
    BY <1>3
  <2>2. Executed(kont, {}) = 0
    BY <1>1, <1>3 DEF Executed, UnderWay
  <2>3. Checker!Lists(entries_, Executed(kont, {}))
    BY <2>2, Checker!ListsNone, ProgramsAssumption DEF Waiting
  <2>4. Nests(kont, entries_, {})
    BY <1>3, <2>1, <2>3 DEF Nests, Awaits
  <2> QED BY <1>2, <1>3, <1>4, <2>1, <2>4 DEF Serves
<1> QED BY <1>3, <1>4, <1>5 DEF Serving, Waiting

LEMMA SameVInv ==
  ASSUME VInv, UNCHANGED <<kont, mode, entries_, current_depth_, program, registry_>>
  PROVE  VInv'
<1>4. ASSUME mode' = "finished"
      PROVE  current_depth_' = 0 /\ Checker!Lists(entries_, Len(program))'
  <2>1. current_depth_ = 0 /\ Checker!Lists(entries_', Len(program))
    BY <1>4 DEF VInv
  <2> QED BY <2>1, ListsNext
<1> SUFFICES ASSUME mode' \in {"run", "return"} PROVE Serving'
  BY <1>4 DEF VInv
<1>1. Serving
  BY DEF VInv
<1>2. CASE kont # <<>>
  <2>1. PICK c : c[Len(kont)] = current_depth_ /\ Serves(kont, c, entries_, {})
    BY <1>1, <1>2 DEF Serving
  <2>2. c[Len(kont')] = current_depth_' /\ Serves(kont', c, entries_', {})
    BY <2>1
  <2> QED BY <2>2, ServedAfter
<1>3. CASE kont = <<>>
  BY <1>3 DEF Serving
<1> QED BY <1>2, <1>3

(* What is known of the top frame while the code runs.                     *)
LEMMA TopServed ==
  ASSUME Ready, VInv, mode = "run"
  PROVE  Belongs(Top) /\ Rest(Top) \subseteq Visible(entries_, current_depth_) \cup Globals
<1>1. PICK c : c[Len(kont)] = current_depth_ /\ Serves(kont, c, entries_, {})
  BY DEF VInv, Serving, Ready
<1>2. PICK N : kont \in Seq(FramesOver(N))
  BY DEF Ready, IInv, IsStack
<1> DEFINE n == Len(kont)
<1>3. n \in Nat \ {0} /\ Top = kont[n]
  BY <1>2, FrontLast, EmptySeq DEF Top, Ready
<1>4. n \in 1 .. n /\ ~ n < n
  BY <1>3
<1> QED BY <1>1, <1>3, <1>4 DEF Serves

(* A name that is not found was promised by a declaration at the top level. *)
LEMMA MissedName ==
  ASSUME Ready, VInv, Lval("variable"), FindEntry(entries_, Node.name) = 0
  PROVE  \E i \in DOMAIN program :
           Ast[program[i]].kind = "var" /\ Ast[program[i]].name = Node.name
<1>1. mode = "run" /\ Top.at = "lval" /\ Node.kind = "variable"
  BY DEF Lval, At
<1>2. Belongs(Top) /\ Rest(Top) \subseteq Visible(entries_, current_depth_) \cup Globals
  BY <1>1, TopServed
<1>3. Top.node \in DOMAIN Ast /\ Rest(Top) = Checker!Free[Top.node]
  BY <1>1, <1>2, FrameReads, Names DEF Belongs, InProgram
<1>4. Rest(Top) = {Node.name}
  BY <1>1, <1>3, ScopeReads DEF Node
<1>5. Node.name \notin Visible(entries_, current_depth_)
  <2>1. PICK M, V : entries_ \in Seq(EntriesOver(M, V))
    BY ReadyFacts DEF IsTable
  <2>2. \A i \in DOMAIN entries_ : entries_[i].name # Node.name
    <3>1. DOMAIN entries_ = 1 .. Len(entries_) /\ \A i \in 1 .. Len(entries_) : i > 0
      BY <2>1
    <3>2. \A i \in 1 .. Len(entries_) : i > FindEntry(entries_, Node.name) =>
             entries_[i].name # Node.name
      BY <2>1, FindEntryProperties
    <3> QED BY <3>1, <3>2
  <2> QED BY <2>2 DEF Visible
<1>6. PICK i \in DOMAIN program : Node.name \in Checker!Declared(program[i])
  BY <1>2, <1>4, <1>5 DEF Globals
<1> QED BY <1>6 DEF Checker!Declared

LEMMA SameRegistry == Checker!RegistryOf(program) = RegistryOf(program)
BY DEF Checker!RegistryOf, RegistryOf, Checker!Added, Added, Checker!Taken, Taken,
       Checker!DeclaredAt, DeclaredAt

LEMMA SameVetted ==
  ASSUME UNCHANGED <<program, registry_>>
  PROVE  Vetted' <=> Vetted
<1>1. (Checker!Ground' <=> Checker!Ground) /\ (Checker!Closed' <=> Checker!Closed)
  BY Checker!SameText, ProgramsAssumption
<1>2. Checker!Text(program)' = Checker!Text(program)
  BY DEF Checker!Text
<1>3. \A n : Checker!CallFits(n)' <=> Checker!CallFits(n)
  BY DEF Checker!CallFits, Checker!HasStruct
<1>4. (\A n \in Checker!Text(program) : Checker!CallFits(n))'
        <=> \A n \in Checker!Text(program) : Checker!CallFits(n)
  BY <1>2, <1>3 DEF Checker!CallFits, Checker!HasStruct
<1> QED BY <1>1, <1>4 DEF Vetted

(* What the checker leaves in its table of a program it accepted: the      *)
(* global variables of every statement.                                    *)
ChecksOut ==
  /\ DOMAIN symbols_ = 1 .. Len(symbols_) /\ Len(symbols_) \in Nat
  /\ \A k \in 1 .. Len(symbols_) : symbols_[k].scope_depth = 0
  /\ Checker!Lists(symbols_, Len(program)) /\ Len(program) \in Nat

LEMMA SameChecksOut ==
  ASSUME ChecksOut, UNCHANGED <<symbols_, program>> PROVE ChecksOut'
<1>1. Checker!Lists(symbols_', Len(program))
  BY DEF ChecksOut
<1>2. Checker!Lists(symbols_, Len(program))'
  BY <1>1, ListsNext
<1> QED BY <1>2 DEF ChecksOut

(* What the stages hand on: the checker is in its invariant until it is    *)
(* done, and the program that is run is vetted if its types are known.     *)
HasRun == {"running", "success", "failure", "fatal"}
PInv ==
  /\ program \in Programs
  /\ stage \in {"building", "checking", "rejected"} \cup HasRun
  /\ stage \in {"building", "checking", "rejected"} => Waiting
  /\ stage = "building" => Checker!Started
  /\ stage = "checking" => Checker!XInv
  /\ stage \in HasRun /\ Checker!KnownTypes => Vetted /\ VInv /\ ChecksOut

LEMMA ChecksFromStart ==
  (Checker!Ground /\ Checker!Started /\ Checker!IsSequence(sink) => Checker!XInv)'
<1>1. Checker!Ground /\ Checker!Started /\ Checker!IsSequence(sink) => Checker!XInv
  BY Checker!StartedXInv, ProgramsAssumption
<1> QED BY <1>1, PTL

LEMMA WaitingServesNext == Waiting' => VInv'
<1>1. (Waiting => VInv)'
  BY WaitingServes, PTL
<1> QED BY <1>1

LEMMA AcceptedIsVetted ==
  ASSUME Checker!XInv, todo = <<>>, sink = <<>>, Checker!KnownTypes PROVE Vetted
<1>1. Checker!Ground
  BY DEF Checker!XInv
<1>2. Checker!AcceptedIsClosed
  BY Checker!XInvAccepts, ProgramsAssumption
<1> QED BY <1>1, <1>2 DEF Checker!AcceptedIsClosed, Vetted

LEMMA AcceptedChecksOut ==
  ASSUME Checker!XInv, todo = <<>>, sink = <<>>, Checker!KnownTypes PROVE ChecksOut
BY Checker!XInvLists, ProgramsAssumption DEF ChecksOut

LEMMA BuildKeeps == ASSUME PInv, BuildRegistry PROVE PInv'
<1>1. /\ program' = program /\ registry_' = RegistryOf(program)
      /\ stage = "building" /\ stage' = "checking"
      /\ UNCHANGED <<kont, mode, entries_, current_depth_>>
      /\ UNCHANGED <<todo, symbols_, symbols_depth, curr_return_type_>>
  BY DEF BuildRegistry, machine, scopes, checker
<1>2. program \in Programs /\ Waiting /\ Checker!Started
  BY <1>1 DEF PInv
<1>3. Checker!Started'
  BY <1>1, <1>2 DEF Checker!Started
<1>4. Checker!Ground'
  <2>1. Checker!RegistryOf(program)' = Checker!RegistryOf(program)
    BY <1>1 DEF Checker!RegistryOf, Checker!Added, Checker!Taken, Checker!DeclaredAt
  <2> QED BY <1>1, <1>2, <2>1, SameRegistry DEF Checker!Ground
<1>5. Checker!IsSequence(sink)'
  <2> DEFINE n == Cardinality(Redeclared(program))
  <2>1. n \in Nat
    <3>1. program \in Seq(DOMAIN Ast)
      BY <1>2, Checker!ProgramShape, ProgramsAssumption
    <3>2. DOMAIN program = 1 .. Len(program) /\ Len(program) \in Nat
      BY <3>1
    <3>3. Redeclared(program) \subseteq DOMAIN program
      BY DEF Redeclared, DeclaredAt
    <3>4. IsFiniteSet(DOMAIN program)
      BY <3>2, FS_Interval
    <3> QED BY <3>3, <3>4, FS_Subset, FS_CardinalityType
  <2>2. sink' = [i \in 1 .. n |-> "redeclaration"]
    BY DEF BuildRegistry
  <2> HIDE DEF n
  <2>3. sink' \in Seq({"redeclaration"})
    BY <2>1, <2>2
  <2> QED BY <2>3 DEF Checker!IsSequence
<1>6. Checker!XInv'
  BY <1>3, <1>4, <1>5, ChecksFromStart
<1>7. Waiting'
  BY <1>1, <1>2 DEF Waiting
<1> QED BY <1>1, <1>2, <1>6, <1>7 DEF PInv, HasRun

LEMMA PipelineStepPInv ==
  IInv /\ TInv /\ OInv /\ PInv /\ [PipelineNext]_pipeline => PInv'
<1> SUFFICES ASSUME IInv, TInv, OInv, PInv, [PipelineNext]_pipeline PROVE PInv'
  OBVIOUS
<1>1. CASE CheckStep
  <2>1. /\ stage = "checking" /\ stage' = "checking" /\ Checker!Next
        /\ UNCHANGED <<kont, mode, entries_, current_depth_>>
    BY <1>1 DEF CheckStep, machine, scopes
  <2>2. Checker!XInv'
    BY <2>1, Checker!StepXInv, ProgramsAssumption DEF PInv
  <2>3. program' = program
    BY <2>1 DEF Checker!Next
  <2> QED BY <2>1, <2>2, <2>3 DEF PInv, HasRun, Waiting
<1>2. CASE StartRunning
  <2>1. /\ stage = "checking" /\ todo = <<>> /\ stage' \in {"running", "rejected"}
        /\ stage' = "running" => sink = <<>>
        /\ UNCHANGED <<program, registry_, kont, mode, entries_, current_depth_, symbols_>>
    BY <1>2 DEF StartRunning, vars, machine, scopes, checker
  <2>2. Waiting' /\ program' \in Programs
    BY <2>1 DEF PInv, Waiting
  <2>3. ASSUME stage' = "running", Checker!KnownTypes' PROVE Vetted' /\ VInv' /\ ChecksOut'
    <3>1. Checker!KnownTypes /\ Checker!XInv
      BY <2>1, <2>3, Checker!SameText, ProgramsAssumption DEF PInv
    <3>2. Vetted /\ ChecksOut
      BY <2>1, <2>3, <3>1, AcceptedIsVetted, AcceptedChecksOut
    <3> QED BY <2>1, <2>2, <3>2, SameVetted, SameChecksOut, WaitingServesNext
  <2> QED BY <2>1, <2>2, <2>3 DEF PInv, HasRun
<1>3. CASE RunStep
  <2>1. /\ stage = "running" /\ stage' = "running" /\ Next
        /\ UNCHANGED <<program, registry_, symbols_>>
    BY <1>3 DEF RunStep, Next, checker
  <2>2. ASSUME Checker!KnownTypes' PROVE Vetted' /\ VInv' /\ ChecksOut'
    <3>1. Checker!KnownTypes
      BY <2>1, <2>2, Checker!SameText, ProgramsAssumption
    <3>2. Vetted /\ VInv /\ ChecksOut
      BY <2>1, <3>1 DEF PInv, HasRun
    <3> QED BY <2>1, <3>2, NextServes, SameVetted, SameChecksOut
  <2> QED BY <2>1, <2>2 DEF PInv, HasRun
<1>6. ASSUME stage \in HasRun, stage' \in HasRun, Checker!KnownTypes',
             UNCHANGED <<program, registry_, kont, mode, entries_, current_depth_, symbols_>>
      PROVE  Vetted' /\ VInv' /\ ChecksOut'
  <2>1. Checker!KnownTypes
    BY <1>6, Checker!SameText, ProgramsAssumption
  <2>2. Vetted /\ VInv /\ ChecksOut
    BY <1>6, <2>1 DEF PInv
  <2> QED BY <1>6, <2>2, SameVetted, SameVInv, SameChecksOut
<1>4. CASE Exit
  <2>1. /\ stage = "running" /\ stage' \in {"success", "failure", "fatal"}
        /\ UNCHANGED <<program, registry_, kont, mode, entries_, current_depth_, symbols_>>
    BY <1>4 DEF Exit, vars, machine, scopes, checker
  <2>2. stage \in HasRun /\ stage' \in HasRun
        /\ stage' \notin {"building", "checking", "rejected"}
    BY <2>1 DEF HasRun
  <2> QED BY <1>6, <2>1, <2>2 DEF PInv
<1>5. CASE UNCHANGED pipeline
  <2>1. /\ UNCHANGED <<stage, program, registry_, kont, mode, entries_, current_depth_, sink,
                       todo, symbols_, symbols_depth, curr_return_type_>>
    BY <1>5 DEF pipeline, vars, machine, scopes, checker
  <2>2. ASSUME stage = "checking" PROVE Checker!XInv'
    <3>1. UNCHANGED Checker!vars
      BY <2>1 DEF Checker!vars, Checker!checker
    <3> QED BY <2>2, <3>1, Checker!SameXInv, ProgramsAssumption DEF PInv
  <2>3. ASSUME stage = "building" PROVE Checker!Started'
    BY <2>1, <2>3 DEF PInv, Checker!Started
  <2>4. Waiting => Waiting'
    BY <2>1 DEF Waiting
  <2> QED BY <1>6, <2>1, <2>2, <2>3, <2>4 DEF PInv
<1> QED BY <1>1, <1>2, <1>3, <1>4, <1>5, BuildKeeps DEF PipelineNext

LEMMA PipelinePInv == PipelineSpec => [](IInv /\ TInv /\ PInv)
<1> DEFINE Inv == IInv /\ TInv /\ OInv /\ PInv
<1>1. PipelineInit => Inv
  <2> SUFFICES ASSUME PipelineInit PROVE Inv
    OBVIOUS
  <2>1. IInv /\ TInv /\ OInv
    BY StartedIInv, StartedTInv, StartedOInv DEF PipelineInit
  <2> QED BY <2>1 DEF PipelineInit, PInv, HasRun, Started, Waiting
<1>2. Inv /\ [PipelineNext]_pipeline => Inv'
  BY PipelineStepInv, PipelineStepOInv, PipelineStepPInv
<1>3. Inv => IInv /\ TInv /\ PInv
  OBVIOUS
<1> HIDE DEF Inv
<1> QED BY <1>1, <1>2, <1>3, PTL DEF PipelineSpec

(* A name that the interpreter does not find is that of a global variable  *)
(* whose declaration has not been executed yet; every other name of an     *)
(* accepted program whose types are known is bound when it is used, for    *)
(* every program: the checker follows the text, and the interpreter, which *)
(* looks a name up in the scopes of whoever called, the calls              *)
(* (interpreter.cpp:186, 315-349; type_check.cpp:101-161).                 *)
THEOREM AcceptedFindsItsNames == PipelineSpec => []MissesOnlyGlobalsToCome
<1>1. IInv /\ TInv /\ PInv => MissesOnlyGlobalsToCome
  <2> SUFFICES ASSUME IInv, TInv, PInv, stage = "running", Lval("variable"),
                      FindEntry(entries_, Node.name) = 0, Checker!KnownTypes
               PROVE  \E i \in DOMAIN program :
                        Ast[program[i]].kind = "var" /\ Ast[program[i]].name = Node.name
    BY DEF MissesOnlyGlobalsToCome
  <2>1. Ready /\ VInv
    BY DEF Ready, PInv, HasRun, Lval, At
  <2> QED BY <2>1, MissedName
<1> QED BY <1>1, PipelinePInv, PTL

(* Where a call of an accepted program is about to be made, the registry   *)
(* has a function of that name, which takes as many arguments as there     *)
(* are: the interpreter uses what it finds there without looking, and      *)
(* pairs parameters and arguments as far as both go                        *)
(* (interpreter.cpp:327-337).                                              *)
CallsFit ==
  stage = "running" /\ At("arguments") /\ Checker!KnownTypes =>
    /\ Node.name \in DOMAIN registry_ /\ ~ HasStruct(Node.name)
    /\ Len(Callee.params) = Len(Node.kids)

THEOREM AcceptedCallsFit == PipelineSpec => []CallsFit
<1>1. IInv /\ TInv /\ PInv => CallsFit
  <2> SUFFICES ASSUME IInv, TInv, PInv, stage = "running", At("arguments"), Checker!KnownTypes
               PROVE  /\ Node.name \in DOMAIN registry_ /\ ~ HasStruct(Node.name)
                      /\ Len(Callee.params) = Len(Node.kids)
    BY DEF CallsFit
  <2>1. Ready /\ VInv /\ Vetted /\ mode = "run" /\ Top.at = "arguments"
    BY DEF Ready, PInv, HasRun, At
  <2>2. InProgram(Top.node) /\ Node.kind = "call"
    BY <2>1, TopServed, KindTable DEF Belongs, Node
  <2>3. Top.node \in Checker!Text(program)
    BY <2>2, Checker!KidsInText, ProgramsAssumption DEF InProgram
  <2>4. \A name : Checker!HasStruct(name) <=> HasStruct(name)
    BY DEF Checker!HasStruct, HasStruct
  <2> QED BY <2>1, <2>2, <2>3, <2>4 DEF Vetted, Checker!CallFits, Node, Callee
<1> QED BY <1>1, PipelinePInv, PTL

(* A run that finishes has defined the global variables that the checker   *)
(* saw, in its order, whatever the blocks, loops and calls in between      *)
(* opened and closed: both tables list what the statements of the program  *)
(* declare, once all are done (type_check.cpp:36-99,                       *)
(* interpreter.cpp:75-101).                                                *)
THEOREM AcceptedGlobalsMatch == PipelineSpec => []GlobalsMatchDeclarations
<1>1. IInv /\ TInv /\ PInv => GlobalsMatchDeclarations
  <2> SUFFICES ASSUME IInv, TInv, PInv, mode = "finished", Checker!KnownTypes
               PROVE  [i \in DOMAIN symbols_ |-> symbols_[i].name] =
                        [i \in DOMAIN entries_ |-> entries_[i].name]
    BY DEF GlobalsMatchDeclarations
  <2>1. stage \in HasRun
    BY DEF PInv, Waiting
  <2>2. ChecksOut /\ current_depth_ = 0 /\ Checker!Lists(entries_, Len(program))
    BY <2>1 DEF PInv, VInv
  <2>3. PICK es, fs, n : es = symbols_ /\ fs = entries_ /\ n = Len(program)
    OBVIOUS
  <2>4. /\ n \in Nat /\ DOMAIN es = 1 .. Len(es) /\ Len(es) \in Nat
        /\ Checker!Lists(es, n) /\ \A k \in 1 .. Len(es) : es[k].scope_depth = 0
    BY <2>2, <2>3 DEF ChecksOut
  <2>5. IsTable(fs) /\ Sorted(fs, 0)
    BY <2>2, <2>3 DEF TInv
  <2>6. /\ DOMAIN fs = 1 .. Len(fs) /\ Len(fs) \in Nat
        /\ \A k \in DOMAIN fs : fs[k].scope_depth \in Nat
    BY <2>5, TableFacts
  <2>7. \A k \in 1 .. Len(fs) : fs[k].scope_depth = 0
    BY <2>5, <2>6 DEF Sorted
  <2>8. /\ n \in Nat /\ Len(es) \in Nat /\ Len(fs) \in Nat
        /\ Checker!Lists(es, n) /\ Checker!Lists(fs, n)
        /\ \A k \in 1 .. Len(es) : es[k].scope_depth = 0
        /\ \A k \in 1 .. Len(fs) : fs[k].scope_depth = 0
    BY <2>2, <2>3, <2>4, <2>6, <2>7
  <2>9. Len(es) = Len(fs) /\ \A k \in 1 .. Len(es) : es[k].name = fs[k].name
    BY <2>8, Checker!ListsOnce, ProgramsAssumption
  <2>10. [i \in DOMAIN es |-> es[i].name] = [i \in DOMAIN fs |-> fs[i].name]
    BY <2>4, <2>6, <2>9
  <2> QED BY <2>3, <2>10
<1> QED BY <1>1, PipelinePInv, PTL
============================================================================
