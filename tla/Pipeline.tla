------------------------------ MODULE Pipeline ------------------------------
(***************************************************************************)
(* The stages of application::run_pipeline() (app/application.cpp) that    *)
(* follow parsing: the symbol registry, the type checker, and the          *)
(* interpreter if neither reported anything.  They read one program and    *)
(* report into one sink.                                                   *)
(***************************************************************************)
EXTENDS Interpreter

VARIABLES stage, todo, symbols_, symbols_depth, curr_return_type_

checker == <<todo, symbols_, symbols_depth, curr_return_type_>>
pipeline == <<vars, stage, checker>>

(* The type checker, with its theorems.                                    *)
Checker == INSTANCE TypeChecker_proofs

ASSUME ProgramsAssumption == Checker!AstAssumption

PipelineInit ==
  /\ program \in Programs /\ registry_ = <<>>
  /\ Started /\ Checker!Started /\ stage = "building"

(* An error of build() does not keep the checker from running.             *)
BuildRegistry ==
  /\ stage = "building"
  /\ registry_' = RegistryOf(program)
  /\ sink' = [i \in 1 .. Cardinality(Redeclared(program)) |-> "redeclaration"]
  /\ stage' = "checking"
  /\ UNCHANGED <<program, machine, scopes, heap, recursion_depth_, checker>>

CheckStep ==
  /\ stage = "checking"
  /\ Checker!Next
  /\ UNCHANGED <<stage, machine, scopes, heap, recursion_depth_>>

StartRunning ==
  /\ stage = "checking" /\ todo = <<>>
  /\ stage' = IF sink = <<>> THEN "running" ELSE "rejected"
  /\ UNCHANGED <<vars, checker>>

RunStep == stage = "running" /\ Next /\ UNCHANGED <<stage, checker>>

(* run() prints "Program finished successfully." for a success, and        *)
(* "Fatal error" for an exception that interpret() let through.            *)
Exit ==
  /\ stage = "running" /\ mode \in {"finished", "stopped", "escaped"}
  /\ stage' = CASE mode = "escaped" -> "fatal"
                [] mode # "escaped" -> IF sink = <<>> THEN "success" ELSE "failure"
  /\ UNCHANGED <<vars, checker>>

Exits == {"rejected", "success", "failure", "fatal"}
Over == stage \in Exits \/ mode = "undefined"

PipelineNext ==
  \/ BuildRegistry \/ CheckStep \/ StartRunning \/ RunStep \/ Exit
  \/ (Over /\ UNCHANGED pipeline)

(* The process goes on until it is over: WF_pipeline(PipelineNext) with    *)
(* its ENABLED, which TLC is slow to evaluate, spelled out; that a step is *)
(* possible in every other state is what TLC's deadlock check shows.       *)
PipelineSpec ==
  /\ PipelineInit /\ [][PipelineNext]_pipeline
  /\ []<>Over \/ []<><<PipelineNext>>_pipeline

---------------------------------------------------------------------------

(* The first runtime error is the last one: once one is reported nothing   *)
(* of the program runs any more, and unwinding reports no second one       *)
(* (interpreter.cpp:29-33, 333).                                           *)
OneErrorEndsTheRun ==
  stage = "running" /\ sink # <<>> =>
    Len(sink) = 1 /\ mode \in {"runtime_error", "stopped"}

(* A run that finishes has defined the variables the checker saw, in the   *)
(* checker's order: the two tables, one filled before any code runs and    *)
(* one by the code, agree on the global scope.  A variable of a type that  *)
(* is not known is left out by the checker, and void at run time           *)
(* (type_check.cpp:36-99, interpreter.cpp:75-101).                         *)
GlobalsMatchDeclarations ==
  mode = "finished" /\ Checker!KnownTypes =>
    LET names(es) == [i \in DOMAIN es |-> es[i].name]
    IN names(symbols_) = names(entries_)

(* A name the interpreter does not find is a global whose declaration has  *)
(* not been executed yet.  Every other name of an accepted program whose   *)
(* types are known is bound when it is used, although the checker follows  *)
(* the text and the interpreter the calls (interpreter.cpp:186,            *)
(* type_check.cpp:150-160).                                                *)
MissesOnlyGlobalsToCome ==
  stage = "running" /\ Lval("variable") /\ FindEntry(entries_, Node.name) = 0
    /\ Checker!KnownTypes =>
    \E i \in DOMAIN program :
      Ast[program[i]].kind = "var" /\ Ast[program[i]].name = Node.name

(* A run ends whether or not its calls would: a program whose loops end    *)
(* only when a call in them fails, and one that calls itself without end,  *)
(* are stopped by the depth limit, whose error nothing in the program can  *)
(* catch (interpreter.cpp:315-322, 333).                                   *)
Terminates == <>Over

(* type_check.hpp:38, "after a successful check() the program is           *)
(* guaranteed to contain no type, visibility or name errors": types.       *)
NoTypeErrorAtRuntime ==
  stage = "running" => mode # "invalid_conversion" /\ ~ Contains(sink, "invalid_conversion")

(* type_check.hpp:31, "correctness of return (inside a function, ...)".    *)
ReturnsOnlyInCalls ==
  stage = "running" /\ mode = "return" => \E i \in DOMAIN kont : kont[i].at = "body"

(* application.cpp:86 prints "Program finished successfully.".             *)
SuccessMeansFinished == stage = "success" => mode = "finished"
=============================================================================
