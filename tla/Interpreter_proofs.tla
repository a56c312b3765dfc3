------------------------ MODULE Interpreter_proofs ------------------------
(***************************************************************************)
(* Theorems about the interpreter for every program, node table, limit and *)
(* integer width.  Nothing is assumed of the table: the argument looks     *)
(* only at the control stack.  A step leaves the stack alone, removes its  *)
(* top frame, replaces it, or replaces it and calls (Move), and what it    *)
(* does to the two depths is what that does to the number of frames that   *)
(* hold a scope or a unit of depth.  An exception or a return always finds *)
(* a frame to leave because interpret() is at the bottom of the stack.     *)
(* Every frame finds its own operands on temps again, and the references   *)
(* among them are to variables of scopes that are still open (OInv).       *)
(***************************************************************************)
EXTENDS Interpreter, ScopeEntries_proofs

---------------------------------------------------------------------------
(* Frames, and what they hold.                                             *)

FramesOver(N) == [at : Points, node : N, i : Nat]
IsFrame(f) == f \in FramesOver({f.node})
IsStack(s) == \E N : s \in Seq(FramesOver(N))

ScopeOf(f) == IF HoldsScope(f) THEN 1 ELSE 0
DepthOf(f) == IF HoldsDepth(f) THEN 1 ELSE 0
ScopeCount(s) == Cardinality({i \in DOMAIN s : HoldsScope(s[i])})
DepthCount(s) == Cardinality({i \in DOMAIN s : HoldsDepth(s[i])})

(* Points of a body where nothing is held.                                 *)
PlainPoints ==
  {"exec", "eval", "lval", "discard", "define", "fields", "branch", "return",
   "load", "right", "apply", "target", "store", "unary", "operand", "bump",
   "elements", "index", "element", "member"}

LEMMA FrameFacts ==
  ASSUME NEW p \in Points, NEW n
  PROVE  IsFrame(Frame(p, n)) /\ Frame(p, n).at = p /\ Frame(p, n).node = n
BY DEF IsFrame, FramesOver, Frame

LEMMA Holding ==
  ASSUME NEW f
  PROVE  /\ f.at \in PlainPoints \cup {"interpret"} =>
              ScopeOf(f) = 0 /\ DepthOf(f) = 0
         /\ f.at \in LoopPoints => ScopeOf(f) = 1 /\ DepthOf(f) = 0
         /\ f.at = "arguments" => ScopeOf(f) = 0 /\ DepthOf(f) = 1
         /\ f.at = "body" => ScopeOf(f) = 1 /\ DepthOf(f) = 1
         /\ f.at = "block" =>
              /\ ScopeOf(f) = IF HasDeclarations(f.node) THEN 1 ELSE 0
              /\ DepthOf(f) = 0
         /\ ScopeOf(f) \in {0, 1} /\ DepthOf(f) \in {0, 1}
BY DEF ScopeOf, DepthOf, HoldsScope, HoldsDepth, PlainPoints, LoopPoints,
       CallPoints

(* The counts follow the stack: one lemma for pushing, one for popping.    *)
LEMMA CountsAppend ==
  ASSUME NEW N, NEW s \in Seq(FramesOver(N)), NEW e \in FramesOver(N)
  PROVE  /\ ScopeCount(Append(s, e)) = ScopeCount(s) + ScopeOf(e)
         /\ DepthCount(Append(s, e)) = DepthCount(s) + DepthOf(e)
         /\ ScopeCount(s) \in Nat /\ DepthCount(s) \in Nat
<1> DEFINE F == {f \in FramesOver(N) : HoldsScope(f)}
           G == {f \in FramesOver(N) : HoldsDepth(f)}
<1>1. ASSUME NEW t \in Seq(FramesOver(N))
      PROVE  ScopeCount(t) = CountIn(t, F) /\ DepthCount(t) = CountIn(t, G)
  <2>1. \A i \in DOMAIN t : t[i] \in FramesOver(N)
    BY <1>1, ElementOfSeq, LenProperties
  <2>2. {i \in DOMAIN t : HoldsScope(t[i])} = {i \in DOMAIN t : t[i] \in F}
    BY <2>1
  <2>3. {i \in DOMAIN t : HoldsDepth(t[i])} = {i \in DOMAIN t : t[i] \in G}
    BY <2>1
  <2> QED BY <2>2, <2>3 DEF ScopeCount, DepthCount, CountIn
<1>2. Append(s, e) \in Seq(FramesOver(N))
  BY AppendProperties
<1>3. /\ ScopeOf(e) = IF e \in F THEN 1 ELSE 0
      /\ DepthOf(e) = IF e \in G THEN 1 ELSE 0
  BY DEF ScopeOf, DepthOf
<1> HIDE DEF F, G
<1>4. /\ CountIn(Append(s, e), F) = CountIn(s, F) + ScopeOf(e)
      /\ CountIn(Append(s, e), G) = CountIn(s, G) + DepthOf(e)
  BY <1>3, CountAppend, Zenon
<1>5. CountIn(s, F) \in Nat /\ CountIn(s, G) \in Nat
  BY CountType, Zenon
<1>6. ScopeCount(s) = CountIn(s, F) /\ DepthCount(s) = CountIn(s, G)
  BY <1>1
<1>7. /\ ScopeCount(Append(s, e)) = CountIn(Append(s, e), F)
      /\ DepthCount(Append(s, e)) = CountIn(Append(s, e), G)
  BY <1>1, <1>2
<1> QED BY <1>4, <1>5, <1>6, <1>7

---------------------------------------------------------------------------
(* The inductive invariant: both properties, the bound on the depth, and   *)
(* that an exception or a return has a frame to leave, because interpret() *)
(* is at the bottom and only it leaves with nothing on its way.            *)

Leaving == {"return", "runtime_error"} \cup ValueError

IInv ==
  /\ IsStack(kont)
  /\ kont # <<>> => kont[1].at = "interpret"
  /\ mode \in Leaving => kont # <<>>
  /\ DepthsBalanced
  /\ recursion_depth_ <= MAX_RECURSION_DEPTH

(* What a step does to the stack and to the depths.                        *)
Keeps ==
  /\ kont' = kont
  /\ current_depth_' = current_depth_ /\ recursion_depth_' = recursion_depth_
Removes ==
  /\ kont' = Front(kont)
  /\ current_depth_' = current_depth_ - ScopeOf(Top)
  /\ recursion_depth_' = recursion_depth_ - DepthOf(Top)
  /\ mode' \in Leaving => Top.at # "interpret"
Replaces ==
  \E f : /\ kont' = Append(Front(kont), f)
         /\ IsFrame(f) /\ (Top.at = "interpret" => f.at = "interpret")
         /\ current_depth_' = current_depth_ - ScopeOf(Top) + ScopeOf(f)
         /\ recursion_depth_' = recursion_depth_ - DepthOf(Top) + DepthOf(f)
Calls ==
  \E f, g : /\ kont' = Append(Append(Front(kont), f), g)
            /\ IsFrame(f) /\ (Top.at = "interpret" => f.at = "interpret")
            /\ IsFrame(g) /\ g.at \in PlainPoints
            /\ current_depth_' = current_depth_ - ScopeOf(Top) + ScopeOf(f)
            /\ recursion_depth_' = recursion_depth_ - DepthOf(Top) + DepthOf(f)
Move ==
  /\ kont # <<>>
  /\ Keeps \/ Removes \/ Replaces \/ Calls
  /\ recursion_depth_' <= MAX_RECURSION_DEPTH

LEMMA FramesGrow ==
  ASSUME NEW N, NEW M
  PROVE  /\ FramesOver(N) \subseteq FramesOver(N \cup M)
         /\ FramesOver(M) \subseteq FramesOver(N \cup M)
         /\ Seq(FramesOver(N)) \subseteq Seq(FramesOver(N \cup M))
<1>1. /\ FramesOver(N) \subseteq FramesOver(N \cup M)
      /\ FramesOver(M) \subseteq FramesOver(N \cup M)
  BY DEF FramesOver
<1> QED BY <1>1, SeqMonotonic

(* The top of the stack, and what is under it.                             *)
LEMMA TopFacts ==
  ASSUME IInv, kont # <<>>
  PROVE  /\ IsFrame(Top) /\ IsStack(Front(kont))
         /\ ScopeCount(Front(kont)) \in Nat /\ DepthCount(Front(kont)) \in Nat
         /\ current_depth_ = ScopeCount(Front(kont)) + ScopeOf(Top)
         /\ recursion_depth_ = DepthCount(Front(kont)) + DepthOf(Top)
         /\ Front(kont) = <<>> => Top.at = "interpret"
         /\ Front(kont) # <<>> => Front(kont)[1].at = "interpret"
<1>1. PICK N : kont \in Seq(FramesOver(N))
  BY DEF IInv, IsStack
<1> DEFINE S == FramesOver(N)
<1>2. /\ Front(kont) \in Seq(S) /\ Top \in S
      /\ kont = Append(Front(kont), Top)
      /\ Len(Front(kont)) = Len(kont) - 1 /\ Top = kont[Len(kont)]
      /\ \A i \in 1 .. Len(kont) - 1 : Front(kont)[i] = kont[i]
  BY <1>1, FrontLast DEF Top
<1>3. IsFrame(Top)
  BY <1>2 DEF IsFrame, FramesOver
<1>4. IsStack(Front(kont))
  BY <1>2 DEF IsStack
<1>5. /\ ScopeCount(Append(Front(kont), Top)) = ScopeCount(Front(kont)) + ScopeOf(Top)
      /\ DepthCount(Append(Front(kont), Top)) = DepthCount(Front(kont)) + DepthOf(Top)
      /\ ScopeCount(Front(kont)) \in Nat /\ DepthCount(Front(kont)) \in Nat
  BY <1>2, CountsAppend
<1>6. /\ current_depth_ = ScopeCount(kont)
      /\ recursion_depth_ = DepthCount(kont)
  BY DEF IInv, DepthsBalanced, Count, ScopeCount, DepthCount
<1>7. Len(kont) \in Nat \ {0}
  BY <1>1, EmptySeq
<1>8. Front(kont) = <<>> => Top.at = "interpret"
  <2>1. Front(kont) = <<>> => Len(kont) = 1
    BY <1>2, <1>7, EmptySeq
  <2> QED BY <1>2, <2>1 DEF IInv
<1>9. Front(kont) # <<>> => Front(kont)[1].at = "interpret"
  <2>1. Front(kont) # <<>> => 1 \in 1 .. Len(kont) - 1
    BY <1>2, <1>7, EmptySeq
  <2> QED BY <1>2, <2>1 DEF IInv
<1> QED BY <1>2, <1>3, <1>4, <1>5, <1>6, <1>8, <1>9, Zenon

(* Pushing a frame on a stack.                                             *)
LEMMA PushFacts ==
  ASSUME NEW s, IsStack(s), NEW f, IsFrame(f),
         s = <<>> => f.at = "interpret",
         s # <<>> => s[1].at = "interpret"
  PROVE  /\ IsStack(Append(s, f)) /\ Append(s, f) # <<>>
         /\ Append(s, f)[1].at = "interpret"
         /\ ScopeCount(Append(s, f)) = ScopeCount(s) + ScopeOf(f)
         /\ DepthCount(Append(s, f)) = DepthCount(s) + DepthOf(f)
<1>1. PICK N : s \in Seq(FramesOver(N))
  BY DEF IsStack
<1> DEFINE M == N \cup {f.node}
<1>2. s \in Seq(FramesOver(M)) /\ f \in FramesOver(M)
  BY <1>1, FramesGrow DEF IsFrame
<1> HIDE DEF M
<1>3. Append(s, f) \in Seq(FramesOver(M))
  BY <1>2, AppendProperties
<1>4. /\ Append(s, f) # <<>>
      /\ s = <<>> => Append(s, f)[1] = f
      /\ s # <<>> => Append(s, f)[1] = s[1]
  <2>1. /\ Len(s) \in Nat /\ Len(Append(s, f)) = Len(s) + 1
        /\ \A i \in 1 .. Len(s) : Append(s, f)[i] = s[i]
        /\ Append(s, f)[Len(s) + 1] = f
    BY <1>2
  <2>2. s = <<>> => Len(s) + 1 = 1
    BY EmptySeq
  <2>3. s # <<>> => 1 \in 1 .. Len(s)
    BY <1>2, <2>1, EmptySeq
  <2>4. Append(s, f) # <<>>
    BY <2>1, EmptySeq
  <2> QED BY <2>1, <2>2, <2>3, <2>4
<1>5. /\ ScopeCount(Append(s, f)) = ScopeCount(s) + ScopeOf(f)
      /\ DepthCount(Append(s, f)) = DepthCount(s) + DepthOf(f)
  BY <1>2, CountsAppend
<1> QED BY <1>3, <1>4, <1>5 DEF IsStack

(* Whatever a step does to the stack, it does it to the depths too.        *)
LEMMA MoveKeepsInvariant == ASSUME IInv, Move PROVE IInv'
<1>1. /\ IsFrame(Top) /\ IsStack(Front(kont))
      /\ ScopeCount(Front(kont)) \in Nat /\ DepthCount(Front(kont)) \in Nat
      /\ current_depth_ = ScopeCount(Front(kont)) + ScopeOf(Top)
      /\ recursion_depth_ = DepthCount(Front(kont)) + DepthOf(Top)
      /\ Front(kont) = <<>> => Top.at = "interpret"
      /\ Front(kont) # <<>> => Front(kont)[1].at = "interpret"
  BY TopFacts DEF Move
<1>2. ScopeOf(Top) \in {0, 1} /\ DepthOf(Top) \in {0, 1}
  BY Holding
<1>3. SUFFICES /\ IsStack(kont')
               /\ kont' # <<>> => kont'[1].at = "interpret"
               /\ mode' \in Leaving => kont' # <<>>
               /\ current_depth_' = ScopeCount(kont')
               /\ recursion_depth_' = DepthCount(kont')
  BY DEF Move, IInv, IsStack, DepthsBalanced, Count,
         ScopeCount, DepthCount, HoldsScope, HoldsDepth, Leaving
<1>4. CASE Keeps
  BY <1>4 DEF Move, Keeps, IInv, DepthsBalanced, Count,
              ScopeCount, DepthCount
<1>5. CASE Removes
  <2>1. /\ current_depth_' = ScopeCount(Front(kont))
        /\ recursion_depth_' = DepthCount(Front(kont))
    BY <1>1, <1>2, <1>5 DEF Removes
  <2> QED BY <1>1, <1>5, <2>1 DEF Removes
<1>6. CASE Replaces
  <2>1. PICK f : /\ kont' = Append(Front(kont), f)
                 /\ IsFrame(f) /\ (Top.at = "interpret" => f.at = "interpret")
                 /\ current_depth_' = current_depth_ - ScopeOf(Top) + ScopeOf(f)
                 /\ recursion_depth_' =
                      recursion_depth_ - DepthOf(Top) + DepthOf(f)
    BY <1>6 DEF Replaces
  <2>2. /\ IsStack(kont') /\ kont' # <<>> /\ kont'[1].at = "interpret"
        /\ ScopeCount(kont') = ScopeCount(Front(kont)) + ScopeOf(f)
        /\ DepthCount(kont') = DepthCount(Front(kont)) + DepthOf(f)
    BY <1>1, <2>1, PushFacts
  <2>3. ScopeOf(f) \in {0, 1} /\ DepthOf(f) \in {0, 1}
    BY Holding
  <2>4. current_depth_' = ScopeCount(kont') /\ recursion_depth_' = DepthCount(kont')
    BY <1>1, <1>2, <2>1, <2>2, <2>3
  <2> QED BY <2>2, <2>4
<1>7. CASE Calls
  <2>1. PICK f, g : /\ kont' = Append(Append(Front(kont), f), g)
                    /\ IsFrame(f) /\ (Top.at = "interpret" => f.at = "interpret")
                    /\ IsFrame(g) /\ g.at \in PlainPoints
                    /\ current_depth_' = current_depth_ - ScopeOf(Top) + ScopeOf(f)
                    /\ recursion_depth_' =
                         recursion_depth_ - DepthOf(Top) + DepthOf(f)
    BY <1>7 DEF Calls
  <2> DEFINE s == Append(Front(kont), f)
  <2>2. /\ IsStack(s) /\ s # <<>> /\ s[1].at = "interpret"
        /\ ScopeCount(s) = ScopeCount(Front(kont)) + ScopeOf(f)
        /\ DepthCount(s) = DepthCount(Front(kont)) + DepthOf(f)
    BY <1>1, <2>1, PushFacts
  <2>3. kont' = Append(s, g)
    BY <2>1
  <2> HIDE DEF s
  <2>4. /\ IsStack(kont') /\ kont' # <<>> /\ kont'[1].at = "interpret"
        /\ ScopeCount(kont') = ScopeCount(s) + ScopeOf(g)
        /\ DepthCount(kont') = DepthCount(s) + DepthOf(g)
    BY <2>1, <2>2, <2>3, PushFacts
  <2>5. ScopeOf(f) \in {0, 1} /\ DepthOf(f) \in {0, 1}
    BY Holding
  <2>6. ScopeOf(g) = 0 /\ DepthOf(g) = 0
    BY <2>1, Holding
  <2>7. current_depth_' = ScopeCount(kont') /\ recursion_depth_' = DepthCount(kont')
    BY <1>1, <1>2, <2>1, <2>2, <2>4, <2>5, <2>6
  <2> QED BY <2>4, <2>7
<1> QED BY <1>4, <1>5, <1>6, <1>7 DEF Move

---------------------------------------------------------------------------
(* The steps that handlers are built from are moves.  Same(f): f holds     *)
(* what the top frame holds.                                               *)

Same(f) ==
  /\ IsFrame(f) /\ (Top.at = "interpret" => f.at = "interpret")
  /\ ScopeOf(f) = ScopeOf(Top) /\ DepthOf(f) = DepthOf(Top)

Hows == {"exec", "eval", "lval"}

LEMMA Arithmetic1 ==
  ASSUME IInv, kont # <<>>
  PROVE  /\ current_depth_ \in Nat /\ recursion_depth_ \in Nat
         /\ recursion_depth_ <= MAX_RECURSION_DEPTH
         /\ ScopeOf(Top) \in {0, 1} /\ DepthOf(Top) \in {0, 1}
         /\ current_depth_ - ScopeOf(Top) + ScopeOf(Top) = current_depth_
         /\ recursion_depth_ - DepthOf(Top) + DepthOf(Top) = recursion_depth_
<1>1. ScopeOf(Top) \in {0, 1} /\ DepthOf(Top) \in {0, 1}
  BY Holding
<1> QED BY <1>1, TopFacts DEF IInv

(* Frames at points of one class hold the same.                            *)
LEMMA SameClass ==
  ASSUME NEW p, NEW n,
         \/ Top.at \in PlainPoints /\ p \in PlainPoints
         \/ Top.at \in LoopPoints /\ p \in LoopPoints
  PROVE  Same(Frame(p, n))
<1>1. IsFrame(Frame(p, n)) /\ Frame(p, n).at = p
  <2>1. p \in Points
    BY DEF PlainPoints, LoopPoints, Points
  <2> QED BY <2>1, FrameFacts
<1>2. Top.at # "interpret"
  BY DEF PlainPoints, LoopPoints
<1>3. ScopeOf(Frame(p, n)) = ScopeOf(Top) /\ DepthOf(Frame(p, n)) = DepthOf(Top)
  BY <1>1, Holding
<1> QED BY <1>1, <1>2, <1>3 DEF Same

LEMMA SameAdvanced == ASSUME IInv, kont # <<>> PROVE Same(Advanced)
<1>1. IsFrame(Top)
  BY TopFacts
<1>2. IsFrame(Advanced) /\ Advanced.at = Top.at /\ Advanced.node = Top.node
  BY <1>1 DEF Advanced, IsFrame, FramesOver
<1>3. ScopeOf(Advanced) = ScopeOf(Top) /\ DepthOf(Advanced) = DepthOf(Top)
  BY <1>2 DEF ScopeOf, DepthOf, HoldsScope, HoldsDepth
<1> QED BY <1>2, <1>3 DEF Same

LEMMA BecomeMoves ==
  ASSUME IInv, kont # <<>>, NEW f, Same(f), Become(f),
         UNCHANGED <<current_depth_, recursion_depth_>>
  PROVE  Move
<1>1. Replaces
  BY Arithmetic1 DEF Replaces, Same, Become
<1> QED BY <1>1, Arithmetic1 DEF Move

LEMMA CallMoves ==
  ASSUME IInv, kont # <<>>, NEW f, Same(f), NEW how \in Hows, NEW n,
         BecomeThen(f, Frame(how, n)),
         UNCHANGED <<current_depth_, recursion_depth_>>
  PROVE  Move
<1>1. /\ IsFrame(Frame(how, n)) /\ Frame(how, n).at \in PlainPoints
  <2>1. how \in Points
    BY DEF Hows, Points
  <2>2. how \in PlainPoints
    BY DEF Hows, PlainPoints
  <2> QED BY <2>1, <2>2, FrameFacts
<1>2. Calls
  BY <1>1, Arithmetic1, Zenon DEF Calls, Same, BecomeThen
<1> QED BY <1>2, Arithmetic1 DEF Move

LEMMA FinishMoves ==
  ASSUME IInv, kont # <<>>, Finish, Top.at \in PlainPoints,
         UNCHANGED <<current_depth_, recursion_depth_>>
  PROVE  Move
<1>1. ScopeOf(Top) = 0 /\ DepthOf(Top) = 0 /\ Top.at # "interpret"
  BY Holding DEF PlainPoints
<1>2. Removes
  BY <1>1, Arithmetic1 DEF Removes, Finish
<1> QED BY <1>2, Arithmetic1 DEF Move

LEMMA KeepMoves ==
  ASSUME IInv, kont # <<>>,
         UNCHANGED <<kont, current_depth_, recursion_depth_>>
  PROVE  Move
BY Arithmetic1 DEF Move, Keeps

(* Leaving a frame runs its destructors: they release what it holds.       *)
LEMMA LeaveMoves ==
  ASSUME IInv, kont # <<>>, Leave, mode' \in Leaving => Top.at # "interpret"
  PROVE  Move
<1>1. current_depth_' = current_depth_ - ScopeOf(Top)
  BY Arithmetic1 DEF Leave, EndsScope, PopScope, scopes, ScopeOf
<1>2. recursion_depth_' = recursion_depth_ - DepthOf(Top)
  BY DEF Leave, EndsCall, DepthOf
<1>3. Removes
  BY <1>1, <1>2 DEF Removes, Leave, Finish
<1>4. recursion_depth_' <= MAX_RECURSION_DEPTH
  BY <1>2, Arithmetic1, DepthAssumption
<1> QED BY <1>3, <1>4 DEF Move

(* The whole steps Then, ThenNext, Resume, Done, Raise and Yield.          *)
Running == IInv /\ mode = "run" /\ kont # <<>>
AtPlain == Running /\ Top.at \in PlainPoints

LEMMA ThenMoves ==
  ASSUME Running, NEW how \in Hows, NEW k, NEW p, Then(how, k, p),
         \/ Top.at \in PlainPoints /\ p \in PlainPoints
         \/ Top.at \in LoopPoints /\ p \in LoopPoints
  PROVE  Move
<1>1. Same(Frame(p, Top.node))
  BY SameClass
<1> QED BY <1>1, CallMoves DEF Then, Running, Stay, scopes

LEMMA ThenNextMoves ==
  ASSUME Running, NEW how \in Hows, NEW nodes, ThenNext(how, nodes)
  PROVE  Move
BY SameAdvanced, CallMoves DEF ThenNext, Running, Stay, scopes

LEMMA ResumeMoves ==
  ASSUME Running, NEW k, NEW p, NEW n, Resume(k, Frame(p, n)),
         \/ Top.at \in PlainPoints /\ p \in PlainPoints
         \/ Top.at \in LoopPoints /\ p \in LoopPoints
  PROVE  Move
<1>1. Same(Frame(p, n))
  BY SameClass
<1> QED BY <1>1, BecomeMoves DEF Resume, Running, Stay, scopes

LEMMA DoneMoves == ASSUME AtPlain, NEW k, Done(k) PROVE Move
BY FinishMoves DEF Done, AtPlain, Running, Stay, scopes

LEMMA RaiseMoves == ASSUME Running, NEW m, Raise(m) PROVE Move
BY KeepMoves DEF Raise, Running, Stay, scopes

LEMMA ThrowMoves == ASSUME Running, NEW v, Throw(v) PROVE Move
BY RaiseMoves DEF Throw

LEMMA RaiseErrorMoves == ASSUME Running, NEW c, RaiseError(c) PROVE Move
BY KeepMoves DEF RaiseError, Running, scopes

LEMMA ResultMoves == ASSUME AtPlain, NEW k, NEW x, Result(k, x) PROVE Move
BY FinishMoves DEF Result, AtPlain, Running, Stay, scopes

LEMMA YieldMoves == ASSUME AtPlain, NEW k, NEW v, Yield(k, v) PROVE Move
BY ThrowMoves, ResultMoves DEF Yield, AtPlain

LEMMA DefineMoves == ASSUME AtPlain, NEW k, NEW v, Define(k, v) PROVE Move
BY FinishMoves DEF Define, AtPlain, Running

LEMMA StoreYieldMoves ==
  ASSUME AtPlain, NEW k, NEW new, NEW result, StoreYield(k, new, result)
  PROVE  Move
<1>1. CASE Stale(Temp(0))
  BY <1>1, RaiseMoves DEF StoreYield, AtPlain
<1>2. CASE ~ Stale(Temp(0)) /\ Thrown(new)
  BY <1>2, ThrowMoves DEF StoreYield, AtPlain
<1>3. CASE ~ Stale(Temp(0)) /\ ~ Thrown(new)
  BY <1>3, FinishMoves DEF StoreYield, AtPlain, Running
<1> QED BY <1>1, <1>2, <1>3

---------------------------------------------------------------------------
(* The same steps from a point where nothing is held.                      *)

LEMMA PlainThen ==
  ASSUME AtPlain, NEW how \in Hows, NEW k, NEW p \in PlainPoints,
         Then(how, k, p)
  PROVE  Move
BY ThenMoves DEF AtPlain

LEMMA PlainResume ==
  ASSUME AtPlain, NEW k, NEW p \in PlainPoints, NEW n, Resume(k, Frame(p, n))
  PROVE  Move
BY ResumeMoves DEF AtPlain

LEMMA Names == {"exec", "eval", "lval"} = Hows /\ Hows \subseteq PlainPoints
BY DEF Hows, PlainPoints

LEMMA AtFacts ==
  ASSUME IInv
  PROVE  /\ \A p \in PlainPoints : At(p) => AtPlain
         /\ \A p : At(p) => Running /\ Top.at = p
         /\ \A k : Exec(k) \/ Eval(k) \/ Lval(k) => AtPlain
BY DEF At, AtPlain, Running, Exec, Eval, Lval, PlainPoints

---------------------------------------------------------------------------
(* Every action is a move: one lemma for each group of handlers.           *)

LEMMA SimpleStatementMoves ==
  ASSUME IInv, ExecuteExpression \/ ExecuteDeclaration \/ ExecuteIf
  PROVE  Move
<1> DEFINE cond == ToBool(Temp(0))
<1>1. {"discard", "branch"} \subseteq PlainPoints
  BY DEF PlainPoints
<1>2. ASSUME Exec("expression"), Then("eval", 1, "discard") PROVE Move
  BY <1>1, <1>2, AtFacts, Names, PlainThen
<1>3. ASSUME At("discard"), Done(1) PROVE Move
  BY <1>1, <1>3, AtFacts, DoneMoves
<1>4. ASSUME ExecuteDeclaration PROVE Move
  BY <1>4, AtFacts, DoneMoves DEF ExecuteDeclaration
<1>5. ASSUME Exec("if"), Then("eval", 1, "branch") PROVE Move
  BY <1>1, <1>5, AtFacts, Names, PlainThen
<1>6. ASSUME At("branch"), Throw(cond) PROVE Move
  BY <1>6, AtFacts, ThrowMoves
<1>7. ASSUME At("branch"), NEW n, Done(1) \/ Resume(1, Frame("exec", n))
      PROVE  Move
  BY <1>1, <1>7, AtFacts, Names, DoneMoves, PlainResume
<1> QED BY <1>2, <1>3, <1>4, <1>5, <1>6, <1>7 DEF ExecuteExpression, ExecuteIf

LEMMA VarMoves == ASSUME IInv, ExecuteVar PROVE Move
<1>1. {"define", "fields"} \subseteq PlainPoints
  BY DEF PlainPoints
<1>2. ASSUME Exec("var"), Resume(0, Frame("fields", Top.node)) PROVE Move
  BY <1>1, <1>2, AtFacts, PlainResume
<1>3. ASSUME Exec("var"), Then("eval", 1, "define") PROVE Move
  BY <1>1, <1>3, AtFacts, Names, PlainThen
<1>4. ASSUME At("fields"), ThenNext("eval", Ast[Kid(1)].kids) PROVE Move
  BY <1>4, AtFacts, Names, ThenNextMoves
<1>5. ASSUME NEW k, NEW v, Define(k, v),
             At("define") \/ At("fields") \/ Exec("var")
      PROVE  Move
  BY <1>1, <1>5, AtFacts, DefineMoves
<1> QED BY <1>2, <1>3, <1>4, <1>5 DEF ExecuteVar

(* A handler that opens scopes or calls: the frame it goes on in holds     *)
(* what it opened.                                                         *)
LEMMA OpenMoves ==
  ASSUME AtPlain, NEW f, IsFrame(f), f.at # "interpret",
         Become(f) \/ (\E g : BecomeThen(f, g) /\ IsFrame(g) /\ g.at \in PlainPoints),
         current_depth_' = current_depth_ + ScopeOf(f),
         recursion_depth_' = recursion_depth_ + DepthOf(f),
         recursion_depth_' <= MAX_RECURSION_DEPTH
  PROVE  Move
<1>1. kont # <<>> /\ ScopeOf(Top) = 0 /\ DepthOf(Top) = 0 /\ Top.at # "interpret"
  BY Holding DEF AtPlain, Running, PlainPoints
<1>2. /\ current_depth_' = current_depth_ - ScopeOf(Top) + ScopeOf(f)
      /\ recursion_depth_' = recursion_depth_ - DepthOf(Top) + DepthOf(f)
  BY <1>1, Arithmetic1 DEF AtPlain, Running
<1>3. ASSUME Become(f) PROVE Replaces
  BY <1>1, <1>2, <1>3 DEF Replaces, Become
<1>4. ASSUME NEW g, BecomeThen(f, g), IsFrame(g), g.at \in PlainPoints PROVE Calls
  BY <1>1, <1>2, <1>4 DEF Calls, BecomeThen
<1> QED BY <1>1, <1>3, <1>4 DEF Move

LEMMA BlockMoves == ASSUME IInv, ExecuteBlock PROVE Move
<1> DEFINE f == Frame("block", Top.node)
<1>1. ASSUME Exec("block"), Become(f),
             IF HasDeclarations(Top.node) THEN PushScope ELSE UNCHANGED scopes,
             UNCHANGED recursion_depth_
      PROVE  Move
  <2>1. AtPlain /\ current_depth_ \in Nat /\ recursion_depth_ \in Nat
                /\ recursion_depth_ <= MAX_RECURSION_DEPTH
    BY <1>1, AtFacts, Arithmetic1 DEF AtPlain, Running
  <2>2. "block" \in Points
    BY DEF Points
  <2>3. IsFrame(f) /\ f.at = "block" /\ f.node = Top.node
    BY <2>2, FrameFacts
  <2> HIDE DEF f
  <2>4. /\ ScopeOf(f) = IF HasDeclarations(Top.node) THEN 1 ELSE 0
        /\ DepthOf(f) = 0
    BY <2>3, Holding
  <2>5. current_depth_' = current_depth_ + ScopeOf(f)
    BY <1>1, <2>1, <2>4 DEF PushScope, scopes
  <2>6. /\ recursion_depth_' = recursion_depth_ + DepthOf(f)
        /\ recursion_depth_' <= MAX_RECURSION_DEPTH
    BY <1>1, <2>1, <2>4
  <2> QED BY <1>1, <2>1, <2>3, <2>5, <2>6, OpenMoves
<1>2. ASSUME At("block"), ThenNext("exec", Node.kids) PROVE Move
  BY <1>2, AtFacts, Names, ThenNextMoves
<1>3. ASSUME At("block"), Leave PROVE Move
  <2>1. Running /\ Top.at = "block"
    BY <1>3, AtFacts
  <2> QED BY <1>3, <2>1, LeaveMoves DEF Running
<1> QED BY <1>1, <1>2, <1>3 DEF ExecuteBlock

LEMMA LoopMoves == ASSUME IInv, ExecuteLoop \/ LoopDecide \/ LoopNext PROVE Move
<1> DEFINE f == Frame("condition", Top.node)
           g == Frame("exec", Kid(1))
           cond == ToBool(Temp(0))
<1>1. LoopPoints \subseteq Points /\ "exec" \in Points /\ "exec" \in PlainPoints
  BY DEF Points, PlainPoints
<1>2. {"condition", "decide", "enter", "increment", "again"} = LoopPoints
  BY DEF LoopPoints
<1>3. ASSUME ExecuteLoop PROVE Move
  <2>1. /\ AtPlain /\ current_depth_ \in Nat /\ recursion_depth_ \in Nat
        /\ recursion_depth_ <= MAX_RECURSION_DEPTH
    BY <1>3, AtFacts, Arithmetic1 DEF ExecuteLoop, AtPlain, Running
  <2>2. IsFrame(f) /\ f.at \in LoopPoints
    BY <1>1, <1>2, FrameFacts
  <2>3. IsFrame(g) /\ g.at \in PlainPoints
    BY <1>1, FrameFacts
  <2>4. /\ PushScope /\ UNCHANGED recursion_depth_
        /\ Become(f) \/ BecomeThen(f, g)
    BY <1>3 DEF ExecuteLoop
  <2> HIDE DEF f, g
  <2>5. ScopeOf(f) = 1 /\ DepthOf(f) = 0 /\ f.at # "interpret"
    BY <2>2, Holding DEF LoopPoints
  <2>6. /\ current_depth_' = current_depth_ + ScopeOf(f)
        /\ recursion_depth_' = recursion_depth_ + DepthOf(f)
        /\ recursion_depth_' <= MAX_RECURSION_DEPTH
    BY <2>1, <2>4, <2>5 DEF PushScope
  <2> QED BY <2>1, <2>2, <2>3, <2>4, <2>5, <2>6, OpenMoves
<1>4. ASSUME At("decide"), Throw(cond) PROVE Move
  BY <1>4, AtFacts, ThrowMoves
<1>5. ASSUME At("decide"), Leave PROVE Move
  <2>1. Running /\ Top.at = "decide"
    BY <1>5, AtFacts
  <2> QED BY <1>5, <2>1, LeaveMoves DEF Running
<1>6. ASSUME NEW p \in LoopPoints, NEW q \in LoopPoints, At(p), NEW k,
             Resume(k, Frame(q, Top.node))
      PROVE  Move
  BY <1>6, AtFacts, ResumeMoves
<1>7. ASSUME NEW p \in LoopPoints, NEW q \in LoopPoints, At(p), NEW k,
             NEW how \in Hows, Then(how, k, q)
      PROVE  Move
  BY <1>7, AtFacts, ThenMoves
<1>8. ASSUME LoopDecide PROVE Move
  BY <1>2, <1>4, <1>5, <1>6, <1>8 DEF LoopDecide
<1>9. ASSUME LoopNext PROVE Move
  BY <1>2, <1>6, <1>7, <1>9, Names DEF LoopNext
<1> QED BY <1>3, <1>8, <1>9

LEMMA ReturnMoves == ASSUME IInv, ExecuteReturn PROVE Move
<1>1. ASSUME Exec("return"), Then("eval", 1, "return") PROVE Move
  <2>1. "return" \in PlainPoints
    BY DEF PlainPoints
  <2> QED BY <1>1, <2>1, AtFacts, Names, PlainThen
<1>2. ASSUME AtPlain, Finish, Stay PROVE Move
  BY <1>2, FinishMoves DEF AtPlain, Running, Stay, scopes
<1>3. ASSUME At("return") PROVE AtPlain
  BY <1>3, AtFacts DEF PlainPoints
<1> QED BY <1>1, <1>2, <1>3, AtFacts DEF ExecuteReturn

LEMMA ReadMoves == ASSUME IInv, EvaluateLiteral \/ EvaluateByReference PROVE Move
<1> DEFINE f == Frame("load", Top.node)
           g == Frame("lval", Top.node)
<1>1. ASSUME Eval("literal"), Result(0, Node.value) PROVE Move
  BY <1>1, AtFacts, ResultMoves
<1>2. ASSUME AtPlain, BecomeThen(f, g), Stay PROVE Move
  <2>1. "load" \in PlainPoints /\ "lval" \in Hows
    BY DEF PlainPoints, Hows
  <2>2. Same(f)
    BY <1>2, <2>1, SameClass DEF AtPlain
  <2> HIDE DEF f
  <2> QED BY <1>2, <2>1, <2>2, CallMoves DEF AtPlain, Running, Stay, scopes
<1>3. ASSUME At("load"), Raise("undefined") PROVE Move
  BY <1>3, AtFacts, RaiseMoves
<1>4. ASSUME At("load"), YieldCopy(1, Load(Temp(0))) PROVE Move
  <2>1. "load" \in PlainPoints
    BY DEF PlainPoints
  <2> QED BY <1>4, <2>1, AtFacts, FinishMoves
          DEF YieldCopy, AtPlain, Running, scopes
<1>5. ASSUME EvaluateLiteral PROVE Move
  BY <1>1, <1>5 DEF EvaluateLiteral
<1>6. ASSUME EvaluateByReference PROVE Move
  BY <1>2, <1>3, <1>4, <1>6, AtFacts DEF EvaluateByReference
<1> QED BY <1>5, <1>6

LEMMA BinaryMoves == ASSUME IInv, EvaluateBinary PROVE Move
<1>1. {"right", "apply"} \subseteq PlainPoints
  BY DEF PlainPoints
<1>2. ASSUME Eval("binary"), Then("eval", 1, "right") PROVE Move
  BY <1>1, <1>2, AtFacts, Names, PlainThen
<1>3. ASSUME At("right"), Then("eval", 2, "apply") PROVE Move
  BY <1>1, <1>3, AtFacts, Names, PlainThen
<1>4. ASSUME At("right") \/ At("apply"), NEW v, Throw(v) PROVE Move
  BY <1>4, AtFacts, ThrowMoves
<1>5. ASSUME At("right") \/ At("apply"), NEW k, NEW v, Yield(k, v) PROVE Move
  BY <1>1, <1>5, AtFacts, YieldMoves
<1>6. ASSUME At("apply"), NEW c, RaiseError(c) PROVE Move
  BY <1>6, AtFacts, RaiseErrorMoves
<1> QED BY <1>2, <1>3, <1>4, <1>5, <1>6 DEF EvaluateBinary

LEMMA UpdateMoves ==
  ASSUME IInv, EvaluateAssignment \/ EvaluateUnary \/ EvaluatePostfix \/ Bump
  PROVE  Move
<1>1. {"target", "store", "unary", "operand", "bump"} \subseteq PlainPoints
  BY DEF PlainPoints
<1>2. ASSUME NEW kind, Eval(kind), NEW how \in Hows, NEW k,
             NEW p \in PlainPoints, Then(how, k, p)
      PROVE  Move
  BY <1>2, AtFacts, PlainThen
<1>3. ASSUME NEW q \in PlainPoints, At(q), NEW how \in Hows, NEW k,
             NEW p \in PlainPoints, Then(how, k, p)
      PROVE  Move
  BY <1>3, AtFacts, PlainThen
<1>4. ASSUME NEW q \in PlainPoints, At(q), NEW k, NEW new, NEW result,
             StoreYield(k, new, result)
      PROVE  Move
  BY <1>4, AtFacts, StoreYieldMoves
<1>5. ASSUME At("unary"), NEW v, Yield(1, v) PROVE Move
  BY <1>1, <1>5, AtFacts, YieldMoves
<1>6. ASSUME At("unary"), Resume(1, Frame("operand", Top.node)) PROVE Move
  BY <1>1, <1>6, AtFacts, PlainResume
<1>7. ASSUME EvaluateAssignment PROVE Move
  BY <1>1, <1>2, <1>3, <1>4, <1>7, Names DEF EvaluateAssignment
<1>8. ASSUME EvaluateUnary PROVE Move
  BY <1>1, <1>2, <1>3, <1>5, <1>6, <1>8, Names DEF EvaluateUnary
<1>9. ASSUME EvaluatePostfix \/ Bump PROVE Move
  BY <1>1, <1>2, <1>4, <1>9, Names DEF EvaluatePostfix, Bump
<1> QED BY <1>7, <1>8, <1>9

LEMMA ListMoves == ASSUME IInv, EvaluateList PROVE Move
<1>1. "elements" \in PlainPoints
  BY DEF PlainPoints
<1>2. ASSUME Eval("list"), Resume(0, Frame("elements", Top.node)) PROVE Move
  BY <1>1, <1>2, AtFacts, PlainResume
<1>3. ASSUME At("elements"), ThenNext("eval", Node.kids) PROVE Move
  BY <1>3, AtFacts, Names, ThenNextMoves
<1>4. ASSUME At("elements"), Finish, UNCHANGED <<scopes, recursion_depth_>>
      PROVE  Move
  BY <1>1, <1>4, AtFacts, FinishMoves DEF AtPlain, Running, scopes
<1> QED BY <1>2, <1>3, <1>4 DEF EvaluateList

LEMMA LvalueMoves ==
  ASSUME IInv, LvalueVariable \/ LvalueIndex \/ LvalueMember \/ LvalueOther
  PROVE  Move
<1>1. {"lval", "index", "element", "member"} \subseteq PlainPoints
  BY DEF PlainPoints
<1>2. ASSUME AtPlain, NEW m, Raise(m) PROVE Move
  BY <1>2, RaiseMoves DEF AtPlain
<1>3. ASSUME AtPlain, NEW v, Throw(v) PROVE Move
  BY <1>3, ThrowMoves DEF AtPlain
<1>4. ASSUME AtPlain, NEW c, RaiseError(c) PROVE Move
  BY <1>4, RaiseErrorMoves DEF AtPlain
<1>5. ASSUME AtPlain, NEW k, NEW x, Result(k, x) PROVE Move
  BY <1>5, ResultMoves
<1>6. ASSUME AtPlain, NEW how \in Hows, NEW k, NEW p \in PlainPoints,
             Then(how, k, p)
      PROVE  Move
  BY <1>6, PlainThen
<1>7. /\ At("lval") \/ At("index") \/ At("element") \/ At("member") => AtPlain
      /\ \A kind : Lval(kind) => AtPlain
  BY <1>1, AtFacts
<1>8. ASSUME LvalueVariable PROVE Move
  BY <1>2, <1>5, <1>7, <1>8 DEF LvalueVariable
<1>9. ASSUME LvalueIndex PROVE Move
  BY <1>1, <1>2, <1>3, <1>4, <1>5, <1>6, <1>7, <1>9, Names DEF LvalueIndex
<1>10. ASSUME LvalueMember PROVE Move
  BY <1>1, <1>2, <1>5, <1>6, <1>7, <1>10, Names DEF LvalueMember
<1>11. ASSUME LvalueOther PROVE Move
  BY <1>2, <1>7, <1>11 DEF LvalueOther
<1> QED BY <1>8, <1>9, <1>10, <1>11

(* What Leave and a new mode do, at a frame below which interpret() waits. *)
LEMMA LeaveRunningMoves ==
  ASSUME Running, Leave, Top.at # "interpret" PROVE Move
BY LeaveMoves DEF Running

LEMMA CallStepMoves ==
  ASSUME IInv, EvaluateCall \/ CallBuiltin \/ CallUser PROVE Move
<1>1. ASSUME NEW c, RaiseError(c), (\E k : Eval(k)) \/ (\E k : Invoke(k))
      PROVE  Move
  <2>1. (\E p : At(p)) \/ AtPlain
    BY <1>1, AtFacts DEF Invoke
  <2>2. Running
    BY <2>1, AtFacts DEF AtPlain
  <2> QED BY <1>1, <2>2, RaiseErrorMoves
<1>2. ASSUME Eval("call"), ~ TooDeep, Become(Frame("arguments", Top.node)),
             recursion_depth_' = recursion_depth_ + 1, UNCHANGED scopes
      PROVE  Move
  <2> DEFINE f == Frame("arguments", Top.node)
  <2>1. "arguments" \in Points
    BY DEF Points, CallPoints
  <2>2. IsFrame(f) /\ f.at = "arguments"
    BY <2>1, FrameFacts
  <2> HIDE DEF f
  <2>3. ScopeOf(f) = 0 /\ DepthOf(f) = 1
    BY <2>2, Holding
  <2>4. AtPlain /\ current_depth_ \in Nat /\ recursion_depth_ \in Nat
    BY <1>2, AtFacts, Arithmetic1 DEF AtPlain, Running
  <2>5. recursion_depth_' <= MAX_RECURSION_DEPTH
    BY <1>2, <2>4, DepthAssumption DEF TooDeep
  <2>6. /\ current_depth_' = current_depth_ + ScopeOf(f)
        /\ recursion_depth_' = recursion_depth_ + DepthOf(f)
    BY <1>2, <2>3, <2>4 DEF scopes
  <2>7. Become(f)
    BY <1>2 DEF f
  <2> QED BY <2>2, <2>4, <2>5, <2>6, <2>7, OpenMoves
<1>3. ASSUME NEW p, At(p), NEW how \in Hows, NEW nodes, ThenNext(how, nodes)
      PROVE  Move
  BY <1>3, AtFacts, ThenNextMoves
<1>4. ASSUME At("arguments") \/ At("body"), Leave PROVE Move
  BY <1>4, AtFacts, LeaveRunningMoves
<1>5. ASSUME At("arguments"), Become(Frame("body", Top.node)),
             current_depth_' = current_depth_ + 1, UNCHANGED recursion_depth_
      PROVE  Move
  <2> DEFINE f == Frame("body", Top.node)
  <2>1. "body" \in Points
    BY DEF Points, CallPoints
  <2>2. IsFrame(f) /\ f.at = "body"
    BY <2>1, FrameFacts
  <2> HIDE DEF f
  <2>3. /\ ScopeOf(f) = 1 /\ DepthOf(f) = 1
        /\ ScopeOf(Top) = 0 /\ DepthOf(Top) = 1 /\ Top.at # "interpret"
    BY <1>5, <2>2, AtFacts, Holding
  <2>4. /\ kont # <<>> /\ current_depth_ \in Nat /\ recursion_depth_ \in Nat
        /\ recursion_depth_ <= MAX_RECURSION_DEPTH
    BY <1>5, AtFacts, Arithmetic1 DEF Running
  <2>5. /\ current_depth_' = current_depth_ - ScopeOf(Top) + ScopeOf(f)
        /\ recursion_depth_' = recursion_depth_ - DepthOf(Top) + DepthOf(f)
    BY <1>5, <2>3, <2>4
  <2>6. kont' = Append(Front(kont), f)
    BY <1>5 DEF Become, f
  <2>7. Replaces
    BY <2>2, <2>3, <2>5, <2>6 DEF Replaces
  <2> QED BY <1>5, <2>4, <2>7 DEF Move
<1>6. ASSUME EvaluateCall PROVE Move
  BY <1>1, <1>2, <1>3, <1>6, Names DEF EvaluateCall, Overflow
<1>7. ASSUME CallBuiltin PROVE Move
  BY <1>1, <1>4, <1>7 DEF CallBuiltin, Invoke
<1>8. ASSUME CallUser PROVE Move
  BY <1>3, <1>4, <1>5, <1>8, Names DEF CallUser, Invoke
<1> QED BY <1>6, <1>7, <1>8

(* interpret() itself: only it takes the last frame away, and then nothing *)
(* is on its way out.                                                      *)
LEMMA InterpretMoves == ASSUME IInv, Interpret PROVE Move
<1>1. Running /\ Top.at = "interpret"
  BY AtFacts DEF Interpret
<1>2. ScopeOf(Top) = 0 /\ DepthOf(Top) = 0
  BY <1>1, Holding
<1>3. ASSUME Resume(0, Advanced) PROVE Move
  BY <1>1, <1>3, SameAdvanced, BecomeMoves DEF Running, Resume, Stay, scopes
<1>4. ASSUME ThenNext("exec", program) PROVE Move
  BY <1>1, <1>4, Names, ThenNextMoves
<1>5. ASSUME Finish, mode' = "finished", Stay PROVE Move
  <2>1. mode' \notin Leaving
    BY <1>5 DEF Leaving, ValueError
  <2>2. Removes
    BY <1>1, <1>2, <1>5, <2>1, Arithmetic1
       DEF Removes, Finish, Stay, scopes, Running
  <2> QED BY <1>1, <1>5, <2>2, Arithmetic1 DEF Move, Running, Stay
<1> QED BY <1>3, <1>4, <1>5 DEF Interpret

LEMMA WayOutMoves == ASSUME IInv, Returning \/ Unwind \/ Escape PROVE Move
<1>1. kont # <<>>
  BY DEF IInv, Leaving, Returning, DropsResult, Unwind, Escape, InFlight
<1>2. ASSUME Leave, Top.at # "interpret" PROVE Move
  BY <1>1, <1>2, LeaveMoves
<1>3. ASSUME UNCHANGED kont, Stay PROVE Move
  BY <1>1, <1>3, KeepMoves DEF Stay, scopes
<1>4. ASSUME Escape PROVE Move
  <2>1. ScopeOf(Top) = 0 /\ DepthOf(Top) = 0 /\ mode' \in {"stopped", "escaped"}
    BY <1>4, Holding DEF Escape
  <2>2. mode' \notin Leaving
    BY <2>1 DEF Leaving, ValueError
  <2>3. Removes
    BY <1>1, <1>4, <2>1, <2>2, Arithmetic1
       DEF Removes, Escape, Finish, Stay, scopes
  <2> QED BY <1>1, <1>4, <2>3, Arithmetic1 DEF Move, Escape, Stay
<1> QED BY <1>2, <1>3, <1>4 DEF Returning, DropsResult, Unwind, ReturnIgnored

LEMMA NextMoves == ASSUME IInv, Next PROVE Move
<1>1. ASSUME Statement PROVE Move
  BY <1>1, InterpretMoves, SimpleStatementMoves, VarMoves, BlockMoves, LoopMoves,
     ReturnMoves DEF Statement
<1>2. ASSUME Expression PROVE Move
  BY <1>2, ReadMoves, BinaryMoves, UpdateMoves, ListMoves, LvalueMoves
     DEF Expression
<1>3. ASSUME CallStep PROVE Move
  BY <1>3, CallStepMoves DEF CallStep
<1> QED BY <1>1, <1>2, <1>3, WayOutMoves DEF Next

---------------------------------------------------------------------------

LEMMA StartedIInv == Started => IInv
<1> SUFFICES ASSUME Started PROVE IInv
  OBVIOUS
<1> DEFINE f == Frame("interpret", None)
<1>1. IsFrame(f) /\ f.at = "interpret"
  <2>1. "interpret" \in Points
    BY DEF Points
  <2> QED BY <2>1, FrameFacts
<1> HIDE DEF f
<1>2. kont = Append(<<>>, f)
  BY DEF Started, f
<1>3. IsStack(<<>>) /\ ScopeCount(<<>>) = 0 /\ DepthCount(<<>>) = 0
  <2>1. <<>> \in Seq(FramesOver({}))
    OBVIOUS
  <2>2. /\ {i \in DOMAIN <<>> : HoldsScope(<<>>[i])} = {}
        /\ {i \in DOMAIN <<>> : HoldsDepth(<<>>[i])} = {}
    OBVIOUS
  <2>3. ScopeCount(<<>>) = 0 /\ DepthCount(<<>>) = 0
    BY <2>2, FS_EmptySet DEF ScopeCount, DepthCount
  <2> QED BY <2>1, <2>3 DEF IsStack
<1>4. /\ IsStack(kont) /\ kont # <<>> /\ kont[1].at = "interpret"
      /\ ScopeCount(kont) = 0 /\ DepthCount(kont) = 0
  <2>1. ScopeOf(f) = 0 /\ DepthOf(f) = 0
    BY <1>1, Holding
  <2>2. <<>> = <<>> => f.at = "interpret"
    BY <1>1
  <2>3. /\ IsStack(Append(<<>>, f)) /\ Append(<<>>, f) # <<>>
        /\ Append(<<>>, f)[1].at = "interpret"
        /\ ScopeCount(Append(<<>>, f)) = ScopeCount(<<>>) + ScopeOf(f)
        /\ DepthCount(Append(<<>>, f)) = DepthCount(<<>>) + DepthOf(f)
    BY <1>1, <1>3, <2>2, PushFacts
  <2> QED BY <1>2, <1>3, <2>1, <2>3
<1> QED BY <1>4, DepthAssumption
        DEF Started, IInv, DepthsBalanced, Count, ScopeCount, DepthCount

LEMMA StepIInv == IInv /\ [Next]_vars => IInv'
<1> SUFFICES ASSUME IInv, [Next]_vars PROVE IInv'
  OBVIOUS
<1>1. CASE Next
  BY <1>1, NextMoves, MoveKeepsInvariant
<1>2. CASE UNCHANGED vars
  BY <1>2 DEF IInv, vars, machine, scopes, DepthsBalanced, Count
<1> QED BY <1>1, <1>2

LEMMA SpecIInv == Spec => []IInv
<1>1. Init => IInv
  BY StartedIInv DEF Init
<1> QED BY <1>1, StepIInv, PTL DEF Spec

(* Scopes and recursion depth are those of the active blocks, loops and    *)
(* calls in every run of every program, however a statement is left: the   *)
(* guards of interpreter.cpp:112-147, 319 and 346 release what their       *)
(* frames hold, once, also on a return and on an exception.                *)
THEOREM InterpreterBalanced == Spec => []DepthsBalanced
<1>1. IInv => DepthsBalanced
  BY DEF IInv
<1> QED BY SpecIInv, <1>1, PTL

---------------------------------------------------------------------------
(* The variables: a step leaves the table alone, opens an empty scope,     *)
(* closes the innermost one, defines a variable, defines the parameters of *)
(* a call in a scope of their own, or stores a value (Touch).              *)
(* ScopeEntries_proofs has what each of these does to a sorted table; the  *)
(* depth above is needed, without which a closed scope might not be the    *)
(* innermost one.                                                          *)

TInv == IsTable(entries_) /\ Sorted(entries_, current_depth_)

(* A step that leaves a table, which has the variables of the one before,  *)
(* but for those of a scope it closes, and has new global variables only   *)
(* where a declaration ends.                                               *)
Stays ==
  \A i \in DOMAIN entries_ :
     entries_[i].scope_depth <= current_depth_' => i \in DOMAIN entries_'
Declaring == (Exec("var") \/ At("define") \/ At("fields")) /\ \E k, v : Define(k, v)
Arrives ==
  \A i \in DOMAIN entries_' :
     i \in DOMAIN entries_ \/ entries_'[i].scope_depth # 0 \/ Declaring
Touch == TInv' /\ SameSlots(entries_, entries_') /\ Stays /\ Arrives

(* What every step starts from.                                            *)
Ready == IInv /\ TInv /\ kont # <<>>

LEMMA ReadyFacts ==
  ASSUME Ready
  PROVE  /\ IsTable(entries_) /\ Sorted(entries_, current_depth_)
         /\ current_depth_ \in Nat
BY Arithmetic1 DEF Ready, TInv

LEMMA UnchangedTouch ==
  ASSUME Ready, entries_' = entries_, current_depth_' = current_depth_
  PROVE  Touch
BY DEF Ready, TInv, Touch, SameSlots, Stays, Arrives, IsTable, Sorted

LEMMA StayTouch == ASSUME Ready, Stay PROVE Touch
BY UnchangedTouch DEF Stay, scopes

LEMMA ScopesTouch == ASSUME Ready, UNCHANGED scopes PROVE Touch
BY UnchangedTouch DEF scopes

LEMMA PushTouch == ASSUME Ready, PushScope PROVE Touch
<1>1. /\ \A i \in DOMAIN entries_ : entries_[i].scope_depth \in Nat
      /\ IsTable(entries_) /\ current_depth_ \in Nat
      /\ Sorted(entries_, current_depth_)
  BY ReadyFacts, TableFacts
<1>2. Sorted(entries_, current_depth_ + 1)
  BY <1>1 DEF Sorted
<1>3. entries_' = entries_ /\ current_depth_' = current_depth_ + 1
  BY DEF PushScope
<1> QED BY <1>1, <1>2, <1>3 DEF Touch, TInv, SameSlots, Stays, Arrives, IsTable, Sorted

LEMMA LeaveTouch == ASSUME Ready, Leave PROVE Touch
<1>1. CASE ~ EndsScope
  BY <1>1, ScopesTouch DEF Leave
<1>2. CASE EndsScope
  <2>1. current_depth_ \in Nat \ {0}
    <3>1. ScopeOf(Top) = 1
      BY <1>2 DEF EndsScope, ScopeOf
    <3> QED BY <3>1, TopFacts DEF Ready
  <2>2. LET fs == PopEntries(entries_, current_depth_)
        IN  /\ IsTable(fs) /\ Sorted(fs, current_depth_ - 1)
            /\ SameSlots(entries_, fs) /\ DOMAIN fs \subseteq DOMAIN entries_
    BY <2>1, ReadyFacts, PopTable
  <2>3. /\ entries_' = PopEntries(entries_, current_depth_)
        /\ current_depth_' = current_depth_ - 1
    BY <1>2 DEF Leave, PopScope
  <2>4. TInv' = (IsTable(entries_') /\ Sorted(entries_', current_depth_'))
    BY DEF TInv, IsTable, Sorted
  <2>5. Stays
    <3>1. \A i \in DOMAIN entries_ :
            /\ entries_[i].scope_depth \in Nat
            /\ entries_[i].scope_depth # current_depth_ => i \in DOMAIN entries_'
      BY <2>3, ReadyFacts, TableFacts, StaysInTable
    <3> QED BY <2>1, <2>3, <3>1 DEF Stays
  <2>6. Arrives
    BY <2>2, <2>3 DEF Arrives
  <2> QED BY <2>2, <2>3, <2>4, <2>5, <2>6, Zenon DEF Touch
<1> QED BY <1>1, <1>2

LEMMA DefineTouch ==
  ASSUME Ready, NEW k, NEW v, Define(k, v), Exec("var") \/ At("define") \/ At("fields")
  PROVE  Touch
<1>1. LET fs == DefineEntry(entries_, current_depth_, Node.name, v)
      IN  IsTable(fs) /\ Sorted(fs, current_depth_) /\ SameSlots(entries_, fs)
  BY ReadyFacts, DefineTable
<1>2. /\ entries_' = DefineEntry(entries_, current_depth_, Node.name, v)
      /\ current_depth_' = current_depth_
  BY DEF Define, Defined
<1>3. TInv' = (IsTable(entries_') /\ Sorted(entries_', current_depth_'))
  BY DEF TInv, IsTable, Sorted
<1>4. Stays
  BY <1>2, ReadyFacts, StaysInTable DEF Stays
<1>5. Arrives
  BY DEF Arrives, Declaring
<1> QED BY <1>1, <1>2, <1>3, <1>4, <1>5, Zenon DEF Touch

LEMMA StoreTouch ==
  ASSUME Ready, NEW r, NEW v, NEW new, Store(r, v, new), UNCHANGED current_depth_
  PROVE  Touch
<1>1. CASE ~ r.slot
  BY <1>1, UnchangedTouch DEF Store
<1>2. CASE r.slot
  <2>1. LET fs == [entries_ EXCEPT ![r.id].value = v]
        IN  IsTable(fs) /\ Sorted(fs, current_depth_) /\ SameSlots(entries_, fs)
    BY ReadyFacts, StoreTable
  <2>2. /\ entries_' = [entries_ EXCEPT ![r.id].value = v]
        /\ current_depth_' = current_depth_
    BY <1>2 DEF Store
  <2>3. TInv' = (IsTable(entries_') /\ Sorted(entries_', current_depth_'))
    BY DEF TInv, IsTable, Sorted
  <2>4. Stays
    BY <2>2 DEF Stays
  <2>5. Arrives
    BY <2>2 DEF Arrives
  <2> QED BY <2>1, <2>2, <2>3, <2>4, <2>5, Zenon DEF Touch
<1> QED BY <1>1, <1>2

(* The parameters of a call, in the scope it opens.                        *)
LEMMA ParametersTouch ==
  ASSUME Ready, NEW n \in Nat, NEW name, NEW value,
         current_depth_' = current_depth_ + 1,
         entries_' = entries_ \o
           [j \in 1 .. n |-> Entry(name[j].name, value[j], current_depth_')]
  PROVE  Touch
<1> DEFINE d == current_depth_ + 1
           new == [j \in 1 .. n |-> Entry(name[j].name, value[j], d)]
           N == {name[j].name : j \in 1 .. n}
           V == {value[j] : j \in 1 .. n}
<1>1. /\ current_depth_ \in Nat /\ d \in Nat /\ current_depth_ <= d
      /\ IsTable(entries_) /\ Sorted(entries_, current_depth_)
  BY ReadyFacts
<1>2. \A j \in 1 .. n : /\ new[j] \in EntriesOver(N, V)
                        /\ new[j].scope_depth = d
  BY <1>1 DEF Entry, EntriesOver
<1>3. DOMAIN new = 1 .. n /\ new = [j \in 1 .. n |-> new[j]]
  OBVIOUS
<1>4. new \in Seq(EntriesOver(N, V))
  <2> DEFINE S == EntriesOver(N, V)
  <2>1. \A j \in 1 .. n : Entry(name[j].name, value[j], d) \in S
    BY <1>2
  <2> HIDE DEF S
  <2>2. new \in [1 .. n -> S]
    BY <2>1
  <2>3. new \in Seq(S)
    <3> HIDE DEF new
    <3> QED BY <2>2
  <2> QED BY <2>3 DEF S
<1>5. IsTable(new) /\ \A j \in DOMAIN new : new[j].scope_depth = d
  BY <1>2, <1>3, <1>4, Zenon DEF IsTable
<1>6. entries_' = entries_ \o new /\ current_depth_' = d
  OBVIOUS
<1> HIDE DEF new, d
<1>7. /\ IsTable(entries_ \o new) /\ Sorted(entries_ \o new, d)
      /\ SameSlots(entries_, entries_ \o new)
  BY <1>1, <1>5, ExtendTable
<1>8. TInv' = (IsTable(entries_') /\ Sorted(entries_', current_depth_'))
  BY DEF TInv, IsTable, Sorted
<1>9. Stays
  BY <1>1, <1>5, <1>6, StaysInTable DEF Stays
<1>10. Arrives
  <2> SUFFICES ASSUME NEW i \in DOMAIN entries_', i \notin DOMAIN entries_
               PROVE  entries_'[i].scope_depth # 0
    BY DEF Arrives
  <2>1. PICK S, R : entries_ \in Seq(S) /\ new \in Seq(R)
    BY <1>1, <1>5 DEF IsTable
  <2>2. PICK j \in DOMAIN new : entries_'[i] = new[j]
    <3>1. PICK a, b : a = Len(entries_) /\ b = Len(new)
      OBVIOUS
    <3>2. /\ a \in Nat /\ b \in Nat /\ DOMAIN entries_ = 1 .. a /\ DOMAIN new = 1 .. b
          /\ DOMAIN entries_' = 1 .. a + b
          /\ \A k \in a + 1 .. a + b : entries_'[k] = new[k - a]
      <4>1. PICK e, T : e = entries_ \o new /\ T = S \cup R
        OBVIOUS
      <4>2. entries_ \in Seq(T) /\ new \in Seq(T)
        BY <2>1, <4>1, SeqMonotonic
      <4>3. /\ a \in Nat /\ b \in Nat /\ DOMAIN entries_ = 1 .. a /\ DOMAIN new = 1 .. b
            /\ DOMAIN e = 1 .. a + b /\ \A k \in a + 1 .. a + b : e[k] = new[k - a]
        BY <3>1, <4>1, <4>2
      <4> QED BY <1>6, <4>1, <4>3
    <3>3. i \in a + 1 .. a + b /\ i - a \in 1 .. b
      BY <3>2
    <3> QED BY <3>2, <3>3
  <2>3. d # 0
    BY <1>1 DEF d
  <2> QED BY <1>5, <2>2, <2>3
<1> QED BY <1>6, <1>7, <1>8, <1>9, <1>10, Zenon DEF Touch

---------------------------------------------------------------------------
(* The whole steps leave the table alone.                                  *)

LEMMA WholeStepsTouch ==
  ASSUME Ready
  PROVE  /\ \A how, k, p : Then(how, k, p) => Touch
         /\ \A how, nodes : ThenNext(how, nodes) => Touch
         /\ \A k, f : Resume(k, f) => Touch
         /\ \A k : Done(k) => Touch
         /\ \A m : Raise(m) => Touch
         /\ \A c : RaiseError(c) => Touch
         /\ \A v : Throw(v) => Touch
         /\ \A k, x : Result(k, x) => Touch
         /\ \A k, v : Yield(k, v) => Touch
         /\ \A k, v : YieldCopy(k, v) => Touch
<1>1. \A m : Raise(m) => Touch
  BY StayTouch DEF Raise
<1>2. \A v : Throw(v) => Touch
  BY <1>1 DEF Throw
<1>3. \A k, x : Result(k, x) => Touch
  BY StayTouch DEF Result
<1>4. \A k, v : Yield(k, v) => Touch
  BY <1>2, <1>3 DEF Yield
<1>5. \A c : RaiseError(c) => Touch
  BY ScopesTouch DEF RaiseError
<1>6. \A k, v : YieldCopy(k, v) => Touch
  BY ScopesTouch DEF YieldCopy
<1> QED BY <1>1, <1>2, <1>3, <1>4, <1>5, <1>6, StayTouch
        DEF Then, ThenNext, Resume, Done

LEMMA StoreYieldTouch ==
  ASSUME Ready, NEW k, NEW new, NEW result, StoreYield(k, new, result)
  PROVE  Touch
<1>1. CASE Stale(Temp(0))
  BY <1>1, WholeStepsTouch DEF StoreYield
<1>2. CASE ~ Stale(Temp(0)) /\ Thrown(new)
  BY <1>2, WholeStepsTouch DEF StoreYield
<1>3. CASE ~ Stale(Temp(0)) /\ ~ Thrown(new)
  BY <1>3, StoreTouch DEF StoreYield
<1> QED BY <1>1, <1>2, <1>3

LEMMA StatementTouch == ASSUME Ready, Statement PROVE Touch
<1>1. CASE Interpret
  BY <1>1, WholeStepsTouch, StayTouch DEF Interpret
<1>2. CASE ExecuteExpression \/ ExecuteDeclaration
  BY <1>2, WholeStepsTouch DEF ExecuteExpression, ExecuteDeclaration
<1>3. CASE ExecuteVar
  BY <1>3, WholeStepsTouch, DefineTouch DEF ExecuteVar
<1>4. CASE ExecuteBlock
  BY <1>4, WholeStepsTouch, PushTouch, ScopesTouch, LeaveTouch DEF ExecuteBlock
<1>5. CASE ExecuteLoop
  BY <1>5, PushTouch DEF ExecuteLoop
<1>6. CASE LoopDecide
  BY <1>6, WholeStepsTouch, LeaveTouch DEF LoopDecide
<1>7. CASE LoopNext
  BY <1>7, WholeStepsTouch DEF LoopNext
<1>8. CASE ExecuteIf
  BY <1>8, WholeStepsTouch DEF ExecuteIf
<1>9. CASE ExecuteReturn
  BY <1>9, WholeStepsTouch, StayTouch DEF ExecuteReturn
<1> QED BY <1>1, <1>2, <1>3, <1>4, <1>5, <1>6, <1>7, <1>8, <1>9 DEF Statement

LEMMA ExpressionTouch == ASSUME Ready, Expression PROVE Touch
<1>1. CASE EvaluateLiteral \/ EvaluateByReference
  BY <1>1, WholeStepsTouch, StayTouch DEF EvaluateLiteral, EvaluateByReference
<1>2. CASE EvaluateBinary
  BY <1>2, WholeStepsTouch DEF EvaluateBinary
<1>3. CASE EvaluateAssignment
  BY <1>3, WholeStepsTouch, StoreYieldTouch DEF EvaluateAssignment
<1>4. CASE EvaluateUnary \/ EvaluatePostfix
  BY <1>4, WholeStepsTouch DEF EvaluateUnary, EvaluatePostfix
<1>5. CASE Bump
  BY <1>5, StoreYieldTouch DEF Bump
<1>6. CASE EvaluateList
  BY <1>6, WholeStepsTouch, ScopesTouch DEF EvaluateList
<1>7. CASE LvalueVariable \/ LvalueMember \/ LvalueOther
  BY <1>7, WholeStepsTouch DEF LvalueVariable, LvalueMember, LvalueOther
<1>8. CASE LvalueIndex
  BY <1>8, WholeStepsTouch DEF LvalueIndex
<1> QED BY <1>1, <1>2, <1>3, <1>4, <1>5, <1>6, <1>7, <1>8 DEF Expression

LEMMA CallStepTouch == ASSUME Ready, CallStep PROVE Touch
<1>1. CASE EvaluateCall
  BY <1>1, WholeStepsTouch, ScopesTouch DEF EvaluateCall, Overflow
<1>2. CASE CallBuiltin
  BY <1>2, WholeStepsTouch, LeaveTouch DEF CallBuiltin
<1>3. CASE CallUser
  <2>1. Top.i \in Nat
    BY TopFacts DEF Ready, IsFrame, FramesOver
  <2>2. ASSUME current_depth_' = current_depth_ + 1,
               entries_' = entries_ \o
                 [j \in 1 .. Top.i |->
                    Entry(Callee.params[j].name, Last(Arguments.vectors)[j],
                          current_depth_')]
        PROVE  Touch
    BY <2>1, <2>2, ParametersTouch
  <2> QED BY <1>3, <2>2, WholeStepsTouch, LeaveTouch DEF CallUser
<1> QED BY <1>1, <1>2, <1>3 DEF CallStep

LEMMA NextTouch == ASSUME IInv, TInv, Next PROVE Touch
<1>1. ASSUME Returning \/ Unwind \/ Escape, Ready PROVE Touch
  BY <1>1, LeaveTouch, StayTouch DEF Returning, DropsResult, Unwind, Escape
<1>2. Ready
  BY NextMoves DEF Ready, Move
<1> QED BY <1>1, <1>2, StatementTouch, ExpressionTouch, CallStepTouch DEF Next

---------------------------------------------------------------------------

LEMMA StartedTInv == Started => TInv
<1>1. <<>> \in Seq(EntriesOver({}, {}))
  OBVIOUS
<1>2. IsTable(<<>>) /\ Sorted(<<>>, 0)
  BY <1>1 DEF IsTable, Sorted
<1> QED BY <1>2 DEF Started, TInv

LEMMA StepTInv == IInv /\ TInv /\ [Next]_vars => TInv' /\ [Touch]_entries_
<1> SUFFICES ASSUME IInv, TInv, [Next]_vars PROVE TInv' /\ [Touch]_entries_
  OBVIOUS
<1>1. CASE Next
  BY <1>1, NextTouch DEF Touch
<1>2. CASE UNCHANGED vars
  BY <1>2 DEF vars, scopes, TInv, IsTable, Sorted
<1> QED BY <1>1, <1>2

LEMMA SpecTInv == Spec => []TInv
<1>1. Init => TInv
  BY StartedTInv DEF Init
<1> QED BY <1>1, StepTInv, SpecIInv, PTL DEF Spec

(* Outer scopes come first and nothing of a closed scope is left, in every *)
(* run of every program (interpreter.cpp:111-147, 319-346).                *)
THEOREM InterpreterTableSorted == Spec => []TableSorted
<1>1. TInv => TableSorted
  BY DEF TInv, Sorted, TableSorted
<1> QED BY SpecTInv, <1>1, PTL

(* A position of the table stands for one variable as long as it is there, *)
(* whatever is called or left (interpreter.cpp:185-199).                   *)
THEOREM InterpreterSlots == Spec => SlotsKeepIdentity
<1> DEFINE Same1 == \A i \in DOMAIN entries_ \cap DOMAIN entries_' :
                      /\ entries_'[i].name = entries_[i].name
                      /\ entries_'[i].scope_depth = entries_[i].scope_depth
<1>1. [Touch]_entries_ => [Same1]_entries_
  BY DEF Touch, SameSlots
<1> QED BY StepTInv, SpecIInv, SpecTInv, <1>1, PTL DEF Spec, SlotsKeepIdentity

---------------------------------------------------------------------------
(* References.  A frame that runs has a known number of operands on top of *)
(* temps, and one that waits keeps a known number of them: what a frame    *)
(* gives is what the one below it waits for, so that each finds its own    *)
(* operands again (OInv).  The reference that an index expression holds    *)
(* while its index runs belongs to a scope that is open until then, and    *)
(* every other one is used by the step after the one that made it.         *)

(* What a frame does for the one below it, what it waits for when it has   *)
(* called, and how many operands it has when its code runs (Operands), and *)
(* while the code it called does (Kept).                                   *)
StatementPoints ==
  {"interpret", "exec", "discard", "define", "fields", "block", "branch",
   "return"} \cup LoopPoints
ReferencePoints == {"lval", "index", "element", "member"}
UsePoints == {"load", "store", "bump", "index", "member"}
ListPoints == {"fields", "elements", "arguments"}

Gives(p) == IF p \in StatementPoints THEN "end"
            ELSE IF p \in ReferencePoints THEN "reference" ELSE "value"
Waits(p) == IF p \in UsePoints THEN "reference"
            ELSE IF p \in {"interpret", "block", "condition", "increment", "body"}
            THEN "end"
            ELSE IF p \in Hows \cup {"operand", "enter"} THEN "nothing" ELSE "value"

Needs(p) ==
  IF p \in {"apply", "store", "element"} THEN 2
  ELSE IF Waits(p) \in {"value", "reference"} THEN 1 ELSE 0
Operands(f) == IF f.at \in ListPoints THEN f.i
               ELSE IF f.at = "body" THEN Len(Ast[f.node].kids) ELSE Needs(f.at)
Kept(f) == IF Waits(f.at) \in {"value", "reference"} THEN Operands(f) - 1
            ELSE Operands(f)

(* h: how many operands lie under those of each frame; c: how many scopes  *)
(* are open up to it.                                                      *)
Layout(s, h, c) ==
  /\ h \in [Nat -> Nat] /\ c \in [Nat -> Int]
  /\ \A j \in 1 .. Len(s) - 1 :
       /\ Waits(s[j].at) = Gives(s[j + 1].at) /\ Kept(s[j]) \in Nat
       /\ h[j + 1] = h[j] + Kept(s[j]) /\ c[j + 1] = c[j] + ScopeOf(s[j + 1])
  /\ \A j, k \in 1 .. Len(s) : j < k => h[j] + Kept(s[j]) <= h[k] /\ c[j] <= c[k]

LEMMA AtMostAtMost == \A x, y, z \in Int : x <= y /\ y <= z => x <= z
OBVIOUS

(* Popping a frame, and pushing one.                                       *)
LEMMA FrontLayout ==
  ASSUME NEW S, NEW s \in Seq(S), s # <<>>, NEW h, NEW c, Layout(s, h, c)
  PROVE  Layout(Front(s), h, c)
<1> DEFINE t == Front(s)
           n == Len(s)
<1>1. /\ t \in Seq(S) /\ Len(t) = n - 1 /\ \A i \in 1 .. n - 1 : t[i] = s[i]
      /\ n \in Nat \ {0}
  BY FrontLast, EmptySeq
<1> HIDE DEF t
<1>2. \A j \in 1 .. n - 2 : j \in 1 .. n - 1 /\ j + 1 \in 1 .. n - 1
  BY <1>1
<1>3. 1 .. n - 1 \subseteq 1 .. n /\ (n - 1) - 1 = n - 2
  BY <1>1
<1> HIDE DEF n
<1>4. /\ h \in [Nat -> Nat] /\ c \in [Nat -> Int]
      /\ \A j \in 1 .. n - 1 :
           /\ Waits(s[j].at) = Gives(s[j + 1].at) /\ Kept(s[j]) \in Nat
           /\ h[j + 1] = h[j] + Kept(s[j]) /\ c[j + 1] = c[j] + ScopeOf(s[j + 1])
      /\ \A j, k \in 1 .. n :
           j < k => h[j] + Kept(s[j]) <= h[k] /\ c[j] <= c[k]
  BY DEF Layout, n
<1>5. \A j \in 1 .. n - 2 :
        /\ Waits(t[j].at) = Gives(t[j + 1].at) /\ Kept(t[j]) \in Nat
        /\ h[j + 1] = h[j] + Kept(t[j]) /\ c[j + 1] = c[j] + ScopeOf(t[j + 1])
  BY <1>1, <1>2, <1>4
<1>6. \A j, k \in 1 .. n - 1 :
        j < k => h[j] + Kept(t[j]) <= h[k] /\ c[j] <= c[k]
  BY <1>1, <1>3, <1>4
<1>7. Layout(t, h, c)
  BY <1>1, <1>3, <1>4, <1>5, <1>6 DEF Layout
<1> QED BY <1>7 DEF t

LEMMA ScopeIs == ASSUME NEW f PROVE ScopeOf(f) \in {0, 1}
BY DEF ScopeOf

LEMMA AppendLayout ==
  ASSUME NEW S, NEW s \in Seq(S), NEW f \in S, NEW h, NEW c, Layout(s, h, c),
         NEW n, n = Len(s), NEW a \in Nat, NEW d \in Int,
         n # 0 => /\ Waits(s[n].at) = Gives(f.at) /\ Kept(s[n]) \in Nat
                  /\ a = h[n] + Kept(s[n]) /\ d = c[n] + ScopeOf(f)
  PROVE  Layout(Append(s, f), [h EXCEPT ![n + 1] = a], [c EXCEPT ![n + 1] = d])
<1> DEFINE t == Append(s, f)
           g == [h EXCEPT ![n + 1] = a]
           e == [c EXCEPT ![n + 1] = d]
<1>1. /\ Len(t) = n + 1 /\ n \in Nat /\ \A i \in 1 .. n : t[i] = s[i]
      /\ t[n + 1] = f
  BY AppendProperties
<1>2. /\ h \in [Nat -> Nat] /\ c \in [Nat -> Int]
      /\ \A j \in 1 .. n - 1 :
           /\ Waits(s[j].at) = Gives(s[j + 1].at) /\ Kept(s[j]) \in Nat
           /\ h[j + 1] = h[j] + Kept(s[j]) /\ c[j + 1] = c[j] + ScopeOf(s[j + 1])
      /\ \A j, k \in 1 .. n :
           j < k => h[j] + Kept(s[j]) <= h[k] /\ c[j] <= c[k]
  BY DEF Layout
<1>3. /\ g \in [Nat -> Nat] /\ e \in [Nat -> Int] /\ g[n + 1] = a /\ e[n + 1] = d
      /\ \A i \in 1 .. n : g[i] = h[i] /\ e[i] = c[i]
      /\ \A i \in Nat : h[i] \in Nat /\ c[i] \in Int
  <2>1. n + 1 \in Nat /\ \A i \in 1 .. n : i \in Nat /\ i # n + 1
    BY <1>1
  <2>2. h \in [Nat -> Nat] /\ c \in [Nat -> Int]
    BY <1>2
  <2> QED BY <2>1, <2>2
<1> HIDE DEF t, g, e
<1>4. ASSUME NEW j \in 1 .. n
      PROVE  /\ Waits(t[j].at) = Gives(t[j + 1].at) /\ Kept(t[j]) \in Nat
             /\ g[j + 1] = g[j] + Kept(t[j]) /\ e[j + 1] = e[j] + ScopeOf(t[j + 1])
  <2>1. CASE j = n
    <3>1. n \in 1 .. n /\ n # 0
      BY <1>1, <2>1
    <3>2. /\ Waits(s[n].at) = Gives(f.at) /\ Kept(s[n]) \in Nat
          /\ a = h[n] + Kept(s[n]) /\ d = c[n] + ScopeOf(f)
      BY <3>1
    <3>3. /\ t[n] = s[n] /\ t[n + 1] = f /\ g[n] = h[n] /\ e[n] = c[n]
          /\ g[n + 1] = a /\ e[n + 1] = d
      BY <1>1, <1>3, <3>1
    <3> QED BY <2>1, <3>2, <3>3
  <2>2. CASE j # n
    <3>1. j \in 1 .. n - 1 /\ j + 1 \in 1 .. n
      BY <1>1, <2>2
    <3> QED BY <1>1, <1>2, <1>3, <3>1
  <2> QED BY <2>1, <2>2
<1>5. ASSUME NEW j \in 1 .. n + 1, NEW k \in 1 .. n + 1, j < k
      PROVE  g[j] + Kept(t[j]) <= g[k] /\ e[j] <= e[k]
  <2>1. j \in 1 .. n
    BY <1>1, <1>5
  <2>2. CASE k # n + 1
    <3>1. k \in 1 .. n
      BY <1>1, <2>2
    <3> QED BY <1>1, <1>2, <1>3, <1>5, <2>1, <3>1
  <2>3. CASE k = n + 1
    <3>1. /\ n \in 1 .. n /\ n \in Nat /\ g[n + 1] = g[n] + Kept(t[n])
          /\ e[n + 1] = e[n] + ScopeOf(t[n + 1]) /\ Kept(t[n]) \in Nat
      BY <1>1, <1>4, <2>1
    <3>2. ScopeOf(t[n + 1]) \in {0, 1}
      BY ScopeIs
    <3>3. g[n] \in Nat /\ e[n] \in Int /\ e[n] <= e[n + 1] /\ g[n] <= g[n + 1]
      <4>1. g[n] \in Nat /\ e[n] \in Int
        BY <1>3, <3>1
      <4> QED BY <3>1, <3>2, <4>1
    <3>4. CASE j = n
      BY <1>3, <2>3, <3>1, <3>3, <3>4
    <3>5. CASE j # n
      <4>1. j \in 1 .. n /\ j < n /\ h[j] + Kept(s[j]) <= h[n] /\ c[j] <= c[n]
        <5>1. j \in 1 .. n /\ j < n
          BY <1>1, <2>1, <3>5
        <5> QED BY <1>2, <3>1, <5>1
      <4>2. Kept(t[j]) \in Nat /\ g[j] \in Nat /\ e[j] \in Int
        <5>1. j \in Nat
          BY <4>1
        <5>2. g[j] \in Nat /\ e[j] \in Int
          BY <1>3, <5>1
        <5> QED BY <1>4, <4>1, <5>2
      <4>3. g[j] + Kept(t[j]) <= g[n] /\ e[j] <= e[n]
        BY <1>1, <1>3, <3>1, <4>1
      <4>4. g[n + 1] \in Nat /\ e[n + 1] \in Int
        BY <1>3
      <4> DEFINE left == g[j] + Kept(t[j])
      <4>5. left \in Nat /\ left <= g[n]
        BY <4>2, <4>3
      <4> HIDE DEF left
      <4>6. left <= g[n + 1] /\ e[j] <= e[n + 1]
        <5> DEFINE x == g[n]
                   y == g[n + 1]
                   z == e[n]
                   w == e[n + 1]
                   v == e[j]
        <5>1. /\ left \in Int /\ x \in Int /\ y \in Int /\ left <= x /\ x <= y
              /\ v \in Int /\ z \in Int /\ w \in Int /\ v <= z /\ z <= w
          BY <1>1, <3>3, <4>2, <4>3, <4>4, <4>5
        <5> HIDE DEF x, y, z, w, v
        <5>2. left <= y /\ v <= w
          BY <5>1, AtMostAtMost
        <5> QED BY <5>2 DEF y, w, v
      <4> QED BY <2>3, <4>6 DEF left
    <3> QED BY <3>4, <3>5
  <2> QED BY <2>2, <2>3
<1>6. Len(t) - 1 = n
  BY <1>1
<1>7. Layout(t, g, e)
  BY <1>1, <1>3, <1>4, <1>5, <1>6 DEF Layout
<1> QED BY <1>7 DEF t, g, e

---------------------------------------------------------------------------
(* temps is a stack of operands.                                           *)
IsTemps(t) == \E T : t \in Seq(T)

(* What is left when the m operands at the bottom stay and new, which is   *)
(* nothing or x, goes on top of them.                                      *)
Leaves(m, x, new) ==
  /\ IsTemps(temps')
  /\ \A i \in 1 .. m : temps'[i] = temps[i]
  /\ new = <<>> => Len(temps') = m
  /\ new = <<x>> => Len(temps') = m + 1 /\ temps'[m + 1] = x

LEMMA Replaced ==
  ASSUME IsTemps(temps), NEW m \in Nat, NEW k \in Nat, Len(temps) = m + k,
         NEW x, NEW new, new = <<>> \/ new = <<x>>, Replace(k, new)
  PROVE  Leaves(m, x, new)
<1>1. PICK T : temps \in Seq(T)
  BY DEF IsTemps
<1> DEFINE S == T \cup {x}
           b == SubSeq(temps, 1, m)
<1>2. temps \in Seq(S) /\ x \in S
  BY <1>1, SeqMonotonic
<1> HIDE DEF S
<1>3. /\ b \in Seq(S) /\ Len(b) = m /\ \A i \in 1 .. m : b[i] = temps[i]
  <2>1. m <= Len(temps) /\ Len(temps) \in Nat
    BY <1>2
  <2>2. \A i \in 1 .. m : temps[i] \in S
    BY <1>2, <2>1, ElementOfSeq
  <2>3. CASE m = 0
    BY <1>2, <2>3, SubSeqProperties, SubSeqEmpty
  <2>4. CASE m # 0
    <3>1. 1 \in 1 .. Len(temps) /\ m \in 1 .. Len(temps)
      BY <2>1, <2>4
    <3> QED BY <1>2, <2>1, <2>2, <3>1, SubSeqProperties
  <2> QED BY <2>3, <2>4
<1>4. temps' = b \o new
  BY <1>2 DEF Replace
<1> HIDE DEF b
<1>5. CASE new = <<>>
  BY <1>3, <1>4, <1>5 DEF IsTemps, Leaves
<1>6. CASE new = <<x>>
  <2>1. new \in Seq(S) /\ Len(new) = 1 /\ new[1] = x
    BY <1>2, <1>6
  <2>2. /\ temps' \in Seq(S) /\ Len(temps') = m + 1
        /\ \A i \in 1 .. m + 1 : temps'[i] = IF i <= m THEN b[i] ELSE new[i - m]
    <3>1. /\ b \o new \in Seq(S) /\ Len(b \o new) = Len(b) + Len(new)
          /\ \A i \in 1 .. Len(b) + Len(new) :
               (b \o new)[i] = IF i <= Len(b) THEN b[i] ELSE new[i - Len(b)]
      BY <1>3, <2>1, ConcatProperties, Zenon
    <3> QED BY <1>3, <1>4, <2>1, <3>1
  <2>3. m + 1 \in 1 .. m + 1 /\ (m + 1) - m = 1 /\ ~ (m + 1 <= m)
    OBVIOUS
  <2>4. \A i \in 1 .. m : i \in 1 .. m + 1 /\ i <= m
    OBVIOUS
  <2>5. new # <<>>
    <3>1. <<x>> # <<>>
      OBVIOUS
    <3> QED BY <1>6, <3>1, Zenon
  <2>6. temps'[m + 1] = x
    BY <2>1, <2>2, <2>3
  <2>7. \A i \in 1 .. m : temps'[i] = temps[i]
    BY <1>3, <2>2, <2>4
  <2> QED BY <1>6, <2>2, <2>5, <2>6, <2>7 DEF IsTemps, Leaves
<1> QED BY <1>5, <1>6

LEMMA NothingReplaced ==
  ASSUME IsTemps(temps), temps' = temps PROVE Replace(0, <<>>)
<1>1. PICK T : temps \in Seq(T)
  BY DEF IsTemps
<1>2. SubSeq(temps, 1, Len(temps)) = temps
  BY <1>1
<1>3. Len(temps) - 0 = Len(temps)
  BY <1>1
<1> QED BY <1>1, <1>2, <1>3 DEF Replace

(* A reference to a variable of depth d or less, in the table es.          *)
Slotted(r, es, d) ==
  IsRef(r) /\ (r.slot => r.id \in DOMAIN es /\ es[r.id].scope_depth <= d)

(* The object of an index expression, under the frame that waits.          *)
Pinned(s, t, es, h, c) ==
  \A j \in 1 .. Len(s) : s[j].at = "element" =>
     h[j] + 1 <= Len(t) /\ Slotted(t[h[j] + 1], es, c[j])

Stacked(s, t, es, d, h, c) ==
  Layout(s, h, c) /\ Pinned(s, t, es, h, c) /\ c[Len(s)] = d

(* What a move does to the depth, by what it does to the stack.            *)
LEMMA DepthFollows ==
  ASSUME IInv, Move
  PROVE  /\ current_depth_ \in Nat
         /\ kont' = Front(kont) => current_depth_' = current_depth_ - ScopeOf(Top)
         /\ \A f : kont' = Append(Front(kont), f) =>
              current_depth_' = current_depth_ - ScopeOf(Top) + ScopeOf(f)
         /\ \A f, g : kont' = Append(Append(Front(kont), f), g) =>
              /\ current_depth_' = current_depth_ - ScopeOf(Top) + ScopeOf(f)
              /\ ScopeOf(g) = 0
<1>1. PICK N : kont \in Seq(FramesOver(N))
  BY DEF IInv, IsStack
<1>2. /\ kont # <<>> /\ current_depth_ \in Nat
      /\ current_depth_ - ScopeOf(Top) + ScopeOf(Top) = current_depth_
  BY Arithmetic1 DEF Move
<1>3. /\ Front(kont) \in Seq(FramesOver(N)) /\ Len(Front(kont)) = Len(kont) - 1
      /\ Len(kont) \in Nat /\ kont = Append(Front(kont), Top)
  BY <1>1, <1>2, FrontLast DEF Top
<1> DEFINE s == Front(kont)
<1>4. ASSUME NEW f PROVE /\ Len(Append(s, f)) = Len(s) + 1
                         /\ Append(s, f)[Len(s) + 1] = f
                         /\ \A i \in 1 .. Len(s) : Append(s, f)[i] = s[i]
                         /\ \A g : /\ Len(Append(Append(s, f), g)) = Len(s) + 2
                                   /\ Append(Append(s, f), g)[Len(s) + 1] = f
                                   /\ Append(Append(s, f), g)[Len(s) + 2] = g
  <2>1. PICK S : s \in Seq(S) /\ f \in S
    <3>1. s \in Seq(FramesOver(N) \cup {f})
      BY <1>3, SeqMonotonic
    <3> QED BY <3>1
  <2> HIDE DEF s
  <2>2. ASSUME NEW g
        PROVE  /\ Len(Append(Append(s, f), g)) = Len(s) + 2
               /\ Append(Append(s, f), g)[Len(s) + 1] = f
               /\ Append(Append(s, f), g)[Len(s) + 2] = g
    <3> DEFINE u == Append(s, f)
    <3>1. u \in Seq(S \cup {g}) /\ Len(u) = Len(s) + 1 /\ u[Len(s) + 1] = f
          /\ Len(s) \in Nat
      BY <2>1, AppendProperties, SeqMonotonic
    <3> HIDE DEF u
    <3>2. /\ Len(Append(u, g)) = Len(u) + 1 /\ Append(u, g)[Len(u) + 1] = g
          /\ \A i \in 1 .. Len(u) : Append(u, g)[i] = u[i]
      BY <3>1, AppendProperties
    <3>3. Len(s) + 1 \in 1 .. Len(u) /\ Len(u) + 1 = Len(s) + 2
      BY <3>1
    <3>4. /\ Len(Append(u, g)) = Len(s) + 2 /\ Append(u, g)[Len(s) + 1] = f
          /\ Append(u, g)[Len(s) + 2] = g
      BY <3>1, <3>2, <3>3
    <3> QED BY <3>4 DEF u
  <2> QED BY <2>1, <2>2, AppendProperties
<1>5. Len(s) \in Nat /\ Len(kont) = Len(s) + 1
  BY <1>3
<1> HIDE DEF s
<1>6. /\ Keeps => kont' = Append(s, Top) /\ current_depth_' = current_depth_
      /\ Removes => kont' = s
      /\ Replaces => \E f : kont' = Append(s, f)
      /\ Calls => \E f, g : kont' = Append(Append(s, f), g)
  BY <1>3 DEF Keeps, Removes, Replaces, Calls, s
<1>7. ASSUME kont' = s
      PROVE  current_depth_' = current_depth_ - ScopeOf(Top)
  <2>1. Removes
    BY <1>4, <1>5, <1>6, <1>7 DEF Move
  <2> QED BY <2>1 DEF Removes
<1>8. ASSUME NEW f, kont' = Append(s, f)
      PROVE  current_depth_' = current_depth_ - ScopeOf(Top) + ScopeOf(f)
  <2>1. Keeps \/ Replaces
    BY <1>4, <1>5, <1>6, <1>8 DEF Move
  <2>2. \A g : Append(s, g) = Append(s, f) => g = f
    BY <1>4
  <2>3. CASE Keeps
    BY <1>2, <1>6, <1>8, <2>2, <2>3
  <2>4. CASE Replaces
    BY <1>8, <2>2, <2>4 DEF Replaces, s
  <2> QED BY <2>1, <2>3, <2>4
<1>9. ASSUME NEW f, NEW g, kont' = Append(Append(s, f), g)
      PROVE  /\ current_depth_' = current_depth_ - ScopeOf(Top) + ScopeOf(f)
             /\ ScopeOf(g) = 0
  <2>1. Calls
    BY <1>4, <1>5, <1>6, <1>9 DEF Move
  <2>2. \A e, i : Append(Append(s, e), i) = Append(Append(s, f), g) => e = f /\ i = g
    BY <1>4
  <2>3. PICK e, i : /\ kont' = Append(Append(s, e), i) /\ i.at \in PlainPoints
                    /\ current_depth_' = current_depth_ - ScopeOf(Top) + ScopeOf(e)
    BY <2>1 DEF Calls, s
  <2>4. e = f /\ i = g
    BY <1>9, <2>2, <2>3
  <2> QED BY <2>3, <2>4, Holding
<1> QED BY <1>2, <1>7, <1>8, <1>9 DEF s

(* A reference outlives every step that leaves the scope of its variable   *)
(* open.                                                                   *)
LEMMA SlottedStays ==
  ASSUME Touch, NEW r, NEW d \in Int, NEW e \in Int, d <= current_depth_',
         IsTable(entries_), Slotted(r, entries_, d), current_depth_' \in Int
  PROVE  Slotted(r, entries_', d)
<1> SUFFICES ASSUME r.slot
             PROVE  r.id \in DOMAIN entries_' /\ entries_'[r.id].scope_depth <= d
  BY DEF Slotted
<1>1. r.id \in DOMAIN entries_ /\ entries_[r.id].scope_depth <= d
  BY DEF Slotted
<1>2. entries_[r.id].scope_depth \in Int
  BY <1>1, TableFacts
<1>3. entries_[r.id].scope_depth <= current_depth_'
  BY <1>1, <1>2, AtMostAtMost
<1>4. r.id \in DOMAIN entries_'
  BY <1>1, <1>3 DEF Touch, Stays
<1> QED BY <1>1, <1>4 DEF Touch, SameSlots

LEMMA ElementKeeps ==
  ASSUME NEW f, f.at = "element"
  PROVE  Kept(f) = 1 /\ Waits(f.at) = "value" /\ Operands(f) = 2
<1>1. Waits("element") = "value"
  BY DEF Waits, UsePoints, Hows
<1>2. Needs("element") = 2
  BY DEF Needs
<1> QED BY <1>1, <1>2 DEF Kept, Operands, ListPoints

(* What lies under the operands of the top frame stays.                    *)
LEMMA PinnedStays ==
  ASSUME Touch, IsTable(entries_), NEW h, NEW c,
         Stacked(kont, temps, entries_, current_depth_, h, c),
         NEW n \in Nat, n = Len(kont), current_depth_' \in Int,
         NEW m \in Nat, h[n] <= m, m <= Len(temps'), Len(temps') \in Nat,
         \A i \in 1 .. m : temps'[i] = temps[i],
         NEW j \in 1 .. n - 1, kont[j].at = "element", c[j] <= current_depth_'
  PROVE  h[j] + 1 <= Len(temps') /\ Slotted(temps'[h[j] + 1], entries_', c[j])
<1>1. Layout(kont, h, c) /\ Pinned(kont, temps, entries_, h, c)
  BY DEF Stacked
<1>2. j \in 1 .. n /\ n \in 1 .. n /\ j < n /\ j \in Nat /\ 1 .. n = 1 .. Len(kont)
  OBVIOUS
<1>3. h[j] \in Nat /\ c[j] \in Int /\ h[n] \in Nat /\ h[j] + Kept(kont[j]) <= h[n]
  <2>1. h \in [Nat -> Nat] /\ c \in [Nat -> Int]
    BY <1>1 DEF Layout
  <2>2. h[j] + Kept(kont[j]) <= h[n]
    BY <1>1, <1>2 DEF Layout
  <2> QED BY <1>2, <2>1, <2>2
<1>4. h[j] + 1 <= h[n]
  BY <1>3, ElementKeeps
<1>5. h[j] + 1 \in 1 .. m
  BY <1>3, <1>4
<1>6. Slotted(temps[h[j] + 1], entries_, c[j])
  BY <1>1, <1>2 DEF Pinned
<1>7. Slotted(temps[h[j] + 1], entries_', c[j])
  BY <1>3, <1>6, SlottedStays
<1> QED BY <1>5, <1>7

(* The top frame is done: the one below has its operands, and new.         *)
BackTo(n, h, c, x, new) ==
  /\ kont' # <<>> /\ IsTemps(temps') /\ n - 1 = Len(kont')
  /\ Stacked(kont', temps', entries_', current_depth_', h, c)
  /\ IsFrame(Last(kont')) /\ Waits(Last(kont').at) = Gives(Top.at)
  /\ Kept(Last(kont')) \in Nat /\ h[n - 1] \in Nat
  /\ new = <<>> => Len(temps') = h[n - 1] + Kept(Last(kont'))
  /\ new = <<x>> => /\ Len(temps') = h[n - 1] + Kept(Last(kont')) + 1
                    /\ temps'[Len(temps')] = x

LEMMA Popped ==
  ASSUME IInv, TInv, Move, Touch, IsTemps(temps), NEW h, NEW c,
         Stacked(kont, temps, entries_, current_depth_, h, c),
         NEW n, n = Len(kont), NEW k \in Nat, Len(temps) = h[n] + k,
         NEW x, NEW new, new = <<>> \/ new = <<x>>, Replace(k, new),
         Finish, Top.at # "interpret"
  PROVE  BackTo(n, h, c, x, new)
<1>1. PICK N : kont \in Seq(FramesOver(N))
  BY DEF IInv, IsStack
<1> DEFINE s == Front(kont)
<1>2. kont # <<>> /\ s # <<>>
  BY TopFacts DEF Move
<1>3. /\ s \in Seq(FramesOver(N)) /\ Len(s) = n - 1 /\ n \in Nat \ {0, 1}
      /\ \A i \in 1 .. n - 1 : s[i] = kont[i]
      /\ Top = kont[n] /\ Last(s) = kont[n - 1]
  <2>1. /\ s \in Seq(FramesOver(N)) /\ Len(s) = n - 1
        /\ \A i \in 1 .. n - 1 : s[i] = kont[i]
        /\ Top = kont[n] /\ n \in Nat
    BY <1>1, <1>2, FrontLast DEF Top
  <2>2. Len(s) # 0 /\ Len(s) \in Nat /\ Last(s) = s[Len(s)]
    BY <1>2, <2>1, EmptySeq, FrontLast
  <2>3. n - 1 \in 1 .. n - 1
    BY <2>1, <2>2
  <2> QED BY <2>1, <2>2, <2>3
<1>4. kont' = s
  BY DEF Finish
<1>5. /\ Layout(kont, h, c) /\ c[n] = current_depth_
      /\ Pinned(kont, temps, entries_, h, c)
  BY DEF Stacked
<1>6. Layout(s, h, c)
  BY <1>1, <1>2, <1>5, FrontLayout
<1> HIDE DEF s
<1>7. /\ Waits(kont[n - 1].at) = Gives(kont[n].at) /\ Kept(kont[n - 1]) \in Nat
      /\ h[n] = h[n - 1] + Kept(kont[n - 1]) /\ c[n] = c[n - 1] + ScopeOf(kont[n])
  <2>1. n - 1 \in 1 .. Len(kont) - 1 /\ (n - 1) + 1 = n
    BY <1>3
  <2>2. /\ Waits(kont[n - 1].at) = Gives(kont[(n - 1) + 1].at)
        /\ Kept(kont[n - 1]) \in Nat
        /\ h[(n - 1) + 1] = h[n - 1] + Kept(kont[n - 1])
        /\ c[(n - 1) + 1] = c[n - 1] + ScopeOf(kont[(n - 1) + 1])
    BY <1>5, <2>1 DEF Layout
  <2> QED BY <2>1, <2>2
<1>8. h[n] \in Nat /\ h[n - 1] \in Nat /\ c[n - 1] \in Int
  <2>1. h \in [Nat -> Nat] /\ c \in [Nat -> Int]
    BY <1>5 DEF Layout
  <2>2. n \in Nat /\ n - 1 \in Nat
    BY <1>3
  <2> QED BY <2>1, <2>2
<1>9. current_depth_' = c[n - 1]
  <2>1. current_depth_' = current_depth_ - ScopeOf(Top) /\ current_depth_ \in Nat
    BY <1>4, DepthFollows DEF s
  <2>2. ScopeOf(Top) \in {0, 1}
    BY ScopeIs
  <2>3. current_depth_ = c[n - 1] + ScopeOf(Top)
    BY <1>3, <1>5, <1>7
  <2> DEFINE q == c[n - 1]
  <2>4. q \in Int
    BY <1>8
  <2> HIDE DEF q
  <2>5. current_depth_' = q
    BY <2>1, <2>2, <2>3, <2>4 DEF q
  <2> QED BY <2>5 DEF q
<1>10. /\ IsTemps(temps')
       /\ \A i \in 1 .. h[n] : temps'[i] = temps[i]
       /\ new = <<>> => Len(temps') = h[n]
       /\ new = <<x>> => Len(temps') = h[n] + 1 /\ temps'[h[n] + 1] = x
  <2>1. PICK m \in Nat : m = h[n]
    BY <1>8
  <2>2. Len(temps) = m + k
    BY <2>1
  <2>3. Leaves(m, x, new)
    BY <2>2, Replaced, Zenon
  <2> QED BY <2>1, <2>3 DEF Leaves
<1>11. h[n] <= Len(temps') /\ Len(temps') \in Nat
  BY <1>8, <1>10
<1>12. ASSUME NEW j \in 1 .. n - 1, kont[j].at = "element"
       PROVE  h[j] + 1 <= Len(temps') /\ Slotted(temps'[h[j] + 1], entries_', c[j])
  <2>1. c[j] <= current_depth_'
    <3>1. CASE j = n - 1
      BY <1>8, <1>9, <3>1
    <3>2. CASE j # n - 1
      <4>1. j \in 1 .. n /\ n - 1 \in 1 .. n /\ j < n - 1 /\ 1 .. n = 1 .. Len(kont)
        BY <1>3, <1>12, <3>2
      <4>2. c[j] <= c[n - 1]
        BY <1>5, <4>1 DEF Layout
      <4> QED BY <1>9, <4>2
    <3> QED BY <3>1, <3>2
  <2>2. current_depth_' \in Int /\ n \in Nat
    BY <1>3, <1>8, <1>9
  <2>3. IsTable(entries_)
    BY DEF TInv
  <2>4. PICK m \in Nat : m = h[n]
    BY <1>8
  <2>5. h[n] <= m /\ m <= Len(temps') /\ \A i \in 1 .. m : temps'[i] = temps[i]
    BY <1>10, <1>11, <2>4
  <2> QED BY <1>11, <1>12, <2>1, <2>2, <2>3, <2>5, PinnedStays, Zenon
<1>13. Pinned(s, temps', entries_', h, c)
  BY <1>3, <1>12 DEF Pinned
<1>14. Stacked(kont', temps', entries_', current_depth_', h, c)
  BY <1>3, <1>4, <1>6, <1>9, <1>13, Zenon DEF Stacked
<1>15. Last(kont') = kont[n - 1]
  BY <1>3, <1>4
<1>16. IsFrame(Last(kont'))
  <2>1. n - 1 \in 1 .. Len(kont)
    BY <1>3
  <2>2. kont[n - 1] \in FramesOver(N)
    BY <1>1, <2>1, ElementOfSeq
  <2> QED BY <1>15, <2>2 DEF IsFrame, FramesOver
<1> QED BY <1>2, <1>3, <1>4, <1>7, <1>8, <1>10, <1>14, <1>15, <1>16 DEF BackTo

---------------------------------------------------------------------------
(* The three ways to change the stack: done, going on, calling.            *)

(* The stack s with f on top instead, laid out by h and e.                 *)
Retopped(n, h, c, f, d, S, s, e) ==
  /\ s = Append(Front(kont), f) /\ s \in Seq(S) /\ Len(s) = n
  /\ Layout(s, h, e) /\ e[n] = d /\ d \in Int /\ s[n] = f
  /\ n \in Nat \ {0} /\ h[n] \in Nat /\ Top = kont[n]
  /\ \A i \in 1 .. n - 1 :
       s[i] = kont[i] /\ e[i] = c[i] /\ c[i] \in Int /\ c[i] <= d

LEMMA TopReplaced ==
  ASSUME IInv, kont # <<>>, NEW n, n = Len(kont), NEW h, NEW c,
         Layout(kont, h, c), c[n] = current_depth_,
         NEW f, IsFrame(f), Gives(f.at) = Gives(Top.at),
         NEW d, d = current_depth_ - ScopeOf(Top) + ScopeOf(f)
  PROVE  \E S, s, e : Retopped(n, h, c, f, d, S, s, e)
<1>1. PICK M : kont \in Seq(FramesOver(M))
  BY DEF IInv, IsStack
<1> DEFINE N == M \cup {f.node}
           S == FramesOver(N)
           r == Front(kont)
           s == Append(r, f)
           e == [c EXCEPT ![n] = d]
<1>2. kont \in Seq(S) /\ f \in S
  <2>1. FramesOver({f.node}) \subseteq FramesOver(M \cup {f.node})
    BY DEF FramesOver
  <2> QED BY <1>1, <2>1, FramesGrow DEF IsFrame
<1> HIDE DEF S
<1>3. /\ r \in Seq(S) /\ Len(r) = n - 1 /\ n \in Nat \ {0}
      /\ \A i \in 1 .. n - 1 : r[i] = kont[i]
      /\ Top = kont[n]
  <2>1. n \in Nat /\ n # 0
    BY <1>2, EmptySeq
  <2> QED BY <1>2, <2>1, FrontLast DEF Top
<1>4. Layout(r, h, c)
  BY <1>2, FrontLayout
<1> HIDE DEF r
<1>5. /\ s \in Seq(S) /\ Len(s) = n /\ s[n] = f
      /\ \A i \in 1 .. n - 1 : s[i] = kont[i]
  <2>1. /\ s \in Seq(S) /\ Len(s) = Len(r) + 1 /\ s[Len(r) + 1] = f
        /\ \A i \in 1 .. Len(r) : s[i] = r[i]
    BY <1>2, <1>3, AppendProperties
  <2>2. Len(r) + 1 = n
    BY <1>3
  <2> QED BY <1>3, <2>1, <2>2
<1>6. /\ h \in [Nat -> Nat] /\ c \in [Nat -> Int]
      /\ \A j \in 1 .. n - 1 :
           /\ Waits(kont[j].at) = Gives(kont[j + 1].at) /\ Kept(kont[j]) \in Nat
           /\ h[j + 1] = h[j] + Kept(kont[j])
           /\ c[j + 1] = c[j] + ScopeOf(kont[j + 1])
      /\ \A j, k \in 1 .. n : j < k => c[j] <= c[k]
  BY DEF Layout
<1>7. /\ current_depth_ \in Nat /\ ScopeOf(Top) \in {0, 1} /\ ScopeOf(f) \in {0, 1}
      /\ h[n] \in Nat /\ d \in Int
  <2>1. h[n] \in Nat
    BY <1>3, <1>6
  <2>2. current_depth_ \in Nat
    BY Arithmetic1
  <2>3. ScopeOf(Top) \in {0, 1} /\ ScopeOf(f) \in {0, 1}
    BY ScopeIs
  <2> QED BY <2>1, <2>2, <2>3
<1>8. ASSUME n - 1 # 0
      PROVE  /\ Waits(r[n - 1].at) = Gives(f.at) /\ Kept(r[n - 1]) \in Nat
             /\ h[n] = h[n - 1] + Kept(r[n - 1]) /\ d = c[n - 1] + ScopeOf(f)
  <2>1. n - 1 \in 1 .. n - 1 /\ (n - 1) + 1 = n /\ n - 1 \in Nat
    BY <1>3, <1>8
  <2>2. /\ Waits(kont[n - 1].at) = Gives(kont[n].at) /\ Kept(kont[n - 1]) \in Nat
        /\ h[n] = h[n - 1] + Kept(kont[n - 1])
        /\ c[n] = c[n - 1] + ScopeOf(kont[n])
    BY <1>6, <2>1
  <2>3. r[n - 1] = kont[n - 1]
    BY <1>3, <2>1
  <2> DEFINE q == c[n - 1]
  <2>4. q \in Int
    BY <1>6, <2>1
  <2>5. current_depth_ = q + ScopeOf(Top)
    BY <1>3, <2>2
  <2> HIDE DEF q
  <2>6. d = q + ScopeOf(f)
    BY <1>7, <2>4, <2>5
  <2> QED BY <1>3, <2>2, <2>3, <2>6 DEF q
<1> DEFINE l == n - 1
<1>9. Layout(s, [h EXCEPT ![l + 1] = h[n]], [c EXCEPT ![l + 1] = d])
  <2>1. l # 0 => /\ Waits(r[l].at) = Gives(f.at) /\ Kept(r[l]) \in Nat
                 /\ h[n] = h[l] + Kept(r[l]) /\ d = c[l] + ScopeOf(f)
    BY <1>8
  <2>2. l = Len(r)
    BY <1>3
  <2> HIDE DEF l
  <2> QED BY <1>2, <1>3, <1>4, <1>7, <2>1, <2>2, AppendLayout
<1>10. l + 1 = n
  BY <1>3
<1>11. [h EXCEPT ![n] = h[n]] = h
  BY <1>3, <1>6
<1>12. Layout(s, h, e)
  BY <1>9, <1>10, <1>11
<1>13. /\ e[n] = d
       /\ \A i \in 1 .. n - 1 : e[i] = c[i] /\ c[i] \in Int
  <2>1. n \in Nat /\ \A i \in 1 .. n - 1 : i \in Nat /\ i # n
    BY <1>3
  <2> QED BY <1>6, <2>1
<1>14. ASSUME NEW i \in 1 .. n - 1 PROVE c[i] <= d
  <2>1. i \in 1 .. n /\ n \in 1 .. n /\ i < n
    BY <1>3
  <2>2. e[i] <= e[n]
    BY <1>5, <1>12, <2>1 DEF Layout
  <2> QED BY <1>13, <2>2
<1>15. s = Append(Front(kont), f)
  BY DEF r
<1> HIDE DEF s, e, N, l
<1>16. \A i \in 1 .. n - 1 :
          s[i] = kont[i] /\ e[i] = c[i] /\ c[i] \in Int /\ c[i] <= d
  BY <1>5, <1>13, <1>14
<1>17. Retopped(n, h, c, f, d, S, s, e)
  BY <1>3, <1>5, <1>7, <1>12, <1>13, <1>15, <1>16 DEF Retopped
<1> QED BY <1>17

(* What every step starts from: the operands of the top frame and those    *)
(* under it.                                                               *)
Laid(n, h, c) ==
  /\ IInv /\ TInv /\ kont # <<>> /\ IsTemps(temps) /\ n = Len(kont)
  /\ Stacked(kont, temps, entries_, current_depth_, h, c)

LEMMA UnderTop ==
  ASSUME Touch, NEW n, NEW h, NEW c, Laid(n, h, c),
         NEW f, NEW S, NEW s, NEW e, Retopped(n, h, c, f, current_depth_', S, s, e),
         NEW m \in Nat, h[n] <= m, m <= Len(temps'), Len(temps') \in Nat,
         \A i \in 1 .. m : temps'[i] = temps[i],
         NEW j \in 1 .. n - 1, s[j].at = "element"
  PROVE  h[j] + 1 <= Len(temps') /\ Slotted(temps'[h[j] + 1], entries_', e[j])
<1>1. kont[j].at = "element" /\ e[j] = c[j] /\ c[j] <= current_depth_'
  BY DEF Retopped
<1>2. n \in Nat /\ current_depth_' \in Int
  BY DEF Retopped
<1>3. /\ IsTable(entries_) /\ n = Len(kont)
      /\ Stacked(kont, temps, entries_, current_depth_, h, c)
  BY DEF Laid, TInv
<1>4. h[j] + 1 <= Len(temps') /\ Slotted(temps'[h[j] + 1], entries_', c[j])
  BY <1>1, <1>2, <1>3, PinnedStays
<1> QED BY <1>1, <1>4

(* The top frame goes on as f, and needs k operands no more.               *)
LEMMA Swapped ==
  ASSUME Move, Touch, NEW n, NEW h, NEW c, Laid(n, h, c),
         NEW f, IsFrame(f), Become(f), Gives(f.at) = Gives(Top.at),
         f.at # "element", NEW k \in Nat, NEW m \in Nat,
         Len(temps) = h[n] + m + k, Replace(k, <<>>)
  PROVE  /\ kont' # <<>> /\ IsTemps(temps') /\ n = Len(kont') /\ Last(kont') = f
         /\ Len(temps') = h[n] + m
         /\ \E e : Stacked(kont', temps', entries_', current_depth_', h, e)
<1>1. /\ IInv /\ kont # <<>> /\ IsTemps(temps) /\ n = Len(kont)
      /\ Layout(kont, h, c) /\ c[n] = current_depth_
  BY DEF Laid, Stacked
<1>2. kont' = Append(Front(kont), f)
  BY DEF Become
<1>3. current_depth_' = current_depth_ - ScopeOf(Top) + ScopeOf(f)
  BY <1>1, <1>2, DepthFollows
<1>4. PICK S, s, e : Retopped(n, h, c, f, current_depth_', S, s, e)
  BY <1>1, <1>3, TopReplaced
<1>5. /\ kont' = s /\ s \in Seq(S) /\ Len(s) = n /\ s[n] = f /\ n \in Nat \ {0}
      /\ Layout(s, h, e) /\ e[n] = current_depth_' /\ h[n] \in Nat
  BY <1>2, <1>4 DEF Retopped
<1>6. PICK b \in Nat : b = h[n] + m
  BY <1>5
<1>7. IsTemps(temps') /\ Len(temps') = b /\ \A i \in 1 .. b : temps'[i] = temps[i]
  <2>1. Leaves(b, 0, <<>>)
    BY <1>1, <1>6, Replaced
  <2> QED BY <2>1 DEF Leaves
<1>8. ASSUME NEW j \in 1 .. n, s[j].at = "element"
      PROVE  h[j] + 1 <= Len(temps') /\ Slotted(temps'[h[j] + 1], entries_', e[j])
  <2>1. j \in 1 .. n - 1
    BY <1>5, <1>8
  <2>2. h[n] <= b /\ b <= Len(temps') /\ Len(temps') \in Nat
    BY <1>5, <1>6, <1>7
  <2> QED BY <1>4, <1>7, <1>8, <2>1, <2>2, UnderTop
<1>9. Pinned(s, temps', entries_', h, e)
  BY <1>5, <1>8 DEF Pinned
<1>10. Stacked(kont', temps', entries_', current_depth_', h, e)
  BY <1>5, <1>9, Zenon DEF Stacked
<1>11. Last(kont') = f /\ kont' # <<>> /\ n = Len(kont')
  BY <1>5, EmptySeq DEF Last
<1> QED BY <1>6, <1>7, <1>10, <1>11

(* The top frame goes on as f when g, which it calls, is done.             *)
LEMMA Called ==
  ASSUME Move, Touch, NEW n, NEW h, NEW c, Laid(n, h, c),
         NEW f, IsFrame(f), NEW g, IsFrame(g), BecomeThen(f, g),
         Gives(f.at) = Gives(Top.at), Waits(f.at) = Gives(g.at),
         Kept(f) \in Nat, Len(temps) = h[n] + Kept(f), temps' = temps,
         g.at # "element",
         f.at = "element" => Slotted(Temp(0), entries_, current_depth_)
  PROVE  /\ kont' # <<>> /\ IsTemps(temps') /\ n + 1 = Len(kont') /\ Last(kont') = g
         /\ \E a, e : /\ Stacked(kont', temps', entries_', current_depth_', a, e)
                      /\ a[n + 1] = Len(temps')
<1>1. /\ IInv /\ kont # <<>> /\ IsTemps(temps) /\ n = Len(kont)
      /\ Layout(kont, h, c) /\ c[n] = current_depth_ /\ TInv
  BY DEF Laid, Stacked
<1>2. kont' = Append(Append(Front(kont), f), g)
  BY DEF BecomeThen
<1>3. /\ current_depth_' = current_depth_ - ScopeOf(Top) + ScopeOf(f)
      /\ ScopeOf(g) = 0
  BY <1>1, <1>2, DepthFollows
<1>4. PICK R, r, d : Retopped(n, h, c, f, current_depth_', R, r, d)
  BY <1>1, <1>3, TopReplaced
<1>5. /\ kont' = Append(r, g) /\ r \in Seq(R) /\ Len(r) = n /\ r[n] = f
      /\ n \in Nat \ {0} /\ Layout(r, h, d) /\ d[n] = current_depth_'
      /\ h[n] \in Nat /\ current_depth_' \in Int
  BY <1>2, <1>4 DEF Retopped
<1> DEFINE S == R \cup {g}
           top == Len(temps)
           a == [h EXCEPT ![n + 1] = top]
           e == [d EXCEPT ![n + 1] = current_depth_']
<1>6. top \in Nat
  BY <1>5
<1>7. Layout(kont', a, e)
  <2>1. r \in Seq(S) /\ g \in S
    BY <1>5, SeqMonotonic
  <2>2. /\ Waits(r[n].at) = Gives(g.at) /\ Kept(r[n]) \in Nat
        /\ top = h[n] + Kept(r[n]) /\ current_depth_' = d[n] + ScopeOf(g)
    BY <1>3, <1>5
  <2> HIDE DEF S, top
  <2> QED BY <1>5, <1>6, <2>1, <2>2, AppendLayout
<1>8. /\ a[n + 1] = top /\ e[n + 1] = current_depth_'
      /\ \A i \in 1 .. n : a[i] = h[i] /\ e[i] = d[i]
  <2>1. n + 1 \in Nat /\ \A i \in 1 .. n : i \in Nat /\ i # n + 1
    BY <1>5
  <2>2. h \in [Nat -> Nat] /\ d \in [Nat -> Int]
    BY <1>5 DEF Layout
  <2> QED BY <2>1, <2>2
<1>9. /\ kont' \in Seq(S) /\ Len(kont') = n + 1 /\ kont'[n + 1] = g
      /\ \A i \in 1 .. n : kont'[i] = r[i]
  <2>1. r \in Seq(S) /\ g \in S
    BY <1>5, SeqMonotonic
  <2> HIDE DEF S
  <2> QED BY <1>5, <2>1, AppendProperties
<1> HIDE DEF S, top, a, e
<1>10. ASSUME NEW j \in 1 .. n + 1, kont'[j].at = "element"
       PROVE  a[j] + 1 <= Len(temps') /\ Slotted(temps'[a[j] + 1], entries_', e[j])
  <2>1. j \in 1 .. n /\ r[j].at = "element" /\ a[j] = h[j] /\ e[j] = d[j]
    <3>1. j # n + 1
      BY <1>9, <1>10
    <3>2. j \in 1 .. n
      BY <1>5, <3>1
    <3> QED BY <1>8, <1>9, <1>10, <3>2
  <2>2. CASE j = n
    <3>1. Slotted(Temp(0), entries_, current_depth_) /\ Kept(f) = 1
      BY <1>5, <2>1, <2>2, ElementKeeps
    <3>2. Temp(0) = temps[h[n] + 1] /\ h[n] + 1 = Len(temps)
      BY <1>5, <3>1 DEF Temp
    <3>3. current_depth_' = current_depth_ /\ current_depth_ \in Int
      <4>1. ScopeOf(f) = 0
        BY <1>5, <2>1, <2>2, Holding DEF PlainPoints
      <4>2. ScopeOf(Top) \in {0, 1} /\ current_depth_ \in Nat
        BY <1>1, ScopeIs, Arithmetic1
      <4>3. Gives(f.at) = "reference"
        BY <1>5, <2>1, <2>2 DEF Gives, StatementPoints, ReferencePoints, LoopPoints
      <4>4. Top.at \in ReferencePoints
        BY <4>3 DEF Gives
      <4>5. ScopeOf(Top) = 0
        BY <4>4, Holding DEF ReferencePoints, PlainPoints
      <4> QED BY <1>3, <4>1, <4>2, <4>5
    <3>4. Slotted(temps[h[n] + 1], entries_', current_depth_')
      BY <1>1, <3>1, <3>2, <3>3, SlottedStays DEF TInv
    <3> QED BY <1>5, <2>1, <2>2, <3>2, <3>4
  <2>3. CASE j # n
    <3>1. j \in 1 .. n - 1
      BY <1>5, <2>1, <2>3
    <3>2. PICK m \in Nat : m = Len(temps)
      BY <1>6 DEF top
    <3>3. /\ h[n] <= m /\ m <= Len(temps') /\ Len(temps') \in Nat
          /\ \A i \in 1 .. m : temps'[i] = temps[i]
      BY <1>5, <3>2
    <3>4. h[j] + 1 <= Len(temps') /\ Slotted(temps'[h[j] + 1], entries_', d[j])
      BY <1>4, <2>1, <3>1, <3>3, UnderTop
    <3> QED BY <2>1, <3>4
  <2> QED BY <2>2, <2>3
<1>11. Pinned(kont', temps', entries_', a, e)
  BY <1>9, <1>10 DEF Pinned
<1>12. Stacked(kont', temps', entries_', current_depth_', a, e)
  BY <1>7, <1>8, <1>9, <1>11, Zenon DEF Stacked
<1>13. Last(kont') = g /\ kont' # <<>> /\ n + 1 = Len(kont')
  <2>1. Len(kont') # 0
    BY <1>5, <1>9
  <2> QED BY <1>9, <2>1, EmptySeq DEF Last
<1> QED BY <1>1, <1>8, <1>12, <1>13 DEF top

---------------------------------------------------------------------------
(* The invariant, and the three ways to keep it.                           *)

(* The operands over the b of the frames below are those that the top      *)
(* frame needs, and what is returned; a reference it uses is fresh.        *)
Full(b, f, t, m) ==
  /\ Operands(f) \in Nat
  /\ m = "run" => Len(t) = b + Operands(f)
  /\ m = "return" => Waits(f.at) = "end" /\ Len(t) = b + Operands(f) + 1
FreshIn(r, es, d, cap) == Slotted(r, es, d) /\ (r.slot => r.cap = cap)

OInv ==
  mode \in {"run", "return"} =>
    /\ kont # <<>> /\ IsTemps(temps)
    /\ \E h, c : /\ Stacked(kont, temps, entries_, current_depth_, h, c)
                 /\ Full(h[Len(kont)], Last(kont), temps, mode)
    /\ mode = "run" /\ Last(kont).at \in UsePoints =>
         FreshIn(temps[Len(temps)], entries_, current_depth_, capacity_)

(* A step from an ordinary state.                                          *)
Steps == IInv /\ TInv /\ OInv /\ Move /\ Touch
Runs == Steps /\ mode = "run" /\ mode' = "run"

LEMMA OFacts ==
  ASSUME Steps, mode \in {"run", "return"}
  PROVE  \E n, h, c : /\ Laid(n, h, c) /\ Full(h[n], Top, temps, mode)
                      /\ h[n] \in Nat
<1>1. PICK h, c : /\ Stacked(kont, temps, entries_, current_depth_, h, c)
                  /\ Full(h[Len(kont)], Last(kont), temps, mode)
  BY DEF OInv, Steps
<1>2. kont # <<>> /\ IsTemps(temps) /\ IInv /\ TInv
  BY DEF OInv, Steps
<1>3. h[Len(kont)] \in Nat
  <2>1. h \in [Nat -> Nat]
    BY <1>1 DEF Stacked, Layout
  <2>2. Len(kont) \in Nat
    BY <1>2 DEF IInv, IsStack
  <2> QED BY <2>1, <2>2
<1> QED BY <1>1, <1>2, <1>3, Zenon DEF Laid, Top

LEMMA GoesOn ==
  ASSUME Runs, NEW f, IsFrame(f), Become(f), Gives(f.at) = Gives(Top.at),
         f.at \notin UsePoints \cup {"element"},
         NEW k \in Nat, Operands(f) \in Nat, Operands(Top) = Operands(f) + k,
         Replace(k, <<>>)
  PROVE  OInv'
<1>1. PICK n, h, c : /\ Laid(n, h, c) /\ Full(h[n], Top, temps, mode)
                     /\ h[n] \in Nat
  BY OFacts DEF Runs
<1>2. Len(temps) = h[n] + Operands(f) + k
  <2>1. Len(temps) = h[n] + Operands(Top)
    BY <1>1 DEF Full, Runs
  <2> QED BY <1>1, <2>1
<1>3. /\ kont' # <<>> /\ IsTemps(temps') /\ n = Len(kont') /\ Last(kont') = f
      /\ Len(temps') = h[n] + Operands(f)
      /\ \E e : Stacked(kont', temps', entries_', current_depth_', h, e)
  BY <1>1, <1>2, Swapped DEF Runs, Steps
<1>4. Full(h[n], f, temps', mode')
  BY <1>3 DEF Full, Runs
<1> QED BY <1>3, <1>4 DEF OInv, Runs

LEMMA CallsOn ==
  ASSUME Runs, NEW f, IsFrame(f), NEW g, IsFrame(g), BecomeThen(f, g),
         Gives(f.at) = Gives(Top.at), Waits(f.at) = Gives(g.at),
         Kept(f) = Operands(Top), Operands(g) = 0, temps' = temps,
         g.at \notin UsePoints \cup {"element"},
         f.at = "element" => Top.at \in UsePoints
  PROVE  OInv'
<1>1. PICK n, h, c : /\ Laid(n, h, c) /\ Full(h[n], Top, temps, mode)
                     /\ h[n] \in Nat
  BY OFacts DEF Runs
<1>2. Len(temps) = h[n] + Kept(f) /\ Kept(f) \in Nat
  BY <1>1 DEF Full, Runs
<1>3. f.at = "element" => Slotted(Temp(0), entries_, current_depth_)
  <2>1. Len(temps) \in Nat /\ Len(temps) - 0 = Len(temps)
    BY <1>1, <1>2
  <2>2. Temp(0) = temps[Len(temps)]
    BY <2>1 DEF Temp
  <2> QED BY <2>2 DEF Runs, Steps, OInv, FreshIn, Top
<1>4. /\ kont' # <<>> /\ IsTemps(temps') /\ n + 1 = Len(kont') /\ Last(kont') = g
      /\ \E a, e : /\ Stacked(kont', temps', entries_', current_depth_', a, e)
                   /\ a[n + 1] = Len(temps')
  BY <1>1, <1>2, <1>3, Called DEF Runs, Steps
<1>5. PICK a, e : /\ Stacked(kont', temps', entries_', current_depth_', a, e)
                  /\ a[n + 1] = Len(temps')
  BY <1>4
<1>6. Full(a[n + 1], g, temps', mode')
  <2>1. Len(temps') \in Nat
    BY <1>1, <1>2
  <2> QED BY <1>5, <2>1 DEF Full, Runs
<1> QED BY <1>4, <1>5, <1>6 DEF OInv, Runs

(* The top frame is done, in one of four ways.                             *)
Yields(x, new) ==
  \/ mode' = "run" /\ Gives(Top.at) = "end" /\ new = <<>>
  \/ mode' = "run" /\ Gives(Top.at) = "value" /\ new = <<x>>
  \/ /\ mode' = "run" /\ Gives(Top.at) = "reference" /\ new = <<x>>
     /\ FreshIn(x, entries_', current_depth_', capacity_')
  \/ mode' = "return" /\ Gives(Top.at) = "end" /\ new = <<x>>

LEMMA OperandsType ==
  ASSUME NEW f, IsFrame(f), Waits(f.at) \in {"value", "reference"}
  PROVE  Operands(f) \in Nat
<1>1. f.at # "body"
  BY DEF Waits, UsePoints
<1>2. f.i \in Nat
  BY DEF IsFrame, FramesOver
<1>3. Needs(f.at) \in Nat
  BY DEF Needs
<1> QED BY <1>1, <1>2, <1>3 DEF Operands

LEMMA UsesWait ==
  ASSUME NEW p
  PROVE  /\ Waits(p) \in {"reference", "end", "nothing", "value"}
         /\ p \in UsePoints <=> Waits(p) = "reference"
BY DEF Waits, UsePoints

LEMMA Ends ==
  ASSUME Steps, mode \in {"run", "return"}, Finish, Top.at # "interpret",
         NEW k \in Nat, k = Operands(Top) + (IF mode = "run" THEN 0 ELSE 1),
         NEW x, NEW new, Replace(k, new), Yields(x, new)
  PROVE  OInv'
<1>1. PICK n, h, c : /\ Laid(n, h, c) /\ Full(h[n], Top, temps, mode)
                     /\ h[n] \in Nat
  BY OFacts
<1>2. Len(temps) = h[n] + k
  BY <1>1 DEF Full
<1>3. new = <<>> \/ new = <<x>>
  BY DEF Yields
<1> DEFINE f == Last(kont')
           b == h[n - 1]
<1>4. /\ kont' # <<>> /\ IsTemps(temps') /\ n - 1 = Len(kont')
      /\ Stacked(kont', temps', entries_', current_depth_', h, c)
      /\ Waits(f.at) = Gives(Top.at) /\ Kept(f) \in Nat /\ IsFrame(f)
      /\ b \in Nat
      /\ new = <<>> => Len(temps') = b + Kept(f)
      /\ new = <<x>> => Len(temps') = b + Kept(f) + 1 /\ temps'[Len(temps')] = x
  <2>1. BackTo(n, h, c, x, new)
    BY <1>1, <1>2, <1>3, Popped DEF Laid, Steps
  <2> QED BY <2>1 DEF BackTo
<1> HIDE DEF f, b
<1>5. /\ Waits(f.at) \in {"value", "reference"} => Operands(f) = Kept(f) + 1
      /\ Waits(f.at) = "end" => Operands(f) = Kept(f)
  <2>1. Waits(f.at) = "end" => Operands(f) = Kept(f)
    BY DEF Kept
  <2>2. ASSUME Waits(f.at) \in {"value", "reference"}
        PROVE  Operands(f) = Kept(f) + 1
    <3> HIDE DEF f
    <3>2. Operands(f) \in Nat
      BY <1>4, <2>2, OperandsType
    <3>1. Kept(f) = Operands(f) - 1
      BY <2>2 DEF Kept
    <3> QED BY <1>4, <3>1, <3>2
  <2> QED BY <2>1, <2>2
<1>6. Full(b, f, temps', mode') /\ mode' \in {"run", "return"}
  BY <1>4, <1>5 DEF Full, Yields
<1>7. ASSUME mode' = "run", f.at \in UsePoints
      PROVE  FreshIn(temps'[Len(temps')], entries_', current_depth_', capacity_')
  <2>1. Gives(Top.at) = "reference"
    BY <1>4, <1>7, UsesWait
  <2>2. new = <<x>> /\ FreshIn(x, entries_', current_depth_', capacity_')
    BY <1>7, <2>1 DEF Yields
  <2> QED BY <1>4, <2>2
<1>8. h[Len(kont')] = b
  BY <1>4 DEF b
<1> QED BY <1>4, <1>6, <1>7, <1>8 DEF OInv, f

(* An exception, or the end of the run: nothing is claimed of temps.       *)
LEMMA Fails == ASSUME mode' \notin {"run", "return"} PROVE OInv'
BY DEF OInv

---------------------------------------------------------------------------
(* The steps that handlers are built from.                                 *)
Ordinary == Steps /\ mode = "run"

SinglePoints == Points \ (ListPoints \cup {"body"})

LEMMA OrdinaryFacts ==
  ASSUME Ordinary
  PROVE  /\ IsFrame(Top) /\ Top.i \in Nat /\ kont # <<>> /\ IsTemps(temps)
         /\ Top.at \in ListPoints => Operands(Top) = Top.i
         /\ Top.at \in SinglePoints => Operands(Top) = Needs(Top.at)
         /\ Needs(Top.at) \in Nat
<1>1. IInv /\ kont # <<>> /\ IsTemps(temps)
  BY DEF Ordinary, Steps, OInv
<1>2. IsFrame(Top)
  BY <1>1, TopFacts
<1>3. Top.i \in Nat /\ Top.at \in Points
  BY <1>2 DEF IsFrame, FramesOver
<1>4. Needs(Top.at) \in Nat
  BY DEF Needs
<1> QED BY <1>1, <1>2, <1>3, <1>4 DEF Operands, SinglePoints

LEMMA NewFrame ==
  ASSUME NEW p \in Points, NEW n
  PROVE  /\ IsFrame(Frame(p, n)) /\ Frame(p, n).at = p
         /\ p \in ListPoints => Operands(Frame(p, n)) = 0
         /\ p \in SinglePoints => Operands(Frame(p, n)) = Needs(p)
<1>1. IsFrame(Frame(p, n)) /\ Frame(p, n).at = p /\ Frame(p, n).i = 0
  BY FrameFacts DEF Frame
<1> QED BY <1>1 DEF Operands, SinglePoints

(* p may follow q: it does the same for the frame below.                   *)
Follows(q, p) == q \in SinglePoints /\ p \in SinglePoints /\ Gives(p) = Gives(q)

(* p waits for what an expression or statement gives, with the operands    *)
(* that q had.                                                             *)
Suits(q, p, how) ==
  /\ Follows(q, p) /\ Waits(p) = Gives(how)
  /\ Needs(q) = Needs(p) - (IF Waits(p) = "end" THEN 0 ELSE 1)
  /\ p = "element" => q \in UsePoints

LEMMA HowFacts ==
  ASSUME NEW how \in Hows
  PROVE  /\ how \in SinglePoints /\ how \in Points /\ Needs(how) = 0
         /\ how \notin UsePoints \cup {"element"}
         /\ Gives(how) \in {"end", "value", "reference"}
<1>1. how \in SinglePoints /\ how \in Points /\ how \notin UsePoints \cup {"element"}
  BY DEF Hows, SinglePoints, Points, ListPoints, UsePoints
<1>2. Waits(how) = "nothing"
  BY <1>1 DEF Waits, Hows
<1>3. Needs(how) = 0
  BY <1>1, <1>2 DEF Needs, Hows
<1>4. Gives(how) \in {"end", "value", "reference"}
  BY DEF Gives
<1> QED BY <1>1, <1>3, <1>4

LEMMA ThenLays ==
  ASSUME Ordinary, NEW how \in Hows, NEW p, NEW n, NEW m,
         BecomeThen(Frame(p, n), Frame(how, m)), mode' = mode, temps' = temps,
         Suits(Top.at, p, how)
  PROVE  OInv'
<1> DEFINE f == Frame(p, n)
           g == Frame(how, m)
<1>1. p \in SinglePoints /\ p \in Points /\ Top.at \in SinglePoints
  BY DEF Suits, Follows, SinglePoints
<1>2. IsFrame(f) /\ f.at = p /\ Operands(f) = Needs(p)
  BY <1>1, NewFrame
<1>3. IsFrame(g) /\ g.at = how /\ Operands(g) = 0
  BY HowFacts, NewFrame
<1> HIDE DEF f, g
<1>4. Waits(p) \in {"end", "value", "reference"}
  BY HowFacts DEF Suits
<1>5. Kept(f) = Operands(Top)
  <2>1. /\ Needs(p) \in Nat /\ Operands(Top) = Needs(Top.at)
        /\ Needs(Top.at) = Needs(p) - (IF Waits(p) = "end" THEN 0 ELSE 1)
    BY <1>1, OrdinaryFacts DEF Needs, Suits
  <2>2. CASE Waits(p) = "end"
    BY <1>2, <2>1, <2>2 DEF Kept
  <2>3. CASE Waits(p) \in {"value", "reference"}
    BY <1>2, <2>1, <2>3 DEF Kept
  <2> QED BY <1>4, <2>2, <2>3
<1>6. BecomeThen(f, g)
  BY DEF f, g
<1> QED BY <1>2, <1>3, <1>5, <1>6, CallsOn, HowFacts
        DEF Ordinary, Runs, Suits, Follows

LEMMA ThenNextLays ==
  ASSUME Ordinary, NEW how \in Hows, NEW nodes, ThenNext(how, nodes),
         Top.at \in {"interpret", "block"} \cup ListPoints \cup {"body"},
         Waits(Top.at) = Gives(how)
  PROVE  OInv'
<1> DEFINE f == Advanced
           g == Frame(how, nodes[Top.i + 1])
<1>1. IsFrame(Top) /\ Top.i \in Nat /\ Operands(Top) \in Nat
  <2>1. PICK n, h, c : Full(h[n], Top, temps, mode)
    BY OFacts DEF Ordinary
  <2> QED BY <2>1, OrdinaryFacts DEF Full
<1>2. /\ IsFrame(f) /\ f.at = Top.at /\ f.node = Top.node /\ f.i = Top.i + 1
  BY <1>1 DEF Advanced, IsFrame, FramesOver
<1>3. IsFrame(g) /\ g.at = how /\ Operands(g) = 0
  BY HowFacts, NewFrame
<1>4. BecomeThen(f, g) /\ mode' = mode /\ temps' = temps
  BY DEF ThenNext
<1> HIDE DEF f, g
<1>5. Kept(f) = Operands(Top)
  <2>1. CASE Top.at \in ListPoints
    <3>1. Waits(Top.at) = "value"
      BY <2>1 DEF Waits, UsePoints, ListPoints, Hows
    <3>2. Operands(f) = Top.i + 1 /\ Operands(Top) = Top.i
      BY <1>2, <2>1 DEF Operands
    <3> QED BY <1>1, <1>2, <3>1, <3>2 DEF Kept
  <2>2. CASE Top.at \notin ListPoints
    <3>1. Waits(Top.at) = "end"
      BY <2>2 DEF Waits, UsePoints
    <3>2. Operands(f) = Operands(Top)
      BY <1>2, <2>2 DEF Operands
    <3> QED BY <1>2, <3>1, <3>2 DEF Kept
  <2> QED BY <2>1, <2>2
<1>6. f.at # "element"
  BY <1>2 DEF ListPoints
<1> QED BY <1>2, <1>3, <1>4, <1>5, <1>6, CallsOn, HowFacts DEF Ordinary, Runs

LEMMA ResumeLays ==
  ASSUME Ordinary, NEW k \in Nat, NEW p, NEW n, Become(Frame(p, n)), Replace(k, <<>>),
         mode' = mode, Follows(Top.at, p), Needs(Top.at) = Needs(p) + k,
         p \notin UsePoints \cup {"element"}
  PROVE  OInv'
<1> DEFINE f == Frame(p, n)
<1>1. p \in SinglePoints /\ p \in Points /\ Top.at \in SinglePoints
  BY DEF Follows, SinglePoints
<1>2. IsFrame(f) /\ f.at = p /\ Operands(f) = Needs(p)
  BY <1>1, NewFrame
<1>3. Needs(p) \in Nat /\ Operands(Top) = Needs(p) + k
  BY <1>1, OrdinaryFacts DEF Needs
<1>4. Become(f)
  OBVIOUS
<1> HIDE DEF f
<1>5. /\ Operands(f) \in Nat /\ Operands(Top) = Operands(f) + k
      /\ f.at \notin UsePoints \cup {"element"} /\ Gives(f.at) = Gives(Top.at)
  BY <1>2, <1>3 DEF Follows
<1>6. Runs
  BY DEF Ordinary, Runs
<1> QED BY <1>2, <1>4, <1>5, <1>6, GoesOn

(* A list is begun.                                                        *)
LEMMA BeginLays ==
  ASSUME Ordinary, NEW p \in ListPoints, NEW n, Become(Frame(p, n)),
         temps' = temps, mode' = mode, Top.at \in Hows, Gives(Top.at) = Gives(p)
  PROVE  OInv'
<1> DEFINE f == Frame(p, n)
<1>1. p \in Points /\ p \notin UsePoints \cup {"element"}
  BY DEF ListPoints, Points, CallPoints, UsePoints
<1>2. IsFrame(f) /\ f.at = p /\ Operands(f) = 0
  BY <1>1, NewFrame
<1>3. Operands(Top) = 0
  BY HowFacts, OrdinaryFacts
<1>4. Replace(0, <<>>)
  BY NothingReplaced, OrdinaryFacts
<1>5. Become(f)
  OBVIOUS
<1> HIDE DEF f
<1>6. /\ Operands(f) \in Nat /\ Operands(Top) = Operands(f) + 0 /\ 0 \in Nat
      /\ f.at \notin UsePoints \cup {"element"} /\ Gives(f.at) = Gives(Top.at)
  BY <1>1, <1>2, <1>3
<1>7. Runs
  BY DEF Ordinary, Runs
<1> QED BY <1>2, <1>4, <1>5, <1>6, <1>7, GoesOn

(* A statement ends, an expression has a value.                            *)
LEMMA DoneLays ==
  ASSUME Ordinary, NEW k, k = Operands(Top), k \in Nat, Replace(k, <<>>), Finish,
         mode' = mode, Gives(Top.at) = "end", Top.at # "interpret"
  PROVE  OInv'
<1>1. Yields(0, <<>>)
  BY DEF Yields, Ordinary
<1> QED BY <1>1, Ends DEF Ordinary

LEMMA ValueLays ==
  ASSUME Ordinary, NEW k, k = Operands(Top), k \in Nat, NEW x, Replace(k, <<x>>),
         Finish, mode' = mode, Gives(Top.at) = "value"
  PROVE  OInv'
<1>1. Yields(x, <<x>>)
  BY DEF Yields, Ordinary
<1>2. Top.at # "interpret"
  BY DEF Gives, StatementPoints
<1> QED BY <1>1, <1>2, Ends DEF Ordinary

LEMMA ReferenceLays ==
  ASSUME Ordinary, NEW k, k = Operands(Top), k \in Nat, NEW x, Replace(k, <<x>>),
         Finish, mode' = mode, Gives(Top.at) = "reference",
         FreshIn(x, entries_', current_depth_', capacity_')
  PROVE  OInv'
<1>1. Yields(x, <<x>>)
  BY DEF Yields, Ordinary
<1>2. Top.at # "interpret"
  BY DEF Gives, StatementPoints
<1> QED BY <1>1, <1>2, Ends DEF Ordinary

LEMMA ThrowLays == ASSUME NEW v, Thrown(v), Throw(v) PROVE OInv'
<1>1. mode' = "undefined" \/ mode' \in ValueError
  BY DEF Throw, Thrown, Raise, Failed
<1>2. mode' \notin {"run", "return"}
  BY <1>1 DEF ValueError
<1> QED BY <1>2, Fails

LEMMA RaiseLays ==
  /\ \A m : m \notin {"run", "return"} /\ Raise(m) => OInv'
  /\ \A c : RaiseError(c) => OInv'
BY Fails DEF Raise, RaiseError

(* The tables, spelled out for the points that handlers use.               *)
LEMMA CallsSuit ==
  /\ Suits("exec", "discard", "eval") /\ Suits("exec", "define", "eval")
  /\ Suits("exec", "branch", "eval") /\ Suits("exec", "return", "eval")
  /\ Suits("exec", "condition", "exec") /\ Suits("condition", "decide", "eval")
  /\ Suits("enter", "increment", "exec") /\ Suits("increment", "again", "eval")
  /\ Suits("eval", "load", "lval") /\ Suits("eval", "right", "eval")
  /\ Suits("right", "apply", "eval") /\ Suits("eval", "target", "eval")
  /\ Suits("target", "store", "lval") /\ Suits("eval", "unary", "eval")
  /\ Suits("operand", "bump", "lval") /\ Suits("eval", "bump", "lval")
  /\ Suits("lval", "index", "lval") /\ Suits("index", "element", "eval")
  /\ Suits("lval", "member", "lval")
BY DEF Suits, Follows, Waits, Gives, Needs, SinglePoints, Points, ListPoints,
       UsePoints, StatementPoints, ReferencePoints, LoopPoints, CallPoints, Hows

LEMMA NeedsTable ==
  /\ \A p \in {"apply", "store", "element"} : Needs(p) = 2
  /\ \A p \in {"discard", "define", "decide", "again", "branch", "return",
               "load", "right", "target", "unary", "bump", "index", "member"} :
       Needs(p) = 1
  /\ \A p \in {"exec", "eval", "lval", "interpret", "block", "condition",
               "enter", "increment", "operand"} : Needs(p) = 0
BY DEF Needs, Waits, UsePoints, Hows

LEMMA GivesTable ==
  /\ \A p \in {"interpret", "exec", "discard", "define", "fields", "block",
               "branch", "return", "condition", "decide", "enter", "increment",
               "again"} : Gives(p) = "end"
  /\ \A p \in {"eval", "load", "right", "apply", "target", "store", "unary",
               "operand", "bump", "elements", "arguments", "body"} :
       Gives(p) = "value"
  /\ \A p \in {"lval", "index", "element", "member"} : Gives(p) = "reference"
BY DEF Gives, StatementPoints, ReferencePoints, LoopPoints

(* At a point other than a list or a body, the operands are those of the   *)
(* table.                                                                  *)
LEMMA Here ==
  ASSUME Steps, mode = "run", NEW p, Top.at = p, p \in SinglePoints
  PROVE  Ordinary /\ Operands(Top) = Needs(p) /\ Needs(p) \in Nat
BY OrdinaryFacts DEF Ordinary

LEMMA SingleNames ==
  {"interpret", "exec", "eval", "lval", "discard", "define", "block", "branch",
   "return", "load", "right", "apply", "target", "store", "unary", "operand",
   "bump", "index", "element", "member", "condition", "decide", "enter",
   "increment", "again"} \subseteq SinglePoints
BY DEF SinglePoints, Points, ListPoints, LoopPoints, CallPoints

LEMMA ThenStepLays ==
  ASSUME Ordinary, NEW how \in Hows, NEW k, NEW p, Then(how, k, p),
         Suits(Top.at, p, how)
  PROVE  OInv'
<1>1. BecomeThen(Frame(p, Top.node), Frame(how, Kid(k)))
      /\ mode' = mode /\ temps' = temps
  BY DEF Then
<1> QED BY <1>1, ThenLays

LEMMA ResumeStepLays ==
  ASSUME Ordinary, NEW k \in Nat, NEW p, NEW n, Resume(k, Frame(p, n)),
         Follows(Top.at, p), Needs(Top.at) = Needs(p) + k,
         p \notin UsePoints \cup {"element"}
  PROVE  OInv'
<1>1. Become(Frame(p, n)) /\ Replace(k, <<>>) /\ mode' = mode
  BY DEF Resume
<1> QED BY <1>1, ResumeLays

LEMMA BeginStepLays ==
  ASSUME Ordinary, NEW p \in ListPoints, NEW n, Resume(0, Frame(p, n)),
         Top.at \in Hows, Gives(Top.at) = Gives(p)
  PROVE  OInv'
<1>1. Operands(Top) = 0
  BY HowFacts, OrdinaryFacts
<1>2. PICK T : temps \in Seq(T)
  BY OrdinaryFacts DEF IsTemps
<1>3. SubSeq(temps, 1, Len(temps) - 0) \o <<>> = temps
  <2>1. Len(temps) - 0 = Len(temps) /\ SubSeq(temps, 1, Len(temps)) = temps
    BY <1>2
  <2> QED BY <1>2, <2>1
<1>4. Become(Frame(p, n)) /\ temps' = temps /\ mode' = mode
  BY <1>3 DEF Resume, Replace
<1> QED BY <1>4, BeginLays

LEMMA Resumptions ==
  /\ Follows("condition", "enter") /\ Follows("increment", "condition")
  /\ Follows("again", "condition") /\ Follows("decide", "enter")
  /\ Follows("branch", "exec") /\ Follows("unary", "operand")
  /\ Follows("exec", "block") /\ Follows("exec", "condition")
BY SingleNames, GivesTable DEF Follows

LEMMA ResumedNot ==
  {"enter", "condition", "exec", "operand", "block"}
    \cap (UsePoints \cup {"element"}) = {}
BY DEF UsePoints

LEMMA ResultLays ==
  ASSUME Ordinary, NEW k, k = Operands(Top), k \in Nat, Gives(Top.at) = "value"
  PROVE  /\ \A x : Result(k, x) => OInv'
         /\ \A v : Yield(k, v) => OInv'
         /\ \A v : YieldCopy(k, v) => OInv'
<1>1. \A x : Result(k, x) => OInv'
  BY ValueLays DEF Result
<1>2. \A v : Yield(k, v) => OInv'
  BY <1>1, ThrowLays DEF Yield
<1>3. \A v : YieldCopy(k, v) => OInv'
  BY ValueLays DEF YieldCopy
<1> QED BY <1>1, <1>2, <1>3

LEMMA DoneStepLays ==
  ASSUME Ordinary, NEW k, k = Operands(Top), k \in Nat, Gives(Top.at) = "end",
         Top.at # "interpret", Done(k)
  PROVE  OInv'
BY DoneLays DEF Done

---------------------------------------------------------------------------
(* Every handler: the operands at each point are those of the table.       *)

(* A handler at p has the operands of the table.                           *)
LEMMA Standing ==
  ASSUME Steps
  PROVE  /\ \A p \in SinglePoints : At(p) =>
              Ordinary /\ Top.at = p /\ Operands(Top) = Needs(p)
         /\ \A p \in ListPoints : At(p) =>
              Ordinary /\ Top.at = p /\ Operands(Top) = Top.i /\ Top.i \in Nat
         /\ At("body") => Ordinary /\ Top.at = "body"
BY Here, OrdinaryFacts DEF Ordinary, At

LEMMA Begun ==
  ASSUME Steps
  PROVE  /\ \A k : Exec(k) => Ordinary /\ Top.at = "exec" /\ Operands(Top) = 0
         /\ \A k : Eval(k) => Ordinary /\ Top.at = "eval" /\ Operands(Top) = 0
         /\ \A k : Lval(k) => Ordinary /\ Top.at = "lval" /\ Operands(Top) = 0
BY Standing, SingleNames, NeedsTable DEF Exec, Eval, Lval

LEMMA HowNames == "exec" \in Hows /\ "eval" \in Hows /\ "lval" \in Hows
BY DEF Hows

LEMMA SimpleStatementLays ==
  ASSUME Steps, ExecuteExpression \/ ExecuteDeclaration PROVE OInv'
<1>1. ASSUME Exec("expression"), Then("eval", 1, "discard") PROVE OInv'
  BY <1>1, Begun, CallsSuit, HowNames, ThenStepLays
<1>2. ASSUME At("discard"), Done(1) PROVE OInv'
  BY <1>2, Standing, SingleNames, NeedsTable, GivesTable, DoneStepLays
<1>3. ASSUME ExecuteDeclaration PROVE OInv'
  BY <1>3, Begun, GivesTable, DoneStepLays DEF ExecuteDeclaration
<1> QED BY <1>1, <1>2, <1>3 DEF ExecuteExpression

LEMMA DefineLays ==
  ASSUME Ordinary, NEW k, k = Operands(Top), k \in Nat, Gives(Top.at) = "end",
         Top.at # "interpret", NEW v, Define(k, v)
  PROVE  OInv'
BY DoneLays DEF Define

LEMMA VarLays == ASSUME Steps, ExecuteVar PROVE OInv'
<1>1. ASSUME Exec("var"), Resume(0, Frame("fields", Top.node)) PROVE OInv'
  <2>1. "fields" \in ListPoints
    BY DEF ListPoints
  <2> QED BY <1>1, <2>1, Begun, GivesTable, HowNames, BeginStepLays
<1>2. ASSUME Exec("var"), Then("eval", 1, "define") PROVE OInv'
  BY <1>2, Begun, CallsSuit, HowNames, ThenStepLays
<1>3. ASSUME At("define"), NEW v, Define(1, v) PROVE OInv'
  BY <1>3, Standing, SingleNames, NeedsTable, GivesTable, DefineLays
<1>4. At("fields") => Ordinary /\ Top.at = "fields" /\ Operands(Top) = Top.i
                      /\ Top.i \in Nat
  BY Standing DEF ListPoints
<1>5. ASSUME At("fields"), NEW nodes, ThenNext("eval", nodes) PROVE OInv'
  <2>1. Top.at \in {"interpret", "block"} \cup ListPoints \cup {"body"}
    BY <1>4, <1>5 DEF ListPoints
  <2>2. Waits("fields") = "value" /\ Gives("eval") = "value"
    BY GivesTable DEF Waits, UsePoints, Hows
  <2> QED BY <1>4, <1>5, <2>1, <2>2, HowNames, ThenNextLays
<1>6. ASSUME At("fields"), NEW v, Define(Top.i, v) PROVE OInv'
  BY <1>4, <1>6, GivesTable, DefineLays
<1>7. ASSUME Exec("var"), NEW v, Define(0, v) PROVE OInv'
  BY <1>7, Begun, GivesTable, DefineLays
<1> QED BY <1>1, <1>2, <1>3, <1>5, <1>6, <1>7 DEF ExecuteVar

LEMMA LeaveFinishes ==
  ASSUME Ordinary, NEW k, k = Operands(Top), k \in Nat, Replace(k, <<>>), Leave,
         mode' = mode, Gives(Top.at) = "end", Top.at # "interpret"
  PROVE  OInv'
BY DoneLays DEF Leave

LEMMA NothingTaken ==
  ASSUME Ordinary, temps' = temps PROVE Replace(0, <<>>)
BY OrdinaryFacts, NothingReplaced

LEMMA BlockLays == ASSUME Steps, ExecuteBlock PROVE OInv'
<1>1. ASSUME Exec("block"), Become(Frame("block", Top.node)), mode' = mode,
             temps' = temps
      PROVE  OInv'
  <2>1. Ordinary /\ Top.at = "exec" /\ Replace(0, <<>>)
    BY <1>1, Begun, NothingTaken
  <2>2. Needs("exec") = Needs("block") + 0 /\ 0 \in Nat
    BY NeedsTable
  <2> QED BY <1>1, <2>1, <2>2, Resumptions, ResumedNot, ResumeLays
<1>2. At("block") => Ordinary /\ Top.at = "block" /\ Operands(Top) = 0
  BY Standing, SingleNames, NeedsTable
<1>3. ASSUME At("block"), NEW nodes, ThenNext("exec", nodes) PROVE OInv'
  <2>1. Waits("block") = "end" /\ Gives("exec") = "end"
    BY GivesTable DEF Waits, UsePoints
  <2> QED BY <1>2, <1>3, <2>1, HowNames, ThenNextLays
<1>4. ASSUME At("block"), Leave, mode' = mode, temps' = temps PROVE OInv'
  BY <1>2, <1>4, NothingTaken, GivesTable, LeaveFinishes
<1> QED BY <1>1, <1>3, <1>4 DEF ExecuteBlock

LEMMA LoopLays == ASSUME Steps, ExecuteLoop PROVE OInv'
<1>1. Ordinary /\ Top.at = "exec" /\ mode' = mode /\ temps' = temps
  BY Begun DEF ExecuteLoop
<1>2. Replace(0, <<>>)
  BY <1>1, NothingTaken
<1>3. ASSUME BecomeThen(Frame("condition", Top.node), Frame("exec", Kid(1)))
      PROVE  OInv'
  BY <1>1, <1>3, CallsSuit, HowNames, ThenLays
<1>4. ASSUME Become(Frame("condition", Top.node)) PROVE OInv'
  <2>1. Needs("exec") = Needs("condition") + 0 /\ 0 \in Nat
    BY NeedsTable
  <2> QED BY <1>1, <1>2, <1>4, <2>1, Resumptions, ResumedNot, ResumeLays
<1> QED BY <1>3, <1>4 DEF ExecuteLoop

LEMMA LoopStepLays == ASSUME Steps, LoopDecide \/ LoopNext PROVE OInv'
<1>1. \A p, q, n : At(p) /\ Resume(0, Frame(q, n)) /\ p \in {"condition", "increment"}
                   /\ q \in {"enter", "condition"} /\ Follows(p, q) => OInv'
  <2> SUFFICES ASSUME NEW p \in {"condition", "increment"}, At(p), NEW n,
                      NEW q \in {"enter", "condition"}, Resume(0, Frame(q, n)),
                      Follows(p, q)
               PROVE  OInv'
    OBVIOUS
  <2>1. Ordinary /\ Top.at = p
    BY Standing, SingleNames
  <2>2. Needs(p) = Needs(q) + 0 /\ 0 \in Nat
    BY NeedsTable
  <2> QED BY <2>1, <2>2, ResumedNot, ResumeStepLays
<1>2. \A p, q, n : At(p) /\ Resume(1, Frame(q, n)) /\ p \in {"decide", "again"}
                   /\ q \in {"enter", "condition"} /\ Follows(p, q) => OInv'
  <2> SUFFICES ASSUME NEW p \in {"decide", "again"}, At(p), NEW n,
                      NEW q \in {"enter", "condition"}, Resume(1, Frame(q, n)),
                      Follows(p, q)
               PROVE  OInv'
    OBVIOUS
  <2>1. Ordinary /\ Top.at = p
    BY Standing, SingleNames
  <2>2. Needs(p) = Needs(q) + 1 /\ 1 \in Nat
    BY NeedsTable
  <2> QED BY <2>1, <2>2, ResumedNot, ResumeStepLays
<1>3. ASSUME At("decide"), Leave, Replace(1, <<>>), mode' = mode PROVE OInv'
  BY <1>3, Standing, SingleNames, NeedsTable, GivesTable, LeaveFinishes
<1>4. ASSUME NEW v, Failed(v), Throw(v) PROVE OInv'
  BY <1>4, ThrowLays DEF Thrown
<1>5. ASSUME LoopDecide PROVE OInv'
  BY <1>2, <1>3, <1>4, <1>5, Resumptions DEF LoopDecide
<1>6. ASSUME At("condition"), Then("eval", 2, "decide") PROVE OInv'
  BY <1>6, Standing, SingleNames, CallsSuit, HowNames, ThenStepLays
<1>7. ASSUME At("enter"), Then("exec", 4, "increment") PROVE OInv'
  BY <1>7, Standing, SingleNames, CallsSuit, HowNames, ThenStepLays
<1>8. ASSUME At("increment"), Then("eval", 3, "again") PROVE OInv'
  BY <1>8, Standing, SingleNames, CallsSuit, HowNames, ThenStepLays
<1>9. ASSUME LoopNext PROVE OInv'
  BY <1>1, <1>2, <1>6, <1>7, <1>8, <1>9, Resumptions DEF LoopNext
<1> QED BY <1>5, <1>9

LEMMA IfLays == ASSUME Steps, ExecuteIf PROVE OInv'
<1>1. ASSUME Exec("if"), Then("eval", 1, "branch") PROVE OInv'
  BY <1>1, Begun, CallsSuit, HowNames, ThenStepLays
<1>2. At("branch") => Ordinary /\ Top.at = "branch" /\ Operands(Top) = 1
  BY Standing, SingleNames, NeedsTable
<1>3. ASSUME NEW v, Failed(v), Throw(v) PROVE OInv'
  BY <1>3, ThrowLays DEF Thrown
<1>4. ASSUME At("branch"), Done(1) PROVE OInv'
  BY <1>2, <1>4, GivesTable, DoneStepLays
<1>5. ASSUME At("branch"), NEW n, Resume(1, Frame("exec", n)) PROVE OInv'
  <2>1. Needs("branch") = Needs("exec") + 1 /\ 1 \in Nat
    BY NeedsTable
  <2> QED BY <1>2, <1>5, <2>1, Resumptions, ResumedNot, ResumeStepLays
<1> QED BY <1>1, <1>3, <1>4, <1>5 DEF ExecuteIf

(* The topmost operand, taken off and put back.                            *)
LEMMA PutBack ==
  ASSUME IsTemps(temps), Len(temps) # 0, temps' = temps
  PROVE  Replace(1, <<Temp(0)>>)
<1>1. PICK T : temps \in Seq(T)
  BY DEF IsTemps
<1> DEFINE n == Len(temps)
<1>2. n \in Nat /\ n # 0 /\ temps # <<>>
  BY <1>1
<1>3. /\ temps = Append(Front(temps), Last(temps)) /\ Last(temps) = temps[n]
      /\ Front(temps) \in Seq(T) /\ Last(temps) \in T
  BY <1>1, <1>2, FrontLast
<1>4. Append(Front(temps), Last(temps)) = Front(temps) \o <<Last(temps)>>
  BY <1>3
<1>5. Front(temps) = SubSeq(temps, 1, n - 1)
  BY DEF Front
<1>6. Temp(0) = temps[n]
  <2>1. n - 0 = n
    BY <1>2
  <2> QED BY <2>1 DEF Temp
<1> QED BY <1>3, <1>4, <1>5, <1>6 DEF Replace

(* There are at least as many temps as the top frame has operands.         *)
LEMMA HasOperands ==
  ASSUME Steps, mode \in {"run", "return"}
  PROVE  /\ Operands(Top) \in Nat /\ Len(temps) \in Nat
         /\ mode = "run" => Operands(Top) <= Len(temps)
         /\ mode = "return" => Len(temps) # 0 /\ Waits(Top.at) = "end"
<1>1. PICK n, h, c : /\ Laid(n, h, c) /\ Full(h[n], Top, temps, mode)
                     /\ h[n] \in Nat
  BY OFacts
<1>2. Operands(Top) \in Nat
  BY <1>1 DEF Full
<1> QED BY <1>1, <1>2 DEF Full

LEMMA ReturnLays == ASSUME Steps, ExecuteReturn PROVE OInv'
<1>1. ASSUME Exec("return"), Then("eval", 1, "return") PROVE OInv'
  BY <1>1, Begun, CallsSuit, HowNames, ThenStepLays
<1>2. ASSUME Exec("return"), Finish, mode' = "return", Replace(0, <<Void>>)
      PROVE  OInv'
  <2>1. Ordinary /\ Top.at = "exec" /\ Operands(Top) = 0
    BY <1>2, Begun
  <2>2. Yields(Void, <<Void>>)
    BY <1>2, <2>1, GivesTable DEF Yields
  <2>3. 0 \in Nat /\ 0 = Operands(Top) + (IF mode = "run" THEN 0 ELSE 1)
    BY <2>1 DEF Ordinary
  <2> QED BY <1>2, <2>1, <2>2, <2>3, Ends DEF Ordinary
<1>3. ASSUME At("return"), Finish, mode' = "return", temps' = temps PROVE OInv'
  <2>1. Ordinary /\ Top.at = "return" /\ Operands(Top) = 1
    BY <1>3, Standing, SingleNames, NeedsTable
  <2>2. Len(temps) # 0 /\ IsTemps(temps)
    <3>1. Len(temps) \in Nat /\ Operands(Top) <= Len(temps)
      BY <2>1, HasOperands DEF Ordinary
    <3> QED BY <2>1, <3>1, OrdinaryFacts
  <2>3. Replace(1, <<Temp(0)>>)
    BY <1>3, <2>2, PutBack
  <2>4. Yields(Temp(0), <<Temp(0)>>)
    BY <1>3, <2>1, GivesTable DEF Yields
  <2>5. 1 \in Nat /\ 1 = Operands(Top) + (IF mode = "run" THEN 0 ELSE 1)
    BY <2>1 DEF Ordinary
  <2> QED BY <1>3, <2>1, <2>3, <2>4, <2>5, Ends DEF Ordinary
<1> QED BY <1>1, <1>2, <1>3 DEF ExecuteReturn

LEMMA InterpretLays == ASSUME Steps, Interpret PROVE OInv'
<1>1. Ordinary /\ Top.at = "interpret" /\ Operands(Top) = 0
  BY Standing, SingleNames, NeedsTable DEF Interpret
<1>2. ASSUME Resume(0, Advanced) PROVE OInv'
  <2> DEFINE f == Advanced
  <2>1. IsFrame(f) /\ f.at = "interpret"
    <3>1. IsFrame(Top) /\ Top.i \in Nat
      BY <1>1, OrdinaryFacts
    <3> QED BY <1>1, <3>1 DEF Advanced, IsFrame, FramesOver
  <2>2. Operands(f) = 0
    BY <2>1, NeedsTable DEF Operands, ListPoints
  <2>3. Become(f) /\ Replace(0, <<>>) /\ mode' = mode
    BY <1>2 DEF Resume
  <2> HIDE DEF f
  <2>4. /\ Operands(f) \in Nat /\ Operands(Top) = Operands(f) + 0 /\ 0 \in Nat
        /\ f.at \notin UsePoints \cup {"element"} /\ Gives(f.at) = Gives(Top.at)
    BY <1>1, <2>1, <2>2 DEF UsePoints
  <2>5. Runs
    BY <1>1, <2>3 DEF Ordinary, Runs
  <2> QED BY <2>1, <2>3, <2>4, <2>5, GoesOn
<1>3. ASSUME NEW nodes, ThenNext("exec", nodes) PROVE OInv'
  <2>1. Waits("interpret") = "end" /\ Gives("exec") = "end"
    BY GivesTable DEF Waits, UsePoints
  <2> QED BY <1>1, <1>3, <2>1, HowNames, ThenNextLays
<1>4. ASSUME mode' = "finished" PROVE OInv'
  BY <1>4, Fails
<1> QED BY <1>2, <1>3, <1>4 DEF Interpret

LEMMA StatementLays == ASSUME Steps, Statement PROVE OInv'
BY InterpretLays, SimpleStatementLays, VarLays, BlockLays, LoopLays, LoopStepLays,
   IfLays, ReturnLays DEF Statement

LEMMA ReadLays == ASSUME Steps, EvaluateLiteral \/ EvaluateByReference PROVE OInv'
<1>1. ASSUME EvaluateLiteral PROVE OInv'
  BY <1>1, Begun, GivesTable, ResultLays DEF EvaluateLiteral
<1>2. ASSUME NEW k, Eval(k), BecomeThen(Frame("load", Top.node), Frame("lval", Top.node)),
             mode' = mode, temps' = temps
      PROVE  OInv'
  BY <1>2, Begun, CallsSuit, HowNames, ThenLays
<1>3. ASSUME At("load"), NEW v, YieldCopy(1, v) PROVE OInv'
  BY <1>3, Standing, SingleNames, NeedsTable, GivesTable, ResultLays
<1>4. ASSUME Raise("undefined") PROVE OInv'
  BY <1>4, RaiseLays
<1> QED BY <1>1, <1>2, <1>3, <1>4 DEF EvaluateByReference

LEMMA BinaryLays == ASSUME Steps, EvaluateBinary PROVE OInv'
<1>1. ASSUME Eval("binary"), Then("eval", 1, "right") PROVE OInv'
  BY <1>1, Begun, CallsSuit, HowNames, ThenStepLays
<1>2. ASSUME NEW v, Failed(v), Throw(v) PROVE OInv'
  BY <1>2, ThrowLays DEF Thrown
<1>3. ASSUME At("right"), NEW v, Yield(1, v) PROVE OInv'
  BY <1>3, Standing, SingleNames, NeedsTable, GivesTable, ResultLays
<1>4. ASSUME At("right"), Then("eval", 2, "apply") PROVE OInv'
  BY <1>4, Standing, SingleNames, CallsSuit, HowNames, ThenStepLays
<1>5. ASSUME At("apply"), NEW v, Yield(2, v) PROVE OInv'
  BY <1>5, Standing, SingleNames, NeedsTable, GivesTable, ResultLays
<1>6. ASSUME NEW c, RaiseError(c) PROVE OInv'
  BY <1>6, RaiseLays
<1> QED BY <1>1, <1>2, <1>3, <1>4, <1>5, <1>6 DEF EvaluateBinary

LEMMA StoreYieldLays ==
  ASSUME Ordinary, NEW k, k = Operands(Top), k \in Nat, Gives(Top.at) = "value",
         NEW new, NEW result, StoreYield(k, new, result)
  PROVE  OInv'
<1>1. CASE Stale(Temp(0))
  BY <1>1, RaiseLays DEF StoreYield
<1>2. CASE ~ Stale(Temp(0)) /\ Thrown(new)
  BY <1>2, ThrowLays DEF StoreYield
<1>3. CASE ~ Stale(Temp(0)) /\ ~ Thrown(new)
  BY <1>3, ValueLays DEF StoreYield
<1> QED BY <1>1, <1>2, <1>3

LEMMA UpdateLays ==
  ASSUME Steps, EvaluateAssignment \/ EvaluateUnary \/ EvaluatePostfix \/ Bump
  PROVE  OInv'
<1>1. ASSUME NEW k, Eval(k), Then("eval", 2, "target") PROVE OInv'
  BY <1>1, Begun, CallsSuit, HowNames, ThenStepLays
<1>2. ASSUME At("target"), Then("lval", 1, "store") PROVE OInv'
  BY <1>2, Standing, SingleNames, CallsSuit, HowNames, ThenStepLays
<1>3. ASSUME At("store"), NEW u, NEW v, StoreYield(2, u, v) PROVE OInv'
  BY <1>3, Standing, SingleNames, NeedsTable, GivesTable, StoreYieldLays
<1>4. ASSUME NEW k, Eval(k), Then("eval", 1, "unary") PROVE OInv'
  BY <1>4, Begun, CallsSuit, HowNames, ThenStepLays
<1>5. ASSUME At("unary"), NEW v, Yield(1, v) PROVE OInv'
  BY <1>5, Standing, SingleNames, NeedsTable, GivesTable, ResultLays
<1>6. ASSUME At("unary"), NEW n, Resume(1, Frame("operand", n)) PROVE OInv'
  <2>1. Needs("unary") = Needs("operand") + 1 /\ 1 \in Nat
    BY NeedsTable
  <2>2. Ordinary /\ Top.at = "unary"
    BY <1>6, Standing, SingleNames
  <2> QED BY <1>6, <2>1, <2>2, Resumptions, ResumedNot, ResumeStepLays
<1>7. ASSUME At("operand"), Then("lval", 1, "bump") PROVE OInv'
  BY <1>7, Standing, SingleNames, CallsSuit, HowNames, ThenStepLays
<1>8. ASSUME NEW k, Eval(k), Then("lval", 1, "bump") PROVE OInv'
  BY <1>8, Begun, CallsSuit, HowNames, ThenStepLays
<1>9. ASSUME At("bump"), NEW u, NEW v, StoreYield(1, u, v) PROVE OInv'
  BY <1>9, Standing, SingleNames, NeedsTable, GivesTable, StoreYieldLays
<1>10. ASSUME EvaluateAssignment PROVE OInv'
  BY <1>1, <1>2, <1>3, <1>10 DEF EvaluateAssignment
<1>11. ASSUME EvaluateUnary PROVE OInv'
  BY <1>4, <1>5, <1>6, <1>7, <1>11 DEF EvaluateUnary
<1> QED BY <1>8, <1>9, <1>10, <1>11 DEF EvaluatePostfix, Bump

LEMMA ListLays == ASSUME Steps, EvaluateList PROVE OInv'
<1>1. ASSUME Eval("list"), Resume(0, Frame("elements", Top.node)) PROVE OInv'
  <2>1. "elements" \in ListPoints
    BY DEF ListPoints
  <2> QED BY <1>1, <2>1, Begun, GivesTable, HowNames, BeginStepLays
<1>2. At("elements") => Ordinary /\ Top.at = "elements" /\ Operands(Top) = Top.i
                        /\ Top.i \in Nat
  BY Standing DEF ListPoints
<1>3. ASSUME At("elements"), NEW nodes, ThenNext("eval", nodes) PROVE OInv'
  <2>1. Top.at \in {"interpret", "block"} \cup ListPoints \cup {"body"}
    BY <1>2, <1>3 DEF ListPoints
  <2>2. Waits("elements") = "value" /\ Gives("eval") = "value"
    BY GivesTable DEF Waits, UsePoints, Hows
  <2> QED BY <1>2, <1>3, <2>1, <2>2, HowNames, ThenNextLays
<1>4. ASSUME At("elements"), NEW x, Finish, Replace(Top.i, <<x>>), mode' = mode
      PROVE  OInv'
  BY <1>2, <1>4, GivesTable, ValueLays
<1> QED BY <1>1, <1>3, <1>4 DEF EvaluateList

(* The two ways to make a reference.                                       *)
LEMMA SlotIsFresh ==
  ASSUME Steps, NEW name, FindEntry(entries_, name) # 0
  PROVE  FreshIn(SlotRef(FindEntry(entries_, name)), entries_, current_depth_, capacity_)
<1> DEFINE i == FindEntry(entries_, name)
<1>1. PICK N, V : entries_ \in Seq(EntriesOver(N, V))
  BY DEF Steps, TInv, IsTable
<1>2. i \in 0 .. Len(entries_)
  BY <1>1, FindEntryProperties
<1>3. i \in DOMAIN entries_
  BY <1>1, <1>2
<1>4. entries_[i].scope_depth <= current_depth_
  BY <1>3 DEF Steps, TInv, Sorted
<1> HIDE DEF i
<1>5. /\ IsRef(SlotRef(i)) /\ SlotRef(i).id = i /\ SlotRef(i).cap = capacity_
  BY DEF SlotRef, IsRef
<1>6. FreshIn(SlotRef(i), entries_, current_depth_, capacity_)
  BY <1>3, <1>4, <1>5 DEF FreshIn, Slotted
<1> QED BY <1>6 DEF i

LEMMA ElementIsFresh ==
  ASSUME NEW a, NEW i, NEW es, NEW d, NEW cap
  PROVE  FreshIn(ElementRef(a, i), es, d, cap)
<1>1. IsRef(ElementRef(a, i)) /\ ~ ElementRef(a, i).slot
  BY DEF ElementRef, IsRef
<1> QED BY <1>1 DEF FreshIn, Slotted

LEMMA FoundLays ==
  ASSUME Ordinary, NEW k, k = Operands(Top), k \in Nat, NEW x, Result(k, x),
         Gives(Top.at) = "reference",
         FreshIn(x, entries_, current_depth_, capacity_)
  PROVE  OInv'
<1>1. /\ Replace(k, <<x>>) /\ Finish /\ mode' = mode
      /\ entries_' = entries_ /\ current_depth_' = current_depth_
      /\ capacity_' = capacity_
  BY DEF Result, Stay, scopes
<1>2. FreshIn(x, entries_', current_depth_', capacity_')
  BY <1>1
<1> QED BY <1>1, <1>2, ReferenceLays

LEMMA LvalueLays ==
  ASSUME Steps, LvalueVariable \/ LvalueIndex \/ LvalueMember \/ LvalueOther
  PROVE  OInv'
<1>1. ASSUME LvalueVariable PROVE OInv'
  <2>1. Ordinary /\ Top.at = "lval" /\ Operands(Top) = 0
    BY <1>1, Begun DEF LvalueVariable
  <2>2. CASE FindEntry(entries_, Node.name) = 0
    BY <1>1, <2>2, RaiseLays DEF LvalueVariable
  <2>3. CASE FindEntry(entries_, Node.name) # 0
    <3> DEFINE x == SlotRef(FindEntry(entries_, Node.name))
    <3>1. FreshIn(x, entries_, current_depth_, capacity_)
      BY <2>3, SlotIsFresh
    <3>2. Result(0, x)
      BY <1>1, <2>3 DEF LvalueVariable
    <3> HIDE DEF x
    <3> QED BY <2>1, <3>1, <3>2, GivesTable, FoundLays
  <2> QED BY <2>2, <2>3
<1>2. ASSUME NEW k, Lval(k), Then("lval", 1, "index") \/ Then("lval", 1, "member")
      PROVE  OInv'
  BY <1>2, Begun, CallsSuit, HowNames, ThenStepLays
<1>3. ASSUME At("index"), Then("eval", 2, "element") PROVE OInv'
  BY <1>3, Standing, SingleNames, CallsSuit, HowNames, ThenStepLays
<1>4. ASSUME At("element"), NEW a, NEW i, Result(2, ElementRef(a, i)) PROVE OInv'
  BY <1>4, Standing, SingleNames, NeedsTable, GivesTable, ElementIsFresh, FoundLays
<1>5. ASSUME At("member"), NEW a, NEW i, Result(1, ElementRef(a, i)) PROVE OInv'
  BY <1>5, Standing, SingleNames, NeedsTable, GivesTable, ElementIsFresh, FoundLays
<1>6. ASSUME NEW v, Failed(v), Throw(v) PROVE OInv'
  BY <1>6, ThrowLays DEF Thrown
<1>7. /\ Raise("undefined") => OInv'
      /\ Raise("invalid_conversion") => OInv'
      /\ Raise("runtime_error") => OInv'
      /\ RaiseError("index_out_of_bounds") => OInv'
  BY RaiseLays
<1>8. ASSUME LvalueIndex PROVE OInv'
  BY <1>2, <1>3, <1>4, <1>6, <1>7, <1>8 DEF LvalueIndex
<1>9. ASSUME LvalueMember PROVE OInv'
  BY <1>2, <1>5, <1>7, <1>9 DEF LvalueMember
<1> QED BY <1>1, <1>7, <1>8, <1>9 DEF LvalueOther

LEMMA ExpressionLays == ASSUME Steps, Expression PROVE OInv'
BY ReadLays, BinaryLays, UpdateLays, ListLays, LvalueLays DEF Expression

LEMMA CallStepLays == ASSUME Steps, CallStep PROVE OInv'
<1>1. At("arguments") => Ordinary /\ Top.at = "arguments" /\ Operands(Top) = Top.i
                         /\ Top.i \in Nat
  BY Standing DEF ListPoints
<1>2. ASSUME EvaluateCall PROVE OInv'
  <2>1. ASSUME NEW k, Eval(k), Become(Frame("arguments", Top.node)), temps' = temps,
               mode' = mode
        PROVE  OInv'
    <3>1. "arguments" \in ListPoints
      BY DEF ListPoints
    <3> QED BY <2>1, <3>1, Begun, GivesTable, HowNames, BeginLays
  <2>2. ASSUME At("arguments"), NEW nodes, ThenNext("eval", nodes) PROVE OInv'
    <3>1. Top.at \in {"interpret", "block"} \cup ListPoints \cup {"body"}
      BY <1>1, <2>2 DEF ListPoints
    <3>2. Waits("arguments") = "value" /\ Gives("eval") = "value"
      BY GivesTable DEF Waits, UsePoints, Hows
    <3> QED BY <1>1, <2>2, <3>1, <3>2, HowNames, ThenNextLays
  <2> QED BY <1>2, <2>1, <2>2, RaiseLays DEF EvaluateCall, Overflow
<1>3. ASSUME CallBuiltin PROVE OInv'
  <2>1. ASSUME At("arguments"), NEW x, Leave, Replace(Top.i, <<x>>), mode' = mode
        PROVE  OInv'
    BY <1>1, <2>1, GivesTable, ValueLays DEF Leave
  <2> QED BY <1>3, <2>1, RaiseLays DEF CallBuiltin, Invoke
<1>4. At("body") => Ordinary /\ Top.at = "body" /\ Operands(Top) = Len(Node.kids)
                    /\ Len(Node.kids) \in Nat
  <2> SUFFICES ASSUME At("body")
               PROVE  Ordinary /\ Top.at = "body" /\ Operands(Top) = Len(Node.kids)
                      /\ Len(Node.kids) \in Nat
    OBVIOUS
  <2>1. Ordinary /\ Top.at = "body"
    BY Standing
  <2>2. Operands(Top) = Len(Node.kids)
    BY <2>1 DEF Operands, ListPoints, Node
  <2>3. Operands(Top) \in Nat
    BY <2>1, HasOperands DEF Ordinary
  <2> QED BY <2>1, <2>2, <2>3
<1>5. ASSUME At("arguments"), Top.i = Len(Node.kids), Become(Frame("body", Top.node)),
             temps' = temps, mode' = mode
      PROVE  OInv'
  <2> DEFINE f == Frame("body", Top.node)
  <2>1. IsFrame(f) /\ f.at = "body" /\ f.node = Top.node
    <3>1. "body" \in Points
      BY DEF Points, CallPoints
    <3> QED BY <3>1, FrameFacts
  <2>2. Become(f)
    BY <1>5
  <2> HIDE DEF f
  <2>3. Operands(f) = Top.i
    BY <1>5, <2>1 DEF Operands, ListPoints, Node
  <2>4. /\ Operands(f) \in Nat /\ Operands(Top) = Operands(f) + 0 /\ 0 \in Nat
        /\ f.at \notin UsePoints \cup {"element"} /\ Gives(f.at) = Gives(Top.at)
    BY <1>1, <1>5, <2>1, <2>3, GivesTable DEF UsePoints
  <2>5. Runs /\ Replace(0, <<>>)
    BY <1>1, <1>5, NothingTaken DEF Ordinary, Runs
  <2> QED BY <2>1, <2>2, <2>4, <2>5, GoesOn
<1>6. ASSUME At("body"), NEW nodes, ThenNext("exec", nodes) PROVE OInv'
  <2>1. Waits("body") = "end" /\ Gives("exec") = "end"
    BY GivesTable DEF Waits, UsePoints
  <2> QED BY <1>4, <1>6, <2>1, HowNames, ThenNextLays
<1>7. ASSUME At("body"), NEW x, Leave, Replace(Len(Node.kids), <<x>>), mode' = mode
      PROVE  OInv'
  BY <1>4, <1>7, GivesTable, ValueLays DEF Leave
<1>8. ASSUME CallUser PROVE OInv'
  BY <1>5, <1>6, <1>7, <1>8 DEF CallUser, Invoke
<1> QED BY <1>2, <1>3, <1>8 DEF CallStep

(* A return passes its value through blocks and loops to its call.         *)
LEMMA ReturningLays == ASSUME Steps, Returning PROVE OInv'
<1>1. /\ mode = "return" /\ Operands(Top) \in Nat /\ Len(temps) # 0
      /\ Waits(Top.at) = "end" /\ kont # <<>> /\ IsTemps(temps) /\ IInv
  <2>1. mode = "return"
    BY DEF Returning, DropsResult
  <2> QED BY <2>1, HasOperands DEF Steps, OInv
<1>2. CASE Top.at = "body"
  <2>1. /\ Finish /\ mode' = "run"
        /\ Replace(Len(Node.kids) + 1, <<Temp(0)>>)
    BY <1>2 DEF Returning, DropsResult, Leave
  <2>2. Operands(Top) = Len(Node.kids)
    BY <1>2 DEF Operands, ListPoints, Node
  <2>3. Yields(Temp(0), <<Temp(0)>>)
    BY <1>2, <2>1, GivesTable DEF Yields
  <2> DEFINE k == Len(Node.kids) + 1
  <2>4. k \in Nat /\ k = Operands(Top) + (IF mode = "run" THEN 0 ELSE 1)
    BY <1>1, <2>2
  <2>5. Replace(k, <<Temp(0)>>)
    BY <2>1
  <2> HIDE DEF k
  <2> QED BY <1>1, <1>2, <2>1, <2>3, <2>4, <2>5, Ends
<1>3. CASE Top.at # "body" /\ ~ DropsResult
  <2>1. Finish /\ mode' = "return" /\ temps' = temps
    BY <1>1, <1>3 DEF Returning, Leave
  <2>2. Replace(1, <<Temp(0)>>)
    BY <1>1, <2>1, PutBack
  <2>3. /\ Top.at \in {"block", "increment"}
        /\ Operands(Top) = 0 /\ Gives(Top.at) = "end" /\ Top.at # "interpret"
    <3>1. Top.at \in {"block", "increment"}
      BY <1>1, <1>3 DEF Waits, DropsResult
    <3> QED BY <3>1, NeedsTable, GivesTable DEF Operands, ListPoints
  <2>4. Yields(Temp(0), <<Temp(0)>>)
    BY <2>1, <2>3 DEF Yields
  <2>5. 1 \in Nat /\ 1 = Operands(Top) + (IF mode = "run" THEN 0 ELSE 1)
    BY <1>1, <2>3
  <2>6. mode \in {"run", "return"} /\ Top.at # "interpret" /\ Finish /\ Steps
    BY <1>1, <2>1, <2>3
  <2> QED BY <2>2, <2>4, <2>5, <2>6, Ends
<1>4. CASE DropsResult
  <2>1. mode' = "run" /\ kont' = kont /\ Replace(1, <<>>)
    BY <1>1, <1>4 DEF Returning, ReturnIgnored
  <2>2. Operands(Top) = 0 /\ Top.at \notin UsePoints \cup {"element"}
    BY <1>4, NeedsTable DEF DropsResult, Operands, ListPoints, UsePoints
  <2>3. IsFrame(Top)
    BY <1>1, TopFacts
  <2>4. Become(Top)
    <3>1. PICK N : kont \in Seq(FramesOver(N))
      BY <1>1 DEF IInv, IsStack
    <3> QED BY <1>1, <2>1, <3>1, FrontLast DEF Become, Top
  <2>5. PICK n, h, c : /\ Laid(n, h, c) /\ Full(h[n], Top, temps, mode)
                       /\ h[n] \in Nat
    BY <1>1, OFacts
  <2>6. Len(temps) = h[n] + 0 + 1
    BY <1>1, <2>2, <2>5 DEF Full
  <2>7. /\ kont' # <<>> /\ IsTemps(temps') /\ n = Len(kont') /\ Last(kont') = Top
        /\ Len(temps') = h[n] + 0
        /\ \E e : Stacked(kont', temps', entries_', current_depth_', h, e)
    <3>1. Top.at # "element" /\ 0 \in Nat /\ 1 \in Nat
      BY <2>2
    <3> QED BY <2>1, <2>3, <2>4, <2>5, <2>6, <3>1, Swapped DEF Steps
  <2>8. Full(h[n], Last(kont'), temps', mode')
    BY <2>1, <2>2, <2>5, <2>7 DEF Full
  <2>9. Last(kont').at \notin UsePoints
    BY <2>2, <2>7
  <2> QED BY <2>1, <2>7, <2>8, <2>9 DEF OInv
<1> QED BY <1>2, <1>3, <1>4

LEMMA WayOutLays == ASSUME Steps, Returning \/ Unwind \/ Escape PROVE OInv'
<1>1. ASSUME Unwind PROVE OInv'
  <2>1. mode' \in ValueError \cup {"runtime_error"}
    BY <1>1 DEF Unwind, InFlight
  <2>2. mode' \notin {"run", "return"}
    BY <2>1 DEF ValueError
  <2> QED BY <2>2, Fails
<1>2. ASSUME Escape PROVE OInv'
  BY <1>2, Fails DEF Escape
<1> QED BY <1>1, <1>2, ReturningLays

---------------------------------------------------------------------------
LEMMA StartedOInv == Started => OInv
<1> SUFFICES ASSUME Started PROVE OInv
  OBVIOUS
<1> DEFINE f == Frame("interpret", None)
           h == [i \in Nat |-> 0]
           c == [i \in Nat |-> 0]
<1>1. kont = <<f>> /\ temps = <<>> /\ current_depth_ = 0 /\ mode = "run"
  BY DEF Started
<1>2. f.at = "interpret"
  BY DEF Frame
<1>3. /\ kont # <<>> /\ Len(kont) = 1 /\ kont[1] = f /\ Last(kont) = f
      /\ IsTemps(temps) /\ Len(temps) = 0
  <2>1. temps \in Seq({}) /\ Len(temps) = 0
    BY <1>1
  <2>2. kont # <<>> /\ Len(kont) = 1 /\ kont[1] = f
    BY <1>1
  <2>3. Last(kont) = f
    BY <2>2 DEF Last
  <2> QED BY <2>1, <2>2, <2>3 DEF IsTemps
<1>4. Operands(f) = 0
  BY <1>2, NeedsTable DEF Operands, ListPoints
<1> HIDE DEF f
<1>5. h \in [Nat -> Nat] /\ c \in [Nat -> Int] /\ h[1] = 0 /\ c[1] = 0
  OBVIOUS
<1> HIDE DEF h, c
<1>6. Layout(kont, h, c)
  <2>1. 1 .. Len(kont) - 1 = {} /\ 1 .. Len(kont) = {1}
    BY <1>3
  <2>2. \A j, k \in {1} : ~ (j < k)
    OBVIOUS
  <2> QED BY <1>5, <2>1, <2>2 DEF Layout
<1>7. Pinned(kont, temps, entries_, h, c)
  <2>1. \A j \in 1 .. Len(kont) : kont[j].at # "element"
    BY <1>2, <1>3
  <2> QED BY <2>1 DEF Pinned
<1>8. Stacked(kont, temps, entries_, current_depth_, h, c)
  BY <1>1, <1>3, <1>5, <1>6, <1>7 DEF Stacked
<1>9. Full(h[Len(kont)], Last(kont), temps, mode)
  BY <1>1, <1>3, <1>4, <1>5 DEF Full
<1>10. Last(kont).at \notin UsePoints
  BY <1>2, <1>3 DEF UsePoints
<1> QED BY <1>3, <1>8, <1>9, <1>10 DEF OInv

LEMMA StepOInv == IInv /\ TInv /\ OInv /\ [Next]_vars => OInv'
<1> SUFFICES ASSUME IInv, TInv, OInv, [Next]_vars PROVE OInv'
  OBVIOUS
<1>1. ASSUME Next PROVE OInv'
  <2>1. Steps
    BY <1>1, NextMoves, NextTouch DEF Steps
  <2> QED BY <1>1, <2>1, StatementLays, ExpressionLays, CallStepLays, WayOutLays
          DEF Next
<1>2. ASSUME UNCHANGED vars PROVE OInv'
  <2>1. /\ kont' = kont /\ mode' = mode /\ temps' = temps /\ entries_' = entries_
        /\ current_depth_' = current_depth_ /\ capacity_' = capacity_
    BY <1>2 DEF vars, machine, scopes
  <2> QED BY <2>1, Zenon DEF OInv
<1> QED BY <1>1, <1>2

LEMMA SpecOInv == Spec => []OInv
<1>1. Init => OInv
  BY StartedOInv DEF Init
<1> QED BY <1>1, StepOInv, SpecIInv, SpecTInv, PTL DEF Spec

LEMMA OInvFresh == IInv /\ OInv => ReferencesFresh
<1> SUFFICES ASSUME IInv, OInv, mode = "run", kont # <<>>
             PROVE  /\ Top.at = "element" => Refers(Temp(1))
                    /\ Top.at \in {"load", "store", "bump", "member"} =>
                         Refers(Temp(0)) /\ (Temp(0).slot => Temp(0).cap = capacity_)
  BY DEF ReferencesFresh
<1>1. PICK h, c : /\ Stacked(kont, temps, entries_, current_depth_, h, c)
                  /\ Full(h[Len(kont)], Top, temps, mode)
  BY DEF OInv, Top
<1> DEFINE n == Len(kont)
<1>2. n \in Nat \ {0} /\ Top = kont[n] /\ h[n] \in Nat
  <2>1. PICK N : kont \in Seq(FramesOver(N))
    BY DEF IInv, IsStack
  <2>2. n \in Nat \ {0} /\ Top = kont[n]
    BY <2>1, EmptySeq, FrontLast DEF Top
  <2>3. h \in [Nat -> Nat]
    BY <1>1 DEF Stacked, Layout
  <2> HIDE DEF n
  <2> QED BY <2>2, <2>3
<1>3. Len(temps) = h[n] + Operands(Top)
  BY <1>1 DEF Full
<1> HIDE DEF n
<1>4. ASSUME Top.at = "element" PROVE Refers(Temp(1))
  <2>1. Operands(Top) = 2
    BY <1>4, ElementKeeps
  <2>2. Len(temps) - 1 = h[n] + 1
    BY <1>2, <1>3, <2>1
  <2>3. Slotted(temps[h[n] + 1], entries_, c[n])
    <3>1. n \in 1 .. Len(kont)
      BY <1>2 DEF n
    <3> QED BY <1>1, <1>2, <1>4, <3>1 DEF Stacked, Pinned
  <2>4. Temp(1) = temps[h[n] + 1]
    BY <2>2 DEF Temp
  <2> QED BY <2>3, <2>4 DEF Refers, Slotted
<1>5. ASSUME Top.at \in {"load", "store", "bump", "member"}
      PROVE  Refers(Temp(0)) /\ (Temp(0).slot => Temp(0).cap = capacity_)
  <2>1. FreshIn(temps[Len(temps)], entries_, current_depth_, capacity_)
    BY <1>5 DEF OInv, UsePoints, Top
  <2>2. Len(temps) - 0 = Len(temps)
    <3>1. Operands(Top) \in Nat
      BY <1>1 DEF Full
    <3> QED BY <1>2, <1>3, <3>1
  <2>3. Temp(0) = temps[Len(temps)]
    BY <2>2 DEF Temp
  <2> QED BY <2>1, <2>3 DEF FreshIn, Slotted, Refers
<1> QED BY <1>4, <1>5

(* ReferencesFresh: in every run of every program, whatever is called or   *)
(* thrown meanwhile, the interpreter finds a reference where it uses one,  *)
(* to a variable that is in the table, and outside an index expression the *)
(* vector has not moved since it was taken (interpreter.cpp:185-206,       *)
(* 258-302).                                                               *)
THEOREM InterpreterReferences == Spec => []ReferencesFresh
BY SpecIInv, SpecOInv, OInvFresh, PTL
===========================================================================
