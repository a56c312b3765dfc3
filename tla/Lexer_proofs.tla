---------------------------- MODULE Lexer_proofs ----------------------------
(***************************************************************************)
(* The scanner on every source.  Two facts carry the proofs: each way      *)
(* through scan_token() moves current_ forward and not past the end        *)
(* (Progress), and it moves the location forward in the order of lines and *)
(* columns, so that whatever was placed before is before loc_.             *)
(* That a token is the longest lexeme at its place (LongestLexeme) rests   *)
(* on each scanner alone: a text is a lexeme of one kind at most.          *)
(***************************************************************************)
EXTENDS Lexer, SequenceTheorems, FiniteSetTheorems, WellFoundedInduction, TLAPS

(* "<" on the natural numbers, as a relation.                              *)
Less == {p \in Nat \X Nat : p[1] < p[2]}

LEMMA LessWellFounded == IsWellFoundedOn(Less, Nat)
<1>1. Less = OpToRel(<, Nat)
  BY Zenon DEF Less, OpToRel
<1> QED BY <1>1, NatLessThanWellFounded, Zenon

(* A non-empty set of natural numbers has a smallest element.              *)
LEMMA MinOfNat ==
  ASSUME NEW S \in SUBSET Nat, S # {}
  PROVE  Min(S) \in S /\ \A y \in S : Min(S) <= y
<1>1. PICK m \in S : \A y \in S : ~ (<<y, m>> \in Less)
  BY LessWellFounded, WFMin
<1>2. ASSUME NEW y \in S PROVE m <= y
  <2>1. y \in Nat /\ m \in Nat
    OBVIOUS
  <2>2. ~ (y < m)
    BY <1>1, <2>1 DEF Less
  <2> QED BY <2>1, <2>2
<1> QED BY <1>2 DEF Min

(* And a largest one if it is bounded.                                     *)
LEMMA MaxUpTo ==
  ASSUME NEW n \in Nat, NEW S \in SUBSET (1 .. n), S # {}
  PROVE  Max(S) \in S /\ \A y \in S : Max(S) >= y
<1> DEFINE T == {k \in Nat : n - k \in S}
<1>1. T \in SUBSET Nat /\ T # {}
  <2>1. PICK i \in S : TRUE
    OBVIOUS
  <2>2. n - i \in Nat /\ n - (n - i) = i
    BY <2>1
  <2> QED BY <2>2
<1>2. PICK m \in T : \A y \in T : m <= y
  <2> HIDE DEF T
  <2> QED BY <1>1, MinOfNat
<1>3. n - m \in S /\ m \in Nat
  BY <1>2
<1>4. ASSUME NEW y \in S PROVE n - m >= y
  <2>1. n - y \in Nat /\ n - (n - y) = y
    OBVIOUS
  <2>2. n - y \in T
    BY <2>1
  <2>3. m <= n - y
    BY <1>2, <2>2
  <2> QED BY <1>3, <2>1, <2>3
<1> QED BY <1>3, <1>4 DEF Max

(* Where a scanning loop stops: at the first of some positions, or at the  *)
(* end of the source.                                                      *)
LEMMA StopsAt ==
  ASSUME NEW n \in Nat, NEW i \in Nat \ {0}, NEW I \in SUBSET (i .. n)
  PROVE  LET to == Min(I \cup {n + 1})
         IN  /\ to \in Nat /\ to <= n + 1 /\ (to >= i \/ to = n + 1)
             /\ to \in I \/ to = n + 1
<1> DEFINE S == I \cup {n + 1}
<1>1. S \in SUBSET Nat /\ S # {} /\ n + 1 \in S
  OBVIOUS
<1>2. Min(S) \in S /\ \A y \in S : Min(S) <= y
  <2> HIDE DEF S
  <2> QED BY <1>1, MinOfNat
<1> DEFINE to == Min(S)
<1>3. /\ to \in I \/ to = n + 1
      /\ to <= n + 1
  BY <1>1, <1>2
<1> HIDE DEF to
<1>4. to \in Nat /\ to <= n + 1 /\ (to >= i \/ to = n + 1)
  <2>1. CASE to \in I
    <3>1. to \in i .. n
      BY <2>1
    <3> QED BY <3>1
  <2>2. CASE to = n + 1
    BY <2>2
  <2> QED BY <1>3, <2>1, <2>2
<1> QED BY <1>3, <1>4 DEF to

---------------------------------------------------------------------------
(* Each way through scan_token() moves forward, and not past the end.      *)

SourceOK == source_ \in Seq(STRING) /\ current_ \in 1 .. Len(source_) + 1

(* A place to go on from, after at least one character.                    *)
Ahead(to) == to \in current_ + 1 .. Len(source_) + 1

LEMMA PastStops ==
  ASSUME SourceOK, NEW i \in Nat \ {0}, NEW S
  PROVE  LET to == Past(i, S)
         IN  /\ to \in Nat /\ to <= Len(source_) + 1
             /\ to >= i \/ to = Len(source_) + 1
             /\ to \in i .. Len(source_) => source_[to] \notin S
<1> DEFINE I == {j \in i .. Len(source_) : source_[j] \notin S}
<1>1. Len(source_) \in Nat /\ I \in SUBSET (i .. Len(source_))
  BY DEF SourceOK
<1>2. \A to \in I : source_[to] \notin S
  OBVIOUS
<1>3. Past(i, S) = Min(I \cup {Len(source_) + 1})
  BY DEF Past
<1> HIDE DEF I
<1> DEFINE to == Past(i, S)
<1>4. /\ to \in Nat /\ to <= Len(source_) + 1
      /\ to >= i \/ to = Len(source_) + 1
      /\ to \in I \/ to = Len(source_) + 1
  BY <1>1, <1>3, StopsAt
<1> HIDE DEF to
<1>5. to \in i .. Len(source_) => source_[to] \notin S
  BY <1>1, <1>2, <1>4
<1> QED BY <1>4, <1>5 DEF to

(* A loop over the characters in S that starts at one of them.             *)
LEMMA PastAhead ==
  ASSUME SourceOK, current_ <= Len(source_), NEW S, source_[current_] \in S
  PROVE  Ahead(Past(current_, S))
<1> DEFINE to == Past(current_, S)
<1>1. current_ \in Nat \ {0} /\ Len(source_) \in Nat
  BY DEF SourceOK
<1>2. /\ to \in Nat /\ to <= Len(source_) + 1
      /\ to >= current_ \/ to = Len(source_) + 1
      /\ to \in current_ .. Len(source_) => source_[to] \notin S
  BY <1>1, PastStops
<1> HIDE DEF to
<1>3. to # current_
  BY <1>1, <1>2
<1> QED BY <1>1, <1>2, <1>3 DEF Ahead, to

LEMMA NumberAhead ==
  ASSUME SourceOK, current_ <= Len(source_), source_[current_] \in Digits
  PROVE  Ahead(NumberEnd(current_))
<1> DEFINE whole == DigitsEnd(current_)
           fraction == DigitsEnd(whole + 1)
<1>1. Ahead(whole)
  BY PastAhead DEF DigitsEnd
<1>2. /\ current_ \in Nat /\ Len(source_) \in Nat
      /\ whole \in Nat /\ whole > current_ /\ whole <= Len(source_) + 1
  BY <1>1 DEF Ahead, SourceOK
<1>w. whole + 1 \in Nat \ {0}
  BY <1>2
<1>3. /\ fraction \in Nat /\ fraction <= Len(source_) + 1
      /\ fraction >= whole + 1 \/ fraction = Len(source_) + 1
  <2> HIDE DEF whole
  <2> QED BY <1>w, PastStops DEF DigitsEnd
<1>4. NumberEnd(current_) \in {fraction, whole}
  BY DEF NumberEnd
<1> HIDE DEF whole, fraction
<1>5. fraction > current_
  BY <1>2, <1>3
<1> QED BY <1>1, <1>2, <1>3, <1>4, <1>5 DEF Ahead

LEMMA CommentAhead ==
  ASSUME SourceOK, current_ <= Len(source_), Follows(<<"/", "/">>, current_)
  PROVE  /\ Ahead(CommentEnd(current_ + 2))
         /\ \A j \in current_ .. CommentEnd(current_ + 2) - 1 : source_[j] # "\n"
<1>1. current_ \in Nat \ {0} /\ Len(source_) \in Nat /\ current_ + 2 \in Nat \ {0}
  BY DEF SourceOK
<1>2. CharAt(current_ + 1) = "/" /\ CharAt(current_) = "/"
  <2>1. /\ 1 \in DOMAIN <<"/", "/">> /\ <<"/", "/">>[1] = "/"
        /\ 2 \in DOMAIN <<"/", "/">> /\ <<"/", "/">>[2] = "/"
    OBVIOUS
  <2>2. CharAt(current_ + 2 - 1) = "/" /\ CharAt(current_ + 1 - 1) = "/"
    BY <2>1 DEF Follows
  <2> QED BY <1>1, <2>2
<1>3. current_ + 1 <= Len(source_)
  BY <1>1, <1>2 DEF CharAt, IsAtEnd
<1> DEFINE I == {j \in current_ + 2 .. Len(source_) : source_[j] = "\n"}
           to == CommentEnd(current_ + 2)
<1>4. to = Min(I \cup {Len(source_) + 1}) /\ I \in SUBSET (current_ + 2 .. Len(source_))
  BY DEF CommentEnd
<1> HIDE DEF I, to
<1>5. /\ to \in Nat /\ to <= Len(source_) + 1
      /\ to >= current_ + 2 \/ to = Len(source_) + 1
  BY <1>1, <1>4, StopsAt
<1>6. ASSUME NEW j \in current_ .. to - 1 PROVE source_[j] # "\n"
  <2>1. j \in Nat /\ j < to
    BY <1>1, <1>5
  <2>2. CASE j = current_ \/ j = current_ + 1
    <3>1. source_[j] = "/"
      BY <1>1, <1>2, <1>3, <2>2 DEF CharAt, IsAtEnd
    <3> QED BY <3>1
  <2>3. CASE j # current_ /\ j # current_ + 1
    <3>1. j \in current_ + 2 .. Len(source_)
      BY <1>1, <1>5, <2>1, <2>3
    <3>2. I \cup {Len(source_) + 1} \in SUBSET Nat /\ I \cup {Len(source_) + 1} # {}
      <4>1. \A y \in I : y \in Nat
        BY <1>1, <1>4
      <4> QED BY <1>1, <4>1
    <3>3. \A y \in I \cup {Len(source_) + 1} : to <= y
      BY <1>4, <3>2, MinOfNat
    <3>4. j \notin I
      BY <1>5, <2>1, <3>3
    <3> QED BY <3>1, <3>4 DEF I
  <2> QED BY <2>2, <2>3
<1> QED BY <1>1, <1>3, <1>5, <1>6 DEF Ahead, to

LEMMA QuoteAhead ==
  ASSUME SourceOK, current_ <= Len(source_)
  PROVE  /\ Ahead(ClosingQuote(current_))
         /\ IsAtEnd(ClosingQuote(current_)) => ClosingQuote(current_) = Len(source_) + 1
         /\ ~ IsAtEnd(ClosingQuote(current_)) => Ahead(ClosingQuote(current_) + 1)
<1>1. current_ + 1 \in Nat \ {0} /\ Len(source_) \in Nat /\ current_ \in Nat
  BY DEF SourceOK
<1> DEFINE I == {j \in current_ + 1 .. Len(source_) :
                   source_[j] = "\"" /\ j \notin Escaped(current_)}
           to == ClosingQuote(current_)
<1>2. to = Min(I \cup {Len(source_) + 1}) /\ I \in SUBSET (current_ + 1 .. Len(source_))
  BY DEF ClosingQuote
<1> HIDE DEF I, to
<1>3. /\ to \in Nat /\ to <= Len(source_) + 1
      /\ to >= current_ + 1 \/ to = Len(source_) + 1
  BY <1>1, <1>2, StopsAt
<1> QED BY <1>1, <1>3 DEF Ahead, IsAtEnd, to

(* An operator that is taken has all its characters in the source.         *)
LEMMA OperatorAhead ==
  ASSUME SourceOK, current_ <= Len(source_), source_[current_] \in Punctuation
  PROVE  Ahead(OperatorEnd(current_))
<1> DEFINE c == source_[current_]
           tries == Tries(c)
           taken == {k \in DOMAIN tries : Follows(tries[k], current_ + 1)}
<1>1. current_ \in Nat \ {0} /\ Len(source_) \in Nat
  BY DEF SourceOK
<1>2. /\ \E n \in Nat : DOMAIN tries = 1 .. n
      /\ \A k \in DOMAIN tries : tries[k] \in {<<"=">>, <<c, "=">>, <<c>>}
  <2> DEFINE one == <<"=">>
             two == <<c, "=">>
             twice == <<c>>
  <2>1. \/ tries = <<one, two, twice>>
        \/ tries = <<one, twice>>
        \/ tries = <<twice, one>>
        \/ tries = <<one>>
        \/ tries = <<>>
    BY DEF Tries
  <2> HIDE DEF one, two, twice, tries
  <2>2. CASE tries = <<one, two, twice>>
    BY <2>2 DEF one, two, twice
  <2>3. CASE tries = <<one, twice>>
    BY <2>3 DEF one, twice
  <2>4. CASE tries = <<twice, one>>
    BY <2>4 DEF one, twice
  <2>5. CASE tries = <<one>>
    BY <2>5 DEF one
  <2>6. CASE tries = <<>>
    BY <2>6
  <2> QED BY <2>1, <2>2, <2>3, <2>4, <2>5, <2>6
<1>3. c # "end"
  BY DEF Punctuation
<1> HIDE DEF c, tries
<1>4. ASSUME NEW k \in taken PROVE Ahead(current_ + 1 + Len(tries[k]))
  <2> DEFINE t == tries[k]
  <2>1. t \in {<<"=">>, <<c, "=">>, <<c>>} /\ Follows(t, current_ + 1)
    BY <1>2, <1>4
  <2> HIDE DEF t
  <2>2. Len(t) \in 1 .. 2 /\ Len(t) \in DOMAIN t /\ t[Len(t)] \in {"=", c}
    <3>1. CASE t = <<"=">>
      BY <3>1
    <3>2. CASE t = <<c, "=">>
      BY <3>2
    <3>3. CASE t = <<c>>
      BY <3>3
    <3> QED BY <2>1, <3>1, <3>2, <3>3
  <2>3. CharAt(current_ + 1 + Len(t) - 1) # "end"
    BY <1>3, <2>1, <2>2 DEF Follows
  <2>4. current_ + Len(t) <= Len(source_)
    BY <1>1, <2>2, <2>3 DEF CharAt, IsAtEnd
  <2> QED BY <1>1, <2>2, <2>4 DEF Ahead, t
<1>5. CASE taken = {}
  <2>1. OperatorEnd(current_) = current_ + 1
    BY <1>5 DEF OperatorEnd, tries, c
  <2> QED BY <1>1, <2>1 DEF Ahead
<1>6. CASE taken # {}
  <2>1. OperatorEnd(current_) = current_ + 1 + Len(tries[Min(taken)])
    BY <1>6 DEF OperatorEnd, tries, c
  <2>2. taken \in SUBSET Nat
    BY <1>2
  <2>3. Min(taken) \in taken
    <3> HIDE DEF taken
    <3> QED BY <1>6, <2>2, MinOfNat
  <2> HIDE DEF taken
  <2> QED BY <1>4, <2>1, <2>3
<1> QED BY <1>5, <1>6

---------------------------------------------------------------------------
(* And each moves the location forward.                                    *)

LEMMA BeforeTransitive ==
  ASSUME NEW a \in Locations, NEW b \in Locations, NEW c \in Locations,
         Before(a, b), Before(b, c)
  PROVE  Before(a, c)
BY DEF Before, Locations

LEMMA AdvancedLater ==
  ASSUME loc_ \in Locations, NEW n \in Nat \ {0}
  PROVE  Advanced(n) \in Locations /\ Before(loc_, Advanced(n))
<1>1. /\ Advanced(n).line = loc_.line
      /\ Advanced(n).column = loc_.column + n
      /\ Advanced(n) \in Locations
  BY DEF Advanced, Locations
<1>2. loc_.line \in Nat /\ loc_.column \in Nat
  BY DEF Locations
<1> QED BY <1>1, <1>2 DEF Before

LEMMA StringLater ==
  ASSUME SourceOK, loc_ \in Locations, NEW to, Ahead(to)
  PROVE  AfterString(to) \in Locations /\ Before(loc_, AfterString(to))
<1> DEFINE newlines == {j \in current_ + 1 .. to - 1 :
                          source_[j] = "\n" /\ j \notin Escaped(current_)}
<1>1. /\ current_ \in Nat \ {0} /\ Len(source_) \in Nat
      /\ to \in Nat /\ to > current_
  BY DEF SourceOK, Ahead
<1>2. AfterString(to) =
        IF newlines = {} THEN Advanced(to - current_)
        ELSE Location(loc_.line + Cardinality(newlines), 1 + (to - Max(newlines)))
  BY DEF AfterString
<1>3. newlines \in SUBSET (1 .. to - 1) /\ to - 1 \in Nat
  BY <1>1
<1> HIDE DEF newlines
<1>4. CASE newlines = {}
  <2>1. to - current_ \in Nat \ {0}
    BY <1>1
  <2> QED BY <1>2, <1>4, <2>1, AdvancedLater
<1>5. CASE newlines # {}
  <2>1. Max(newlines) \in 1 .. to - 1
    BY <1>3, <1>5, MaxUpTo
  <2>2. IsFiniteSet(newlines)
    <3>1. IsFiniteSet(1 .. to - 1)
      BY <1>3, FS_Interval
    <3> QED BY <1>3, <3>1, FS_Subset
  <2>3. Cardinality(newlines) \in Nat \ {0}
    BY <1>5, <2>2, FS_CardinalityType, FS_EmptySet
  <2> DEFINE l == loc_.line + Cardinality(newlines)
             k == 1 + (to - Max(newlines))
  <2>4. /\ loc_.line \in Nat \ {0} /\ l \in Nat \ {0} /\ l > loc_.line
    BY <2>3 DEF Locations
  <2>5. k \in Nat
    BY <1>1, <2>1
  <2>6. AfterString(to) = [line |-> l, column |-> k]
    BY <1>2, <1>5 DEF Location
  <2> HIDE DEF l, k
  <2> QED BY <2>4, <2>5, <2>6 DEF Locations, Before
<1> QED BY <1>4, <1>5

---------------------------------------------------------------------------
(* What scan_token() does, whichever way it goes: it moves on, and places  *)
(* a token, a report, or nothing, where it started.                        *)

IsSeq(q) == \E S : q \in Seq(S)

LInv ==
  /\ TypeOK
  /\ IsSeq(tokens_) /\ IsSeq(sink)
  /\ \A i \in DOMAIN tokens_ : tokens_[i].to \in Nat
  /\ \A i \in DOMAIN sink : sink[i].from \in Nat

ScanToken ==
  \/ ScanOperator \/ ScanComment \/ ScanBlank \/ ScanNewline
  \/ ScanNumber \/ ScanWord \/ ScanString \/ ScanUnexpected

Moves ==
  /\ ~ done /\ UNCHANGED <<source_, done>>
  /\ Ahead(current_')
  /\ loc_' \in Locations /\ Before(loc_, loc_')

PlacesToken ==
  \E type : /\ tokens_' = Append(tokens_, Token(type, current_, current_', loc_))
            /\ sink' = sink
PlacesReport ==
  \E code : /\ sink' = Append(sink, Report(code, current_, loc_))
            /\ tokens_' = tokens_
            /\ IF code = "unterminated_string" THEN IsAtEnd(current_')
               ELSE current_' = current_ + 1
PlacesNothing ==
  /\ UNCHANGED <<tokens_, sink>>
  /\ \/ current_' = current_ + 1 /\ source_[current_] \in {" ", "\r", "\t", "\n"}
     \/ /\ Follows(<<"/", "/">>, current_)
        /\ \A j \in current_ .. current_' - 1 : source_[j] # "\n"
Places == PlacesToken \/ PlacesReport \/ PlacesNothing

LEMMA SourceIsOK == ASSUME LInv PROVE SourceOK
BY LexerAssumption DEF LInv, TypeOK, SourceOK

LEMMA AddTokenMoves ==
  ASSUME LInv, Scanning, NEW type, NEW to, Ahead(to), AddToken(type, to)
  PROVE  Moves /\ Places
<1>1. to - current_ \in Nat \ {0}
  BY SourceIsOK DEF SourceOK, Ahead
<1>2. Before(loc_, loc_') /\ loc_' \in Locations
  BY <1>1, AdvancedLater DEF AddToken, LInv, TypeOK
<1>3. Moves
  BY <1>2 DEF Moves, AddToken, Scanning, Ahead
<1>4. PlacesToken
  BY DEF PlacesToken, AddToken
<1> QED BY <1>3, <1>4 DEF Places

LEMMA SkipMoves ==
  ASSUME LInv, Scanning, NEW to, Ahead(to), Skip(to)
  PROVE  Moves /\ UNCHANGED <<tokens_, sink>>
<1>1. to - current_ \in Nat \ {0}
  BY SourceIsOK DEF SourceOK, Ahead
<1>2. Before(loc_, loc_') /\ loc_' \in Locations
  BY <1>1, AdvancedLater DEF Skip, LInv, TypeOK
<1> QED BY <1>2 DEF Moves, Skip, Scanning, Ahead

LEMMA IsAtEndStays ==
  ASSUME source_' = source_, NEW to, current_' = to, IsAtEnd(to)
  PROVE  IsAtEnd(current_')
BY DEF IsAtEnd

LEMMA Progress == ASSUME LInv, ScanToken PROVE Moves /\ Places
<1>0. /\ SourceOK /\ Scanning /\ current_ <= Len(source_)
      /\ current_ \in Nat \ {0} /\ Len(source_) \in Nat
      /\ loc_ \in Locations
  <2>1. Scanning
    BY DEF ScanToken, ScanOperator, ScanComment, ScanBlank, ScanNewline,
           ScanNumber, ScanWord, ScanString, ScanUnexpected
  <2>2. SourceOK /\ loc_ \in Locations
    BY SourceIsOK DEF LInv, TypeOK
  <2> QED BY <2>1, <2>2 DEF Scanning, IsAtEnd, SourceOK
<1>1. Ahead(current_ + 1)
  BY <1>0 DEF Ahead
<1>2. CASE ScanOperator
  <2>1. Ahead(OperatorEnd(current_))
    BY <1>0, <1>2, OperatorAhead DEF ScanOperator
  <2> QED BY <1>0, <1>2, <2>1, AddTokenMoves DEF ScanOperator
<1>3. CASE ScanComment
  <2> DEFINE to == CommentEnd(current_ + 2)
  <2>1. Ahead(to) /\ \A j \in current_ .. to - 1 : source_[j] # "\n"
    BY <1>0, <1>3, CommentAhead DEF ScanComment
  <2>2. Skip(to) /\ current_' = to /\ Follows(<<"/", "/">>, current_)
    BY <1>3 DEF ScanComment, Skip
  <2> HIDE DEF to
  <2>3. Moves /\ UNCHANGED <<tokens_, sink>>
    BY <1>0, <2>1, <2>2, SkipMoves
  <2> QED BY <2>1, <2>2, <2>3 DEF Places, PlacesNothing
<1>4. CASE ScanBlank
  <2>1. Moves /\ UNCHANGED <<tokens_, sink>>
    BY <1>0, <1>1, <1>4, SkipMoves DEF ScanBlank
  <2>2. current_' = current_ + 1 /\ source_[current_] \in {" ", "\r", "\t", "\n"}
    BY <1>4, Zenon DEF ScanBlank, Skip
  <2> QED BY <2>1, <2>2, Zenon DEF Places, PlacesNothing
<1>5. CASE ScanNewline
  <2>1. loc_' = [line |-> loc_.line + 1, column |-> 0]
    BY <1>5 DEF ScanNewline, Location
  <2>2. loc_.line \in Nat \ {0}
    BY <1>0 DEF Locations
  <2>3. loc_' \in Locations /\ Before(loc_, loc_')
    BY <2>1, <2>2 DEF Locations, Before
  <2>4. Moves
    BY <1>0, <1>1, <1>5, <2>3 DEF ScanNewline, Moves, Scanning
  <2>5. PlacesNothing
    BY <1>5, Zenon DEF ScanNewline, PlacesNothing
  <2> QED BY <2>4, <2>5 DEF Places
<1>6. CASE ScanNumber
  <2>1. Ahead(NumberEnd(current_))
    BY <1>0, <1>6, NumberAhead DEF ScanNumber
  <2> QED BY <1>0, <1>6, <2>1, AddTokenMoves DEF ScanNumber
<1>7. CASE ScanWord
  <2>1. source_[current_] \in WordChars
    BY <1>7 DEF ScanWord, WordChars
  <2>2. Ahead(WordEnd(current_))
    BY <1>0, <2>1, PastAhead DEF WordEnd
  <2>3. \E type : AddToken(type, WordEnd(current_))
    BY <1>7 DEF ScanWord
  <2> QED BY <1>0, <2>2, <2>3, AddTokenMoves
<1>8. CASE ScanString
  <2> DEFINE quote == ClosingQuote(current_)
  <2>1. /\ Ahead(quote)
        /\ ~ IsAtEnd(quote) => Ahead(quote + 1)
    BY <1>0, QuoteAhead
  <2>2. UNCHANGED <<source_, done>> /\ ~ done
    BY <1>8 DEF ScanString, Scanning
  <2>3. CASE IsAtEnd(quote)
    <3>1. /\ sink' = Append(sink, Report("unterminated_string", current_, loc_))
          /\ current_' = quote /\ loc_' = AfterString(quote) /\ tokens_' = tokens_
      BY <1>8, <2>3 DEF ScanString
    <3>2. AfterString(quote) \in Locations /\ Before(loc_, AfterString(quote))
      BY <1>0, <2>1, StringLater
    <3> HIDE DEF quote
    <3>3. Moves
      BY <2>1, <2>2, <3>1, <3>2 DEF Moves, Ahead
    <3>4. PlacesReport
      BY <2>2, <2>3, <3>1, IsAtEndStays DEF PlacesReport
    <3> QED BY <3>3, <3>4 DEF Places
  <2>4. CASE ~ IsAtEnd(quote)
    <3>1. /\ tokens_' = Append(tokens_, Token("STRING", current_, quote + 1, loc_))
          /\ current_' = quote + 1 /\ loc_' = AfterString(quote + 1)
          /\ sink' = sink
      BY <1>8, <2>4 DEF ScanString
    <3>2. Ahead(quote + 1)
      BY <2>1, <2>4
    <3>3. AfterString(quote + 1) \in Locations /\ Before(loc_, AfterString(quote + 1))
      BY <1>0, <3>2, StringLater
    <3> HIDE DEF quote
    <3>4. Moves
      BY <2>2, <3>1, <3>2, <3>3 DEF Moves, Ahead
    <3>5. PlacesToken
      BY <3>1 DEF PlacesToken
    <3> QED BY <3>4, <3>5 DEF Places
  <2> QED BY <2>3, <2>4
<1>9. CASE ScanUnexpected
  <2>1. loc_' \in Locations /\ Before(loc_, loc_')
    BY <1>0, <1>9, AdvancedLater DEF ScanUnexpected
  <2>2. Moves
    BY <1>0, <1>1, <1>9, <2>1 DEF ScanUnexpected, Moves, Ahead, Scanning
  <2>3. PlacesReport
    BY <1>9 DEF ScanUnexpected, PlacesReport
  <2> QED BY <2>2, <2>3 DEF Places
<1> QED BY <1>2, <1>3, <1>4, <1>5, <1>6, <1>7, <1>8, <1>9 DEF ScanToken

---------------------------------------------------------------------------
(* What is placed keeps its place.                                         *)

LEMMA AppendPlaced ==
  ASSUME NEW q, IsSeq(q), NEW e
  PROVE  /\ IsSeq(Append(q, e))
         /\ \A i \in DOMAIN Append(q, e) :
              \/ Append(q, e)[i] = e
              \/ i \in DOMAIN q /\ Append(q, e)[i] = q[i]
<1> DEFINE r == Append(q, e)
<1>1. PICK S : q \in Seq(S)
  BY DEF IsSeq
<1>2. q \in Seq(S \cup {e}) /\ e \in S \cup {e}
  BY <1>1
<1>3. /\ r \in Seq(S \cup {e})
      /\ Len(r) = Len(q) + 1
      /\ \A i \in 1 .. Len(q) : r[i] = q[i]
      /\ r[Len(q) + 1] = e
  BY <1>2, AppendProperties
<1> HIDE DEF r
<1>4. /\ DOMAIN q = 1 .. Len(q) /\ DOMAIN r = 1 .. Len(q) + 1 /\ Len(q) \in Nat
  BY <1>1, <1>3
<1>5. ASSUME NEW i \in DOMAIN r
      PROVE  r[i] = e \/ (i \in DOMAIN q /\ r[i] = q[i])
  BY <1>3, <1>4
<1> QED BY <1>3, <1>5 DEF IsSeq, r

TokenOK(t, current) ==
  /\ t.to \in Nat /\ t.from \in 1 .. t.to
  /\ t.to <= current /\ t.loc \in Locations

LEMMA LInvInit == Init => LInv
<1> SUFFICES ASSUME Init PROVE LInv
  OBVIOUS
<1>1. Len(source_) \in Nat
  BY LexerAssumption DEF Init
<1>2. tokens_ = <<>> /\ sink = <<>> /\ DOMAIN <<>> = {} /\ IsSeq(<<>>)
  BY DEF Init, IsSeq
<1>3. loc_ \in Locations
  BY DEF Init, Location, Locations
<1>4. source_ \in Sources /\ current_ \in 1 .. Len(source_) + 1 /\ done \in BOOLEAN
  <2>1. source_ \in Sources /\ current_ = 1 /\ done = FALSE
    BY DEF Init
  <2>2. current_ \in 1 .. Len(source_) + 1
    BY <1>1, <2>1
  <2> QED BY <2>1, <2>2
<1> QED BY <1>2, <1>3, <1>4 DEF LInv, TypeOK

LEMMA LInvStep == LInv /\ [Next]_vars => LInv'
<1> SUFFICES ASSUME LInv, [Next]_vars PROVE LInv'
  OBVIOUS
<1>0. /\ source_ \in Sources /\ Len(source_) \in Nat
      /\ current_ \in 1 .. Len(source_) + 1 /\ current_ \in Nat
      /\ loc_ \in Locations
      /\ \A i \in DOMAIN tokens_ : TokenOK(tokens_[i], current_)
      /\ \A i \in DOMAIN sink : /\ sink[i].from <= current_ /\ sink[i].from \in Nat
                                /\ sink[i].loc \in Locations
      /\ IsSeq(tokens_)
      /\ IsSeq(sink)
      /\ done \in BOOLEAN
  BY SourceIsOK DEF LInv, TypeOK, TokenOK, SourceOK
<1>g. \A t : \A c \in Nat : current_ <= c /\ TokenOK(t, current_) => TokenOK(t, c)
  BY <1>0 DEF TokenOK
<1> DEFINE SinkOK == \A i \in DOMAIN sink' :
                       /\ sink'[i].from <= current_' /\ sink'[i].from \in Nat
                       /\ sink'[i].loc \in Locations
           TokensOK == \A i \in DOMAIN tokens_' : TokenOK(tokens_'[i], current_')
<1>c. ASSUME source_' \in Sources, current_' \in 1 .. Len(source_') + 1,
             loc_' \in Locations, done' \in BOOLEAN, TokensOK, SinkOK,
             IsSeq(tokens_'), IsSeq(sink')
      PROVE  LInv'
  BY <1>c DEF LInv, TypeOK, TokenOK
<1>1. ASSUME ScanToken PROVE LInv'
  <2>1. Moves /\ Places
    BY <1>1, Progress
  <2>2. /\ source_' = source_ /\ done' = done
        /\ current_' \in Nat /\ current_ < current_'
        /\ current_' \in 1 .. Len(source_) + 1
        /\ loc_' \in Locations
    BY <1>0, <2>1 DEF Moves, Ahead
  <2>3. CASE PlacesToken
    <3>1. PICK type : /\ tokens_' = Append(tokens_, Token(type, current_, current_', loc_))
                      /\ sink' = sink
      BY <2>3 DEF PlacesToken
    <3> DEFINE e == Token(type, current_, current_', loc_)
    <3>2. TokenOK(e, current_')
      BY <1>0, <2>2, <3>1 DEF Token, TokenOK
    <3>a. tokens_' = Append(tokens_, e)
      BY <3>1
    <3> HIDE DEF e
    <3>3. /\ IsSeq(tokens_')
          /\ \A i \in DOMAIN tokens_' :
               tokens_'[i] = e \/ (i \in DOMAIN tokens_ /\ tokens_'[i] = tokens_[i])
      BY <1>0, <3>a, AppendPlaced
    <3>4. TokensOK
      BY <1>0, <1>g, <2>2, <3>2, <3>3
    <3>5. SinkOK
      BY <1>0, <2>2, <3>1
    <3>6. IsSeq(sink')
      BY <1>0, <3>1
    <3> HIDE DEF TokensOK, SinkOK
    <3> QED BY <1>0, <1>c, <2>2, <3>3, <3>4, <3>5, <3>6
  <2>4. CASE PlacesReport
    <3>1. PICK code : /\ sink' = Append(sink, Report(code, current_, loc_))
                      /\ tokens_' = tokens_
      BY <2>4 DEF PlacesReport
    <3> DEFINE e == Report(code, current_, loc_)
    <3>2. e.from = current_ /\ e.loc = loc_
      BY DEF Report
    <3>a. sink' = Append(sink, e)
      BY <3>1
    <3> HIDE DEF e
    <3>3. /\ IsSeq(sink')
          /\ \A i \in DOMAIN sink' :
               sink'[i] = e \/ (i \in DOMAIN sink /\ sink'[i] = sink[i])
      BY <1>0, <3>a, AppendPlaced
    <3>4. TokensOK
      BY <1>0, <1>g, <2>2, <3>1
    <3>5. SinkOK
      BY <1>0, <2>2, <3>2, <3>3
    <3>6. IsSeq(tokens_')
      BY <1>0, <3>1
    <3> HIDE DEF TokensOK, SinkOK
    <3> QED BY <1>0, <1>c, <2>2, <3>3, <3>4, <3>5, <3>6
  <2>5. CASE PlacesNothing
    <3>0. UNCHANGED <<tokens_, sink>>
      BY <2>5 DEF PlacesNothing
    <3>1. TokensOK /\ SinkOK
      BY <1>0, <1>g, <2>2, <3>0
    <3>2. IsSeq(tokens_') /\ IsSeq(sink')
      BY <1>0, <3>0
    <3> HIDE DEF TokensOK, SinkOK
    <3> QED BY <1>0, <1>c, <2>2, <3>1, <3>2
  <2> QED BY <2>1, <2>3, <2>4, <2>5 DEF Places
<1>2. CASE Finish
  <2> DEFINE e == Token("END_OF_FILE", current_, current_, loc_)
  <2>1. /\ tokens_' = Append(tokens_, e) /\ done' = TRUE
        /\ UNCHANGED <<source_, current_, loc_, sink>>
    BY <1>2 DEF Finish
  <2>2. TokenOK(e, current_)
    BY <1>0 DEF Token, TokenOK
  <2> HIDE DEF e
  <2>3. /\ IsSeq(tokens_')
        /\ \A i \in DOMAIN tokens_' :
             tokens_'[i] = e \/ (i \in DOMAIN tokens_ /\ tokens_'[i] = tokens_[i])
    BY <1>0, <2>1, AppendPlaced
  <2>4. TokensOK /\ SinkOK
    BY <1>0, <2>1, <2>2, <2>3
  <2>5. IsSeq(sink')
    BY <1>0, <2>1
  <2> HIDE DEF TokensOK, SinkOK
  <2> QED BY <1>0, <1>c, <2>1, <2>3, <2>4, <2>5
<1>3. CASE UNCHANGED vars
  BY <1>3 DEF vars, LInv, TypeOK
<1> QED BY <1>1, <1>2, <1>3 DEF Next, ScanToken

(* No position leaves the source, on any source: no loop of the scanner    *)
(* reads past the end of the string_view (lexer.cpp:85, 116, 124, 135).    *)
THEOREM LexerTypeCorrect == Spec => []TypeOK
<1>1. LInv => TypeOK
  BY DEF LInv
<1> QED BY <1>1, LInvInit, LInvStep, PTL DEF Spec

---------------------------------------------------------------------------

(* While it scans, everything placed starts before current_ and is located *)
(* before loc_, the place of the next lexeme.                              *)
Behind(a) == a.from < current_ /\ Before(a.loc, loc_)
InOrder(a, b) == a.from < b.from => Before(a.loc, b.loc)

(* The two halves of LocationsIncrease for one new element: what is behind *)
(* precedes it, and it does not start before any of them.                  *)
LEMMA NewestLast ==
  ASSUME NEW a, NEW b, a.from \in Nat, Behind(a), a.loc \in Locations,
         b.from = current_, b.loc = loc_, current_ \in Nat
  PROVE  InOrder(a, b) /\ InOrder(b, a)
BY DEF Behind, InOrder

(* What is behind stays behind.                                            *)
LEMMA StaysBehind ==
  ASSUME SourceOK, Moves, loc_ \in Locations,
         NEW a, a.from \in Nat, a.loc \in Locations,
         Behind(a) \/ (a.from = current_ /\ a.loc = loc_)
  PROVE  a.from < current_' /\ Before(a.loc, loc_')
<1>1. current_ \in Nat /\ current_' \in Nat /\ current_ < current_'
  BY DEF SourceOK, Moves, Ahead
<1>2. a.from < current_'
  BY <1>1 DEF Behind
<1>3. CASE Behind(a)
  BY <1>2, <1>3, BeforeTransitive DEF Behind, Moves
<1>4. CASE a.from = current_ /\ a.loc = loc_
  BY <1>2, <1>4 DEF Moves
<1> QED BY <1>3, <1>4

IsPlaced(a) ==
  (\E i \in DOMAIN tokens_ : a = tokens_[i]) \/ (\E i \in DOMAIN sink : a = sink[i])

PInv ==
  /\ ~ done => \A a : IsPlaced(a) => Behind(a)
  /\ \A a, b : IsPlaced(a) /\ IsPlaced(b) => InOrder(a, b)

LEMMA PlacedTypes ==
  ASSUME LInv, NEW a, IsPlaced(a)
  PROVE  a.from \in Nat /\ a.loc \in Locations
<1>1. CASE \E i \in DOMAIN tokens_ : a = tokens_[i]
  BY <1>1 DEF LInv, TypeOK
<1>2. CASE \E i \in DOMAIN sink : a = sink[i]
  BY <1>2 DEF LInv, TypeOK
<1> QED BY <1>1, <1>2 DEF IsPlaced

(* At most one element is placed by a step, at current_ and loc_.          *)
LEMMA OnePlaced ==
  ASSUME LInv, Places \/ Finish
  PROVE  \A a : IsPlaced(a)' => IsPlaced(a) \/ (a.from = current_ /\ a.loc = loc_)
<1>0. IsSeq(tokens_) /\ IsSeq(sink)
  BY DEF LInv
<1>1. ASSUME NEW e, e.from = current_, e.loc = loc_,
             tokens_' = Append(tokens_, e), sink' = sink, NEW a, IsPlaced(a)'
      PROVE  IsPlaced(a) \/ (a.from = current_ /\ a.loc = loc_)
  <2>1. \A i \in DOMAIN tokens_' :
          tokens_'[i] = e \/ (i \in DOMAIN tokens_ /\ tokens_'[i] = tokens_[i])
    BY <1>0, <1>1, AppendPlaced
  <2> QED BY <1>1, <2>1 DEF IsPlaced
<1>2. ASSUME NEW e, e.from = current_, e.loc = loc_,
             sink' = Append(sink, e), tokens_' = tokens_, NEW a, IsPlaced(a)'
      PROVE  IsPlaced(a) \/ (a.from = current_ /\ a.loc = loc_)
  <2>1. \A i \in DOMAIN sink' :
          sink'[i] = e \/ (i \in DOMAIN sink /\ sink'[i] = sink[i])
    BY <1>0, <1>2, AppendPlaced
  <2> QED BY <1>2, <2>1 DEF IsPlaced
<1>3. CASE PlacesToken \/ Finish
  <2>1. PICK type, to :
          /\ tokens_' = Append(tokens_, Token(type, current_, to, loc_))
          /\ sink' = sink
    BY <1>3 DEF PlacesToken, Finish
  <2> DEFINE e == Token(type, current_, to, loc_)
  <2>2. e.from = current_ /\ e.loc = loc_
    BY DEF Token
  <2> HIDE DEF e
  <2>3. tokens_' = Append(tokens_, e)
    BY <2>1 DEF e
  <2> QED BY <1>1, <2>1, <2>2, <2>3
<1>4. CASE PlacesReport
  <2>1. PICK code : /\ sink' = Append(sink, Report(code, current_, loc_))
                    /\ tokens_' = tokens_
    BY <1>4 DEF PlacesReport
  <2> DEFINE e == Report(code, current_, loc_)
  <2>2. e.from = current_ /\ e.loc = loc_
    BY DEF Report
  <2> HIDE DEF e
  <2>3. sink' = Append(sink, e)
    BY <2>1 DEF e
  <2> QED BY <1>2, <2>1, <2>2, <2>3
<1>5. CASE PlacesNothing
  BY <1>5 DEF IsPlaced, PlacesNothing
<1> QED BY <1>3, <1>4, <1>5 DEF Places

LEMMA PInvStep == LInv /\ LInv' /\ PInv /\ [Next]_vars => PInv'
<1> SUFFICES ASSUME LInv, LInv', PInv, [Next]_vars PROVE PInv'
  OBVIOUS
<1>1. CASE ScanToken \/ Finish
  <2>0. ~ done /\ SourceOK /\ current_ \in Nat /\ loc_ \in Locations
    BY <1>1, Progress, SourceIsOK DEF Moves, Finish, LInv, TypeOK, SourceOK
  <2>1. \A a : IsPlaced(a)' => IsPlaced(a) \/ (a.from = current_ /\ a.loc = loc_)
    BY <1>1, Progress, OnePlaced
  <2>2. \A a : IsPlaced(a) => a.from \in Nat /\ a.loc \in Locations /\ Behind(a)
    BY <2>0, PlacedTypes DEF PInv
  <2>3. ASSUME NEW a, NEW b, IsPlaced(a)', IsPlaced(b)' PROVE InOrder(a, b)
    <3>1. CASE IsPlaced(a) /\ IsPlaced(b)
      BY <3>1 DEF PInv
    <3>2. CASE IsPlaced(a) /\ b.from = current_ /\ b.loc = loc_
      BY <2>0, <2>2, <3>2, NewestLast
    <3>3. CASE IsPlaced(b) /\ a.from = current_ /\ a.loc = loc_
      BY <2>0, <2>2, <3>3, NewestLast
    <3>4. CASE a.from = current_ /\ b.from = current_
      BY <2>0, <3>4 DEF InOrder
    <3> QED BY <2>1, <2>3, <3>1, <3>2, <3>3, <3>4
  <2>4. ASSUME ~ done', NEW a, IsPlaced(a)' PROVE a.from < current_' /\ Before(a.loc, loc_')
    <3>1. ScanToken
      BY <1>1, <2>4 DEF Finish
    <3>2. Moves
      BY <3>1, Progress
    <3>3. a.from \in Nat /\ a.loc \in Locations
      BY <2>0, <2>1, <2>2, <2>4
    <3>4. Behind(a) \/ (a.from = current_ /\ a.loc = loc_)
      BY <2>1, <2>2, <2>4
    <3> QED BY <2>0, <3>2, <3>3, <3>4, StaysBehind
  <2> QED BY <2>3, <2>4 DEF PInv, Behind, InOrder
<1>2. CASE UNCHANGED vars
  BY <1>2 DEF vars, PInv, IsPlaced, Behind, InOrder
<1> QED BY <1>1, <1>2 DEF Next, ScanToken

(* On every source, locations order lexemes and errors as the source does  *)
(* (lexer.cpp:98, 136-139).                                                *)
THEOREM LexerLocationsIncrease == Spec => []LocationsIncrease
<1>1. Init => PInv
  BY DEF Init, PInv, IsPlaced
<1>2. PInv => LocationsIncrease
  <2> SUFFICES ASSUME PInv PROVE LocationsIncrease
    OBVIOUS
  <2> DEFINE placed == {tokens_[i] : i \in DOMAIN tokens_} \cup {sink[i] : i \in DOMAIN sink}
  <2>1. \A a \in placed : IsPlaced(a)
    BY DEF IsPlaced
  <2>2. \A a, b \in placed : a.from < b.from => Before(a.loc, b.loc)
    <3> HIDE DEF placed
    <3> QED BY <2>1 DEF PInv, InOrder
  <2> QED BY <2>2 DEF LocationsIncrease
<1> QED BY <1>1, <1>2, LInvInit, LInvStep, PInvStep, PTL DEF Spec

---------------------------------------------------------------------------
(* What has been scanned is accounted for.                                 *)

Owns(t, p) == t.from <= p /\ p < t.to

LEMMA InRange ==
  ASSUME NEW m \in Nat, NEW n \in Nat, NEW p \in m .. n - 1
  PROVE  p \in Nat /\ m <= p /\ p < n
OBVIOUS

LEMMA IntoRange ==
  ASSUME NEW m \in Nat, NEW n \in Nat, NEW p \in Nat, m <= p, p < n
  PROVE  p \in m .. n - 1
OBVIOUS

LEMMA AppendKeeps ==
  ASSUME NEW q, IsSeq(q), NEW r, r = q \/ \E e : r = Append(q, e)
  PROVE  \A i \in DOMAIN q : i \in DOMAIN r /\ r[i] = q[i]
<1>1. CASE r = q
  BY <1>1
<1>2. CASE \E e : r = Append(q, e)
  <2>1. PICK e : r = Append(q, e)
    BY <1>2
  <2>2. PICK S : q \in Seq(S)
    BY DEF IsSeq
  <2>3. q \in Seq(S \cup {e}) /\ e \in S \cup {e}
    BY <2>2
  <2> QED BY <2>1, <2>3, AppendProperties
<1> QED BY <1>1, <1>2

LEMMA AppendPlaces ==
  ASSUME NEW q, IsSeq(q), NEW e
  PROVE  \E i \in DOMAIN Append(q, e) : Append(q, e)[i] = e
<1>1. PICK S : q \in Seq(S)
  BY DEF IsSeq
<1>2. q \in Seq(S \cup {e}) /\ e \in S \cup {e}
  BY <1>1
<1> QED BY <1>2, AppendProperties

(* Tokens do not overlap, no report is about a token, and a string that    *)
(* never ends takes the whole rest of the source.                          *)
Apart ==
  /\ \A i, j \in DOMAIN tokens_ : i < j => tokens_[i].to <= tokens_[j].from
  /\ \A i \in DOMAIN tokens_, k \in DOMAIN sink :
       /\ ~ Owns(tokens_[i], sink[k].from)
       /\ sink[k].code = "unterminated_string" =>
            tokens_[i].to <= sink[k].from \/ tokens_[i].from = tokens_[i].to
  /\ \A k \in DOMAIN sink : sink[k].code = "unterminated_string" => IsAtEnd(current_)

(* The two ways in which a character is accounted for.                     *)
Owned(p) == \E i \in DOMAIN tokens_ : Owns(tokens_[i], p)
Passed(p) ==
  source_[p] \in {" ", "\r", "\t", "\n"} \/ CommentedOut(p) \/ Reported(p)

NInv ==
  /\ LInv /\ PInv /\ Apart
  /\ \A p \in 1 .. current_ - 1 : Owned(p) \/ Passed(p)

(* A token that owns a character is the only one, and has no report.       *)
LEMMA OneOwner ==
  ASSUME LInv, Apart, NEW p \in Nat, NEW i \in DOMAIN tokens_, Owns(tokens_[i], p)
  PROVE  /\ \A j \in DOMAIN tokens_ : Owns(tokens_[j], p) => j = i
         /\ ~ Reported(p)
<1>1. /\ DOMAIN tokens_ \in SUBSET Nat
      /\ \A j \in DOMAIN tokens_ :
           tokens_[j].from \in Nat /\ tokens_[j].to \in Nat
      /\ \A k \in DOMAIN sink : sink[k].from \in Nat
  BY DEF LInv, TypeOK, IsSeq
<1>2. ASSUME NEW j \in DOMAIN tokens_, Owns(tokens_[j], p), j # i PROVE FALSE
  <2>1. CASE i < j
    <3>1. tokens_[i].to <= tokens_[j].from
      BY <2>1 DEF Apart
    <3> QED BY <1>1, <1>2, <3>1 DEF Owns
  <2>2. CASE j < i
    <3>1. tokens_[j].to <= tokens_[i].from
      BY <2>2 DEF Apart
    <3> QED BY <1>1, <1>2, <3>1 DEF Owns
  <2> QED BY <1>1, <1>2, <2>1, <2>2
<1>3. ASSUME NEW k \in DOMAIN sink,
             \/ sink[k].from = p
             \/ sink[k].code = "unterminated_string" /\ sink[k].from < p
      PROVE  FALSE
  <2>1. CASE sink[k].from = p
    BY <2>1 DEF Apart
  <2>2. CASE sink[k].code = "unterminated_string" /\ sink[k].from < p
    <3>1. tokens_[i].to <= sink[k].from \/ tokens_[i].from = tokens_[i].to
      BY <2>2 DEF Apart
    <3> QED BY <1>1, <2>2, <3>1 DEF Owns
  <2> QED BY <1>3, <2>1, <2>2
<1> QED BY <1>2, <1>3 DEF Reported

LEMMA NothingLostFollows == NInv => NothingLost
<1> SUFFICES ASSUME NInv PROVE NothingLost
  OBVIOUS
<1> DEFINE owners(p) == {i \in DOMAIN tokens_ : tokens_[i].from <= p /\ p < tokens_[i].to}
<1>1. ASSUME NEW p \in 1 .. current_ - 1
      PROVE  IF owners(p) = {} THEN Passed(p)
             ELSE Cardinality(owners(p)) = 1 /\ ~ Reported(p)
  <2>1. p \in Nat /\ LInv /\ Apart /\ (Owned(p) \/ Passed(p))
    BY SourceIsOK DEF NInv, SourceOK
  <2>2. \A i : i \in owners(p) <=> i \in DOMAIN tokens_ /\ Owns(tokens_[i], p)
    BY DEF Owns
  <2> HIDE DEF owners
  <2>3. CASE owners(p) = {}
    BY <2>1, <2>2, <2>3 DEF Owned
  <2>4. CASE owners(p) # {}
    <3>1. PICK i \in DOMAIN tokens_ : i \in owners(p) /\ Owns(tokens_[i], p)
      BY <2>2, <2>4
    <3>2. (\A j \in owners(p) : j = i) /\ ~ Reported(p)
      BY <2>1, <2>2, <3>1, OneOwner
    <3>3. owners(p) = {i}
      BY <3>1, <3>2
    <3>4. Cardinality(owners(p)) = 1
      BY <3>3, FS_Singleton
    <3> QED BY <2>4, <3>2, <3>4
  <2> QED BY <2>3, <2>4
<1> QED BY <1>1, Zenon DEF NothingLost, Passed

(* What is placed later changes nothing about what was scanned before.     *)
LEMMA StaysAccounted ==
  ASSUME LInv, UNCHANGED source_,
         \/ tokens_' = tokens_
         \/ \E e : e.from = current_ /\ tokens_' = Append(tokens_, e),
         \/ sink' = sink \/ \E e : sink' = Append(sink, e),
         NEW p \in 1 .. current_ - 1, Owned(p) \/ Passed(p)
  PROVE  Owned(p)' \/ Passed(p)'
<1>0. current_ \in Nat /\ p \in Nat /\ p < current_
  BY SourceIsOK DEF SourceOK
<1>1. \A i \in DOMAIN tokens_ : i \in DOMAIN tokens_' /\ tokens_'[i] = tokens_[i]
  BY AppendKeeps DEF LInv
<1>2. \A i \in DOMAIN sink : i \in DOMAIN sink' /\ sink'[i] = sink[i]
  BY AppendKeeps DEF LInv
<1>3. ASSUME NEW i \in DOMAIN tokens_', NEW q \in 1 .. p, Owns(tokens_'[i], q)
      PROVE  i \in DOMAIN tokens_ /\ tokens_'[i] = tokens_[i]
  <2>1. CASE tokens_' = tokens_
    BY <2>1
  <2>2. CASE \E e : e.from = current_ /\ tokens_' = Append(tokens_, e)
    <3>1. PICK e : e.from = current_ /\ tokens_' = Append(tokens_, e)
      BY <2>2
    <3>2. tokens_'[i] = e \/ (i \in DOMAIN tokens_ /\ tokens_'[i] = tokens_[i])
      BY <3>1, AppendPlaced DEF LInv
    <3>3. tokens_'[i] # e
      BY <1>0, <1>3, <3>1 DEF Owns
    <3> QED BY <3>2, <3>3
  <2> QED BY <2>1, <2>2
<1>4. CASE Owned(p)
  BY <1>1, <1>4 DEF Owned, Owns
<1>5. CASE source_[p] \in {" ", "\r", "\t", "\n"}
  BY <1>5, Zenon DEF Passed
<1>6. CASE Reported(p)
  <2>1. Reported(p)'
    BY <1>2, <1>6 DEF Reported
  <2> QED BY <2>1 DEF Passed
<1>7. CASE CommentedOut(p)
  <2>1. PICK q \in 1 .. p :
          /\ Follows(<<"/", "/">>, q)
          /\ \A j \in q .. p : source_[j] # "\n"
          /\ \A i \in DOMAIN tokens_ : ~ Owns(tokens_[i], q)
    BY <1>7 DEF CommentedOut, Owns
  <2>2. Follows(<<"/", "/">>, q)'
    BY <2>1 DEF Follows, CharAt, IsAtEnd
  <2>3. \A i \in DOMAIN tokens_' : ~ Owns(tokens_'[i], q)
    BY <1>3, <2>1
  <2>4. CommentedOut(p)'
    BY <2>1, <2>2, <2>3 DEF CommentedOut, Owns
  <2> QED BY <2>4 DEF Passed
<1> QED BY <1>4, <1>5, <1>6, <1>7 DEF Passed

(* What is scanned in one step is accounted for by that step.              *)
LEMMA NewlyAccounted ==
  ASSUME NInv, ScanToken, NEW p \in current_ .. current_' - 1
  PROVE  Owned(p)' \/ Passed(p)'
<1>1. Moves /\ Places /\ LInv /\ Apart /\ IsSeq(tokens_) /\ IsSeq(sink)
  BY Progress DEF NInv, LInv
<1>a. UNCHANGED source_ /\ Ahead(current_') /\ SourceOK
  BY <1>1, SourceIsOK DEF Moves
<1>b. current_ \in Nat \ {0} /\ Len(source_) \in Nat
  BY <1>a DEF SourceOK
<1>c. current_' \in Nat
  BY <1>a, <1>b DEF Ahead
<1>2. p \in Nat /\ current_ <= p /\ p < current_'
  BY <1>b, <1>c, InRange
<1>3. CASE PlacesToken
  <2>1. PICK e : e.from = current_ /\ e.to = current_' /\ tokens_' = Append(tokens_, e)
    BY <1>3 DEF PlacesToken, Token
  <2>2. PICK i \in DOMAIN tokens_' : tokens_'[i] = e
    BY <1>1, <2>1, AppendPlaces
  <2>3. Owns(tokens_'[i], p)
    BY <1>2, <1>b, <1>c, <2>1, <2>2 DEF Owns
  <2> QED BY <2>3 DEF Owned, Owns
<1>4. CASE PlacesReport
  <2>1. PICK code : /\ sink' = Append(sink, Report(code, current_, loc_))
                    /\ code # "unterminated_string" => current_' = current_ + 1
    BY <1>4 DEF PlacesReport
  <2>2. PICK i \in DOMAIN sink' : sink'[i] = Report(code, current_, loc_)
    BY <1>1, <2>1, AppendPlaces
  <2>3. sink'[i].from = current_ /\ sink'[i].code = code
    BY <2>2 DEF Report
  <2>4. p = current_ \/ (code = "unterminated_string" /\ current_ < p)
    BY <1>2, <1>b, <1>c, <2>1
  <2>5. Reported(p)'
    BY <2>3, <2>4 DEF Reported
  <2> QED BY <2>5 DEF Passed
<1>5. CASE PlacesNothing
  <2>1. CASE current_' = current_ + 1 /\ source_[current_] \in {" ", "\r", "\t", "\n"}
    <3>1. current_' = current_ + 1
      BY <2>1, Zenon
    <3>2. p = current_
      BY <1>2, <1>b, <3>1
    <3>3. source_'[p] \in {" ", "\r", "\t", "\n"}
      BY <1>a, <2>1, <3>2, Zenon
    <3> QED BY <3>3, Zenon DEF Passed
  <2>2. CASE /\ Follows(<<"/", "/">>, current_)
             /\ \A j \in current_ .. current_' - 1 : source_[j] # "\n"
    <3>1. PICK q : q = current_
      OBVIOUS
    <3>2. q \in 1 .. p /\ \A j \in q .. p : j \in current_ .. current_' - 1
      <4>1. q \in 1 .. p
        BY <1>2, <1>b, <3>1
      <4>2. \A j \in q .. p : j \in Nat /\ current_ <= j /\ j <= p
        BY <1>2, <1>b, <3>1
      <4>3. \A j \in q .. p : j < current_'
        BY <1>2, <1>c, <4>2
      <4> QED BY <1>b, <1>c, <4>1, <4>2, <4>3, IntoRange
    <3>3. \A j \in q .. p : source_'[j] # "\n"
      BY <1>2, <1>a, <2>2, <3>2
    <3>4. Follows(<<"/", "/">>, q)'
      BY <1>a, <2>2, <3>1 DEF Follows, CharAt, IsAtEnd
    <3>5. ASSUME NEW i \in DOMAIN tokens_' PROVE ~ Owns(tokens_'[i], q)
      <4>1. i \in DOMAIN tokens_ /\ tokens_' = tokens_
        BY <1>5 DEF PlacesNothing
      <4>2. tokens_[i].to <= current_ /\ tokens_[i].to \in Nat
        BY <1>1, <4>1 DEF LInv, TypeOK
      <4> QED BY <1>2, <1>b, <3>1, <4>1, <4>2 DEF Owns
    <3>6. CommentedOut(p)'
      BY <3>2, <3>3, <3>4, <3>5 DEF CommentedOut, Owns
    <3> QED BY <3>6 DEF Passed
  <2> QED BY <1>5, <2>1, <2>2 DEF PlacesNothing
<1> QED BY <1>1, <1>3, <1>4, <1>5 DEF Places

LEMMA AppendOrdered ==
  ASSUME NEW q, IsSeq(q), \A i, j \in DOMAIN q : i < j => q[i].to <= q[j].from,
         NEW e, \A i \in DOMAIN q : q[i].to <= e.from
  PROVE  \A i, j \in DOMAIN Append(q, e) :
           i < j => Append(q, e)[i].to <= Append(q, e)[j].from
<1> DEFINE r == Append(q, e)
<1>1. PICK S : q \in Seq(S)
  BY DEF IsSeq
<1>2. q \in Seq(S \cup {e}) /\ e \in S \cup {e}
  BY <1>1
<1>3. /\ r \in Seq(S \cup {e}) /\ Len(r) = Len(q) + 1
      /\ \A i \in 1 .. Len(q) : r[i] = q[i]
      /\ r[Len(q) + 1] = e
  BY <1>2, AppendProperties
<1> HIDE DEF r
<1>4. DOMAIN q = 1 .. Len(q) /\ DOMAIN r = 1 .. Len(q) + 1 /\ Len(q) \in Nat
  BY <1>1, <1>3
<1>5. ASSUME NEW i \in DOMAIN r, NEW j \in DOMAIN r, i < j PROVE r[i].to <= r[j].from
  <2>1. i \in 1 .. Len(q)
    BY <1>4, <1>5
  <2>2. CASE j = Len(q) + 1
    BY <1>3, <1>4, <2>1, <2>2
  <2>3. CASE j # Len(q) + 1
    BY <1>3, <1>4, <1>5, <2>1, <2>3
  <2> QED BY <2>2, <2>3
<1> QED BY <1>5 DEF r

LEMMA ApartStep == ASSUME NInv, ScanToken \/ Finish PROVE Apart'
<1>1. /\ LInv /\ Apart /\ IsSeq(tokens_) /\ IsSeq(sink) /\ UNCHANGED source_ /\ ~ done
      /\ current_ \in Nat /\ Len(source_) \in Nat
      /\ ScanToken => Places /\ current_ <= Len(source_)
  BY Progress, SourceIsOK DEF NInv, LInv, Moves, Ahead, SourceOK, Finish
<1>2. /\ \A i \in DOMAIN tokens_ :
           /\ tokens_[i].from \in Nat /\ tokens_[i].to \in Nat
           /\ tokens_[i].to <= current_
      /\ \A k \in DOMAIN sink : sink[k].from \in Nat /\ sink[k].from < current_
  BY <1>1 DEF NInv, LInv, TypeOK, PInv, Behind, IsPlaced
<1>3. /\ \A i, j \in DOMAIN tokens_ : i < j => tokens_[i].to <= tokens_[j].from
      /\ \A i \in DOMAIN tokens_, k \in DOMAIN sink : ~ Owns(tokens_[i], sink[k].from)
  BY <1>1 DEF Apart
<1>4. CASE ScanToken
  <2>1. \A k \in DOMAIN sink : sink[k].code # "unterminated_string"
    BY <1>1, <1>4 DEF Apart, IsAtEnd
  <2>2. CASE PlacesToken
    <3>1. PICK e : e.from = current_ /\ tokens_' = Append(tokens_, e) /\ sink' = sink
      BY <2>2 DEF PlacesToken, Token
    <3>2. \A i, j \in DOMAIN tokens_' : i < j => tokens_'[i].to <= tokens_'[j].from
      BY <1>1, <1>2, <1>3, <3>1, AppendOrdered
    <3>3. ASSUME NEW i \in DOMAIN tokens_', NEW k \in DOMAIN sink
          PROVE  ~ Owns(tokens_'[i], sink[k].from)
      <4>1. CASE tokens_'[i] = e
        BY <1>1, <1>2, <3>1, <4>1 DEF Owns
      <4>2. CASE i \in DOMAIN tokens_ /\ tokens_'[i] = tokens_[i]
        BY <1>3, <4>2
      <4> QED BY <1>1, <3>1, <4>1, <4>2, AppendPlaced
    <3> QED BY <2>1, <3>1, <3>2, <3>3 DEF Apart
  <2>3. CASE PlacesReport
    <3>1. PICK code : /\ sink' = Append(sink, Report(code, current_, loc_))
                      /\ tokens_' = tokens_
                      /\ code = "unterminated_string" => IsAtEnd(current_')
      BY <2>3 DEF PlacesReport
    <3> DEFINE e == Report(code, current_, loc_)
    <3>2. e.from = current_ /\ e.code = code
      BY DEF Report
    <3>3. sink' = Append(sink, e)
      BY <3>1
    <3> HIDE DEF e
    <3>4. \A k \in DOMAIN sink' :
            sink'[k] = e \/ (k \in DOMAIN sink /\ sink'[k] = sink[k])
      BY <1>1, <3>3, AppendPlaced
    <3>5. ASSUME NEW i \in DOMAIN tokens_, NEW k \in DOMAIN sink'
          PROVE  /\ ~ Owns(tokens_[i], sink'[k].from)
                 /\ sink'[k].code = "unterminated_string" =>
                      tokens_[i].to <= sink'[k].from
      <4>1. CASE sink'[k] = e
        BY <1>1, <1>2, <3>2, <4>1 DEF Owns
      <4>2. CASE k \in DOMAIN sink /\ sink'[k] = sink[k]
        BY <1>3, <2>1, <4>2
      <4> QED BY <3>4, <4>1, <4>2
    <3>6. \A k \in DOMAIN sink' :
            sink'[k].code = "unterminated_string" => IsAtEnd(current_')
      BY <2>1, <3>1, <3>2, <3>4
    <3>7. IsAtEnd(current_)' = IsAtEnd(current_')
      BY <1>1 DEF IsAtEnd
    <3> QED BY <1>3, <3>1, <3>5, <3>6, <3>7 DEF Apart
  <2>4. CASE PlacesNothing
    BY <1>3, <2>1, <2>4 DEF PlacesNothing, Apart
  <2> QED BY <1>1, <1>4, <2>2, <2>3, <2>4 DEF Places
<1>5. CASE Finish
  <2>1. PICK e : /\ e.from = current_ /\ e.to = current_
                 /\ tokens_' = Append(tokens_, e) /\ UNCHANGED <<sink, current_>>
    BY <1>5 DEF Finish, Token
  <2>2. \A i, j \in DOMAIN tokens_' : i < j => tokens_'[i].to <= tokens_'[j].from
    BY <1>1, <1>2, <1>3, <2>1, AppendOrdered
  <2>3. ASSUME NEW i \in DOMAIN tokens_', NEW k \in DOMAIN sink
        PROVE  /\ ~ Owns(tokens_'[i], sink[k].from)
               /\ sink[k].code = "unterminated_string" =>
                    \/ tokens_'[i].to <= sink[k].from
                    \/ tokens_'[i].from = tokens_'[i].to
    <3>1. CASE tokens_'[i] = e
      BY <1>1, <1>2, <2>1, <3>1 DEF Owns
    <3>2. CASE i \in DOMAIN tokens_ /\ tokens_'[i] = tokens_[i]
      BY <1>1, <3>2 DEF Apart
    <3> QED BY <1>1, <2>1, <3>1, <3>2, AppendPlaced
  <2>4. IsAtEnd(current_)' = IsAtEnd(current_)
    BY <1>1, <2>1 DEF IsAtEnd
  <2>5. \A k \in DOMAIN sink : sink[k].code = "unterminated_string" => IsAtEnd(current_)
    BY <1>1 DEF Apart
  <2> QED BY <2>1, <2>2, <2>3, <2>4, <2>5 DEF Apart
<1> QED BY <1>4, <1>5

LEMMA NInvStep == NInv /\ [Next]_vars => NInv'
<1> SUFFICES ASSUME NInv, [Next]_vars PROVE NInv'
  OBVIOUS
<1>1. LInv' /\ PInv'
  BY LInvStep, PInvStep DEF NInv
<1>2. CASE ScanToken \/ Finish
  <2>1. Apart'
    BY <1>2, ApartStep
  <2>2. ASSUME NEW p \in 1 .. current_' - 1 PROVE Owned(p)' \/ Passed(p)'
    <3>1. /\ UNCHANGED source_ /\ LInv
          /\ \/ tokens_' = tokens_
             \/ \E e : e.from = current_ /\ tokens_' = Append(tokens_, e)
          /\ sink' = sink \/ \E e : sink' = Append(sink, e)
      <4>1. CASE ScanToken
        <5>1. UNCHANGED source_ /\ Places /\ LInv
          BY <4>1, Progress DEF NInv, Moves
        <5> QED BY <5>1 DEF Places, PlacesToken, PlacesReport, PlacesNothing, Token
      <4>2. CASE Finish
        BY <4>2 DEF Finish, NInv, Token
      <4> QED BY <1>2, <4>1, <4>2
    <3>2. current_ \in Nat /\ current_' \in Nat
      <4>1. source_ \in Seq(STRING)
        BY <3>1, LexerAssumption DEF LInv, TypeOK
      <4>2. current_ \in 1 .. Len(source_) + 1 /\ current_' \in 1 .. Len(source_) + 1
        BY <1>1, <3>1 DEF LInv, TypeOK
      <4> QED BY <4>1, <4>2
    <3>a. p \in Nat \ {0} /\ p < current_'
      <4>1. 1 \in Nat
        OBVIOUS
      <4>2. p \in Nat /\ 1 <= p /\ p < current_'
        BY <3>2, <4>1, InRange
      <4> QED BY <4>2
    <3>3. CASE p < current_
      <4>1. p \in 1 .. current_ - 1
        BY <3>2, <3>a, <3>3
      <4>2. Owned(p) \/ Passed(p)
        BY <4>1 DEF NInv
      <4> QED BY <3>1, <4>1, <4>2, StaysAccounted
    <3>4. CASE ~ (p < current_)
      <4>1. p \in current_ .. current_' - 1
        <5>1. p \in Nat /\ current_ <= p /\ p < current_'
          BY <3>2, <3>a, <3>4
        <5> QED BY <3>2, <5>1, IntoRange
      <4>2. ScanToken
        BY <1>2, <3>a, <3>4 DEF Finish
      <4> QED BY <4>1, <4>2, NewlyAccounted
    <3> QED BY <3>3, <3>4
  <2> QED BY <1>1, <2>1, <2>2 DEF NInv
<1>3. CASE UNCHANGED vars
  <2>1. UNCHANGED <<source_, current_, loc_, tokens_, sink, done>>
    BY <1>3 DEF vars
  <2>2. Apart'
    BY <2>1 DEF NInv, Apart, IsAtEnd
  <2>3. \A p : Owned(p) => Owned(p)'
    BY <2>1 DEF Owned
  <2>4. \A p : Passed(p) => Passed(p)'
    BY <2>1, Zenon DEF Passed, CommentedOut, Reported, Follows, CharAt, IsAtEnd
  <2> QED BY <1>1, <2>1, <2>2, <2>3, <2>4 DEF NInv
<1> QED BY <1>2, <1>3 DEF Next, ScanToken

(* On every source, each character that was scanned is in exactly one      *)
(* token, is white space, is in a comment, or has a report (lexer.cpp:85,  *)
(* 91, 109, 145).                                                          *)
THEOREM LexerLosesNothing == Spec => []NothingLost
<1>1. Init => NInv
  <2> SUFFICES ASSUME Init PROVE NInv
    OBVIOUS
  <2>1. tokens_ = <<>> /\ sink = <<>> /\ current_ = 1 /\ 1 .. current_ - 1 = {}
    BY DEF Init
  <2>2. Apart /\ PInv
    BY <2>1 DEF Apart, PInv, IsPlaced
  <2> QED BY <2>1, <2>2, LInvInit DEF NInv
<1>2. NInv /\ [Next]_vars => NInv'
  BY NInvStep
<1>3. NInv => NothingLost
  BY NothingLostFollows
<1> QED BY <1>1, <1>2, <1>3, PTL DEF Spec

---------------------------------------------------------------------------
(* Every token is the longest lexeme where it starts.  A text can be a     *)
(* lexeme of one kind only, which its first character tells (TypeByFirst); *)
(* then each kind of scanner is compared with what it should read.         *)

(* The operators by their characters.                                      *)

Two(c, d) ==
  \/ d = "=" /\ c \in {"=", "!", "<", ">", "+", "-", "*", "/", "%", "&", "|", "^", "~"}
  \/ d = c /\ c \in {"<", ">", "&", "|", "+", "-"}
Three(c, d, e) == c \in {"<", ">"} /\ d = c /\ e = "="

OperatorText(s) ==
  \/ Len(s) = 1 /\ s[1] \in Punctuation
  \/ Len(s) = 2 /\ Two(s[1], s[2])
  \/ Len(s) = 3 /\ Three(s[1], s[2], s[3])

LEMMA OperatorsByText ==
  ASSUME NEW s \in Seq(STRING)
  PROVE  s \in OperatorLexemes <=> OperatorText(s)
<1> DEFINE P == Punctuation
<1> HIDE DEF P
<1>1. \A c, d : <<c, d>> \in OperatorLexemes <=> Two(c, d)
  BY DEF OperatorLexemes, Two, P
<1>2. \A c, d, e : <<c, d, e>> \in OperatorLexemes <=> Three(c, d, e)
  BY DEF OperatorLexemes, Three, P
<1>3. \A c : <<c>> \in OperatorLexemes <=> c \in P
  BY DEF OperatorLexemes, P
<1>4. s \in OperatorLexemes => Len(s) \in 1 .. 3
  BY DEF OperatorLexemes, P
<1>5. /\ Len(s) = 1 => s = <<s[1]>>
      /\ Len(s) = 2 => s = <<s[1], s[2]>>
      /\ Len(s) = 3 => s = <<s[1], s[2], s[3]>>
  OBVIOUS
<1> QED BY <1>1, <1>2, <1>3, <1>4, <1>5 DEF OperatorText, P


WordStart == Letters \cup {"_"}

(* The type of a text by its first character: one kind of lexeme only can  *)
(* start with it.                                                          *)
LEMMA FirstCharacters ==
  ASSUME NEW s \in Seq(STRING), Len(s) >= 1
  PROVE  /\ s \in Keywords => s[1] \in Letters
         /\ s \in OperatorLexemes => s[1] \in Punctuation
         /\ IsWord(s) => s[1] \in WordStart
         /\ IsNumber(s) => s[1] \in Digits
         /\ IsString(s) => s[1] = "\""
<1>1. 1 \in DOMAIN s /\ Len(s) \in Nat
  OBVIOUS
<1>2. s \in Keywords => s[1] \in Letters
  <2>1. Keywords \subseteq Seq(Letters)
    BY LexerAssumption
  <2> QED BY <1>1, <2>1
<1>3. s \in OperatorLexemes => s[1] \in Punctuation
  <2> DEFINE P == Punctuation
  <2>1. {"=", "!", "<", ">", "+", "-", "*", "/", "%", "&", "|", "^", "~"} \subseteq P
    BY Zenon DEF Punctuation
  <2> HIDE DEF P
  <2>2. OperatorText(s) => s[1] \in P
    BY <2>1 DEF OperatorText, Two, Three, P
  <2> QED BY <2>2, OperatorsByText DEF P
<1>4. IsWord(s) => s[1] \in WordStart
  BY DEF IsWord, WordStart
<1>5. IsNumber(s) => s[1] \in Digits
  BY <1>1 DEF IsNumber
<1>6. IsString(s) => s[1] = "\""
  <2>1. IsString(s) => 1 \in {i \in DOMAIN s : Quoting(s, i)}
    BY Zenon DEF IsString
  <2> QED BY <2>1, Zenon DEF Quoting
<1> QED BY <1>2, <1>3, <1>4, <1>5, <1>6

LEMMA ClassesApart ==
  ASSUME NEW c
  PROVE  /\ c \in Digits => c \notin WordStart \cup Punctuation \cup {"\""}
         /\ c \in WordStart => c \notin Punctuation \cup {"\""}
         /\ c \in Punctuation => c # "\""
<1>1. c \in Punctuation => c # "\"" /\ c # "_"
  BY Zenon DEF Punctuation
<1>2. "_" # "\""
  BY Zenon
<1> QED BY <1>1, <1>2, ClassesAssumption, Zenon DEF WordStart

LEMMA TypeByFirst ==
  ASSUME NEW s \in Seq(STRING), Len(s) >= 1
  PROVE  /\ s[1] \in Digits => Type(s) = IF IsNumber(s) THEN "NUMBER" ELSE "none"
         /\ s[1] \in WordStart =>
              Type(s) = IF s \in Keywords THEN "keyword"
                        ELSE IF IsWord(s) THEN "IDENTIFIER" ELSE "none"
         /\ s[1] \in Punctuation =>
              Type(s) = IF s \in OperatorLexemes THEN "operator" ELSE "none"
         /\ s[1] = "\"" => Type(s) = IF IsString(s) THEN "STRING" ELSE "none"
<1>1. CASE s[1] \in Digits
  <2>1. s \notin Keywords /\ s \notin OperatorLexemes /\ ~ IsWord(s) /\ ~ IsString(s)
    BY <1>1, FirstCharacters, ClassesApart, Zenon DEF WordStart
  <2>2. s[1] \notin WordStart /\ s[1] \notin Punctuation /\ s[1] # "\""
    BY <1>1, ClassesApart, Zenon
  <2> QED BY <2>1, <2>2, Zenon DEF Type, WordStart
<1>2. CASE s[1] \in WordStart
  <2>1. s \notin OperatorLexemes /\ ~ IsNumber(s) /\ ~ IsString(s)
    BY <1>2, FirstCharacters, ClassesApart, Zenon DEF WordStart
  <2>2. s[1] \notin Digits /\ s[1] \notin Punctuation /\ s[1] # "\""
    BY <1>2, ClassesApart, Zenon
  <2> QED BY <2>1, <2>2, Zenon DEF Type, WordStart
<1>3. CASE s[1] \in Punctuation
  <2>1. s \notin Keywords /\ ~ IsWord(s) /\ ~ IsNumber(s) /\ ~ IsString(s)
    BY <1>3, FirstCharacters, ClassesApart, Zenon DEF WordStart
  <2>2. s[1] \notin Digits /\ s[1] \notin WordStart /\ s[1] # "\""
    BY <1>3, ClassesApart, Zenon
  <2> QED BY <2>1, <2>2, Zenon DEF Type, WordStart
<1>4. CASE s[1] = "\""
  <2>1. s \notin Keywords /\ s \notin OperatorLexemes /\ ~ IsWord(s) /\ ~ IsNumber(s)
    BY <1>4, FirstCharacters, ClassesApart, Zenon DEF WordStart
  <2>2. s[1] \notin Digits /\ s[1] \notin WordStart /\ s[1] \notin Punctuation
    BY <1>4, ClassesApart, Zenon
  <2> QED BY <2>1, <2>2, Zenon DEF Type, WordStart
<1> QED BY <1>1, <1>2, <1>3, <1>4, Zenon

(* The lexeme that starts at from and ends before to is the longest one    *)
(* there, and of this type.                                                *)
LongestAt(from, to, type) ==
  /\ Type(SubSeq(source_, from, to - 1)) = type
  /\ \A more \in to + 1 .. Len(source_) + 1 :
       Type(SubSeq(source_, from, more - 1)) = "none"

LEMMA TextOf ==
  ASSUME SourceOK, NEW from \in 1 .. Len(source_), NEW to \in from + 1 .. Len(source_) + 1
  PROVE  LET s == SubSeq(source_, from, to - 1)
         IN  /\ s \in Seq(STRING) /\ Len(s) = to - from /\ Len(s) >= 1
             /\ \A k \in 1 .. to - from : s[k] = source_[from + k - 1]
             /\ s[1] = source_[from]
<1>1. source_ \in Seq(STRING) /\ Len(source_) \in Nat
  BY DEF SourceOK
<1>2. from \in Nat \ {0} /\ to \in Nat /\ from < to /\ to <= Len(source_) + 1
  BY <1>1
<1> DEFINE s == SubSeq(source_, from, to - 1)
<1>3. s \in Seq(STRING) /\ Len(s) = to - from
  BY <1>1, <1>2, SubSeqProperties
<1>4. \A k \in 1 .. to - from : s[k] = source_[from + k - 1]
  BY <1>1, <1>2, SubSeqProperties
<1> HIDE DEF s
<1>5. Len(s) >= 1 /\ 1 \in 1 .. to - from /\ from + 1 - 1 = from
  BY <1>2, <1>3
<1> QED BY <1>3, <1>4, <1>5 DEF s

LEMMA PastAll ==
  ASSUME SourceOK, NEW i \in Nat \ {0}, NEW S, NEW j \in Nat, i <= j, j < Past(i, S)
  PROVE  j <= Len(source_) /\ source_[j] \in S
<1> DEFINE T == {k \in i .. Len(source_) : source_[k] \notin S} \cup {Len(source_) + 1}
<1>1. Len(source_) \in Nat
  BY DEF SourceOK
<1>2. T \in SUBSET Nat /\ T # {} /\ Len(source_) + 1 \in T
  BY <1>1
<1>3. j \in i .. Len(source_) /\ source_[j] \notin S => j \in T
  OBVIOUS
<1>4. Past(i, S) = Min(T)
  BY DEF Past
<1> HIDE DEF T
<1>5. Min(T) \in Nat /\ \A y \in T : Min(T) <= y
  BY <1>2, MinOfNat
<1>6. j <= Len(source_)
  BY <1>1, <1>2, <1>4, <1>5
<1>7. j \notin T
  BY <1>4, <1>5
<1> QED BY <1>1, <1>3, <1>6, <1>7

LEMMA WordLongest ==
  ASSUME SourceOK, current_ <= Len(source_), source_[current_] \in WordStart
  PROVE  LET to == WordEnd(current_)
         IN  LongestAt(current_, to,
                       IF SubSeq(source_, current_, to - 1) \in Keywords
                       THEN "keyword" ELSE "IDENTIFIER")
<1> DEFINE to == WordEnd(current_)
           s == SubSeq(source_, current_, to - 1)
<1>1. Len(source_) \in Nat /\ current_ \in Nat \ {0} /\ current_ \in 1 .. Len(source_)
  BY DEF SourceOK
<1>2. source_[current_] \in WordChars
  BY Zenon DEF WordChars, WordStart
<1>3. Ahead(to)
  BY <1>2, PastAhead DEF WordEnd
<1>4. /\ \A j \in Nat : current_ <= j /\ j < to => source_[j] \in WordChars
      /\ to \in current_ .. Len(source_) => source_[to] \notin WordChars
  BY <1>1, PastAll, PastStops DEF WordEnd
<1> HIDE DEF to
<1>5. to \in current_ + 1 .. Len(source_) + 1 /\ to \in Nat
  BY <1>1, <1>3 DEF Ahead
<1>6. Type(s) = IF s \in Keywords THEN "keyword" ELSE "IDENTIFIER"
  <2>1. /\ s \in Seq(STRING) /\ Len(s) = to - current_ /\ Len(s) >= 1
        /\ \A k \in 1 .. to - current_ : s[k] = source_[current_ + k - 1]
        /\ s[1] = source_[current_]
    BY <1>1, <1>5, TextOf
  <2> HIDE DEF s
  <2>2. ASSUME NEW k \in DOMAIN s PROVE s[k] \in WordChars
    <3>1. k \in 1 .. to - current_
      BY <2>1
    <3>2. current_ + k - 1 \in Nat /\ current_ <= current_ + k - 1 /\ current_ + k - 1 < to
      BY <1>1, <1>5, <3>1
    <3> QED BY <1>4, <2>1, <3>1, <3>2
  <2>3. IsWord(s)
    <3>1. s[1] \in WordStart
      BY <2>1
    <3> QED BY <2>2, <3>1, Zenon DEF IsWord, WordStart
  <2> QED BY <2>1, <2>3, TypeByFirst
<1>7. ASSUME NEW more \in to + 1 .. Len(source_) + 1
      PROVE  Type(SubSeq(source_, current_, more - 1)) = "none"
  <2> DEFINE t == SubSeq(source_, current_, more - 1)
             k == to - current_ + 1
  <2>1. more \in current_ + 1 .. Len(source_) + 1 /\ to \in current_ .. Len(source_)
    BY <1>1, <1>5
  <2>2. k \in 1 .. more - current_ /\ current_ + k - 1 = to
    BY <1>1, <1>5
  <2>3. /\ t \in Seq(STRING) /\ Len(t) = more - current_ /\ Len(t) >= 1
        /\ \A l \in 1 .. more - current_ : t[l] = source_[current_ + l - 1]
        /\ t[1] = source_[current_]
    BY <1>1, <2>1, TextOf
  <2> HIDE DEF t, k
  <2>4. k \in DOMAIN t /\ t[k] \notin WordChars
    BY <1>4, <2>1, <2>2, <2>3
  <2>5. ~ IsWord(t)
    BY <2>4 DEF IsWord
  <2>6. t \notin Keywords
    <3>1. t \in Keywords => t[k] \in Letters
      <4>1. Keywords \subseteq Seq(Letters)
        BY LexerAssumption
      <4> QED BY <2>4, <4>1
    <3> QED BY <2>4, <3>1, Zenon DEF WordChars
  <2>7. Type(t) = "none"
    BY <2>3, <2>5, <2>6, TypeByFirst
  <2> QED BY <2>7 DEF t
<1> QED BY <1>6, <1>7 DEF LongestAt, to

(* What a number is made of, by positions of the source.                   *)
LEMMA NumberText ==
  ASSUME SourceOK, NEW from \in 1 .. Len(source_), NEW to \in from + 1 .. Len(source_) + 1
  PROVE  IsNumber(SubSeq(source_, from, to - 1)) <=>
           \E dot \in from + 1 .. to :
             /\ \A j \in from .. to - 1 : j # dot => source_[j] \in Digits
             /\ dot < to => source_[dot] = "." /\ dot < to - 1
<1> DEFINE s == SubSeq(source_, from, to - 1)
<1>1. /\ s \in Seq(STRING) /\ Len(s) = to - from
      /\ \A k \in 1 .. to - from : s[k] = source_[from + k - 1]
  BY TextOf
<1>2. from \in Nat /\ to \in Nat /\ from < to
  BY DEF SourceOK
<1> HIDE DEF s
<1>3. DOMAIN s = 1 .. to - from
  BY <1>1, <1>2
<1>4. ASSUME IsNumber(s)
      PROVE  \E dot \in from + 1 .. to :
               /\ \A j \in from .. to - 1 : j # dot => source_[j] \in Digits
               /\ dot < to => source_[dot] = "." /\ dot < to - 1
  <2>1. PICK d \in 2 .. to - from + 1 :
          /\ \A k \in 1 .. to - from : k # d => s[k] \in Digits
          /\ d <= to - from => s[d] = "." /\ d < to - from
    BY <1>1, <1>3, <1>4 DEF IsNumber
  <2> DEFINE dot == from + d - 1
  <2>2. dot \in from + 1 .. to
    BY <1>2, <2>1
  <2>3. ASSUME NEW j \in from .. to - 1, j # dot PROVE source_[j] \in Digits
    <3>1. j - from + 1 \in 1 .. to - from /\ j - from + 1 # d /\ from + (j - from + 1) - 1 = j
      BY <1>2, <2>1, <2>3
    <3> QED BY <1>1, <2>1, <3>1
  <2>4. dot < to => source_[dot] = "." /\ dot < to - 1
    <3>1. dot < to => d \in 1 .. to - from /\ d <= to - from
      BY <1>2, <2>1
    <3>2. d < to - from => dot < to - 1
      BY <1>2, <2>1
    <3> HIDE DEF dot
    <3>3. d \in 1 .. to - from => s[d] = source_[dot]
      BY <1>1 DEF dot
    <3> QED BY <2>1, <3>1, <3>2, <3>3
  <2> HIDE DEF dot
  <2> QED BY <2>2, <2>3, <2>4
<1>5. ASSUME NEW dot \in from + 1 .. to,
             \A j \in from .. to - 1 : j # dot => source_[j] \in Digits,
             dot < to => source_[dot] = "." /\ dot < to - 1
      PROVE  IsNumber(s)
  <2> DEFINE d == dot - from + 1
  <2>1. d \in 2 .. to - from + 1 /\ from + d - 1 = dot
    BY <1>2
  <2>2. ASSUME NEW k \in 1 .. to - from, k # d PROVE s[k] \in Digits
    <3>1. from + k - 1 \in from .. to - 1 /\ from + k - 1 # dot
      BY <1>2, <2>2
    <3> QED BY <1>1, <1>5, <3>1
  <2>3. d <= to - from => s[d] = "." /\ d < to - from
    <3>1. d <= to - from => dot < to /\ d \in 1 .. to - from
      BY <1>2, <2>1
    <3>2. dot < to - 1 => d < to - from
      BY <1>2
    <3> HIDE DEF d
    <3>3. d \in 1 .. to - from => s[d] = source_[dot]
      BY <1>1, <2>1
    <3> QED BY <1>5, <3>1, <3>2, <3>3
  <2> HIDE DEF d
  <2> QED BY <1>1, <1>3, <2>1, <2>2, <2>3 DEF IsNumber
<1> QED BY <1>4, <1>5 DEF s

LEMMA NumberLongest ==
  ASSUME SourceOK, current_ <= Len(source_), source_[current_] \in Digits
  PROVE  LongestAt(current_, NumberEnd(current_), "NUMBER")
<1> DEFINE i == current_
           w == DigitsEnd(i)
           f == DigitsEnd(w + 1)
           to == NumberEnd(i)
           Fraction == CharAt(w) = "." /\ CharAt(w + 1) \in Digits
<1>1. Len(source_) \in Nat /\ i \in Nat \ {0} /\ i \in 1 .. Len(source_)
  BY DEF SourceOK
<1>2. "." \notin Digits /\ "end" \notin Digits /\ "end" # "."
  BY ClassesAssumption, Zenon DEF Punctuation
<1>3. /\ w \in i + 1 .. Len(source_) + 1
      /\ \A j \in Nat : i <= j /\ j < w => source_[j] \in Digits
      /\ w <= Len(source_) => source_[w] \notin Digits
  <2>1. Ahead(w)
    BY PastAhead DEF DigitsEnd
  <2>2. /\ \A j \in Nat : i <= j /\ j < w => source_[j] \in Digits
        /\ w \in i .. Len(source_) => source_[w] \notin Digits
    BY <1>1, PastAll, PastStops DEF DigitsEnd
  <2> HIDE DEF w
  <2>3. w \in i + 1 .. Len(source_) + 1
    BY <2>1 DEF Ahead
  <2> QED BY <1>1, <2>2, <2>3
<1>4. w + 1 \in Nat \ {0} /\ w \in Nat \ {0}
  BY <1>1, <1>3
<1>5. Fraction <=> w + 1 <= Len(source_) /\ source_[w] = "." /\ source_[w + 1] \in Digits
  <2> HIDE DEF w
  <2> QED BY <1>1, <1>2, <1>4 DEF CharAt, IsAtEnd
<1>6. ASSUME Fraction
      PROVE  /\ f \in w + 2 .. Len(source_) + 1
             /\ \A j \in Nat : w + 1 <= j /\ j < f => source_[j] \in Digits
             /\ f <= Len(source_) => source_[f] \notin Digits
  <2>1. w + 1 <= Len(source_) /\ source_[w + 1] \in Digits
    BY <1>5, <1>6
  <2>2. /\ f \in Nat /\ f <= Len(source_) + 1
        /\ f >= w + 1 \/ f = Len(source_) + 1
        /\ f \in w + 1 .. Len(source_) => source_[f] \notin Digits
        /\ \A j \in Nat : w + 1 <= j /\ j < f => source_[j] \in Digits
    <3> HIDE DEF w
    <3> QED BY <1>4, PastAll, PastStops DEF DigitsEnd
  <2> HIDE DEF w, f
  <2>3. f # w + 1
    BY <1>1, <1>4, <2>1, <2>2
  <2> QED BY <1>1, <1>4, <2>1, <2>2, <2>3
<1>7. to = IF Fraction THEN f ELSE w
  BY DEF NumberEnd
<1> HIDE DEF w, f, to, Fraction, i
<1>8. to \in i + 1 .. Len(source_) + 1 /\ to \in Nat /\ w <= to
  <2>1. CASE Fraction
    BY <1>1, <1>3, <1>4, <1>6, <1>7, <2>1
  <2>2. CASE ~ Fraction
    BY <1>1, <1>3, <1>4, <1>7, <2>2
  <2> QED BY <2>1, <2>2
<1>9. Type(SubSeq(source_, i, to - 1)) = "NUMBER"
  <2> DEFINE s == SubSeq(source_, i, to - 1)
  <2>1. IsNumber(s)
    <3>1. /\ w \in i + 1 .. to
          /\ \A j \in i .. to - 1 : j # w => source_[j] \in Digits
          /\ w < to => source_[w] = "." /\ w < to - 1
      <4>1. CASE Fraction
        <5>1. to = f /\ source_[w] = "." /\ f \in Nat /\ w + 2 <= f
          BY <1>1, <1>4, <1>5, <1>6, <1>7, <4>1
        <5>2. ASSUME NEW j \in i .. to - 1, j # w PROVE source_[j] \in Digits
          <6>1. j \in Nat /\ i <= j /\ j < f /\ (j < w \/ w + 1 <= j)
            BY <1>1, <1>4, <5>1, <5>2
          <6> QED BY <1>3, <1>6, <4>1, <6>1
        <5>3. w \in i + 1 .. to /\ w < to - 1
          BY <1>1, <1>3, <1>4, <5>1
        <5> QED BY <5>1, <5>2, <5>3
      <4>2. CASE ~ Fraction
        <5>1. to = w
          BY <1>7, <4>2
        <5>2. ASSUME NEW j \in i .. w - 1 PROVE source_[j] \in Digits
          <6>1. j \in Nat /\ i <= j /\ j < w
            BY <1>1, <1>4
          <6> QED BY <1>3, <6>1
        <5>3. w \in i + 1 .. w /\ ~ (w < w)
          BY <1>1, <1>3, <1>4
        <5> QED BY <5>1, <5>2, <5>3
      <4> QED BY <4>1, <4>2
    <3>2. IsNumber(s) <=>
            \E dot \in i + 1 .. to :
              /\ \A j \in i .. to - 1 : j # dot => source_[j] \in Digits
              /\ dot < to => source_[dot] = "." /\ dot < to - 1
      BY <1>1, <1>8, NumberText
    <3> HIDE DEF s
    <3> QED BY <3>1, <3>2
  <2>2. s \in Seq(STRING) /\ Len(s) >= 1 /\ s[1] = source_[i]
    BY <1>1, <1>8, TextOf
  <2> HIDE DEF s
  <2>3. Type(s) = "NUMBER"
    BY <2>1, <2>2, TypeByFirst DEF i
  <2> QED BY <2>3 DEF s
<1>10. ASSUME NEW more \in to + 1 .. Len(source_) + 1
       PROVE  Type(SubSeq(source_, i, more - 1)) = "none"
  <2> DEFINE t == SubSeq(source_, i, more - 1)
  <2>1. more \in i + 1 .. Len(source_) + 1 /\ more \in Nat /\ to < more /\ to <= Len(source_)
    BY <1>1, <1>8
  <2>2. t \in Seq(STRING) /\ Len(t) >= 1 /\ t[1] = source_[i]
    BY <1>1, <2>1, TextOf
  <2>3. ~ IsNumber(t)
    <3>1. SUFFICES ASSUME NEW dot \in i + 1 .. more,
                          \A j \in i .. more - 1 : j # dot => source_[j] \in Digits,
                          dot < more => source_[dot] = "." /\ dot < more - 1
                   PROVE  FALSE
      BY <1>1, <2>1, NumberText
    <3>2. w \in i .. more - 1 /\ w <= Len(source_)
      BY <1>1, <1>3, <1>4, <1>8, <2>1
    <3>3. dot = w
      BY <1>3, <3>1, <3>2
    <3>4. CASE Fraction
      <4>1. to = f /\ f \in i .. more - 1 /\ f # w /\ f <= Len(source_)
        BY <1>1, <1>4, <1>6, <1>7, <1>8, <2>1, <3>4
      <4> QED BY <1>6, <3>1, <3>3, <3>4, <4>1
    <3>5. CASE ~ Fraction
      <4>1. w < more /\ source_[w] = "." /\ w < more - 1
        BY <1>1, <1>4, <2>1, <3>1, <3>2, <3>3
      <4>2. w + 1 \in i .. more - 1 /\ w + 1 # w /\ w + 1 <= Len(source_)
        BY <1>1, <1>3, <1>4, <2>1, <4>1
      <4>3. source_[w + 1] \in Digits
        BY <3>1, <3>3, <4>2
      <4> QED BY <1>5, <3>5, <4>1, <4>2, <4>3
    <3> QED BY <3>4, <3>5
  <2> HIDE DEF t
  <2>4. Type(t) = "none"
    BY <2>2, <2>3, TypeByFirst DEF i
  <2> QED BY <2>4 DEF t
<1> QED BY <1>9, <1>10 DEF LongestAt, to, i

LEMMA FirstOf ==
  ASSUME NEW S \in SUBSET Nat, NEW k \in S, \A j \in S : k <= j
  PROVE  Min(S) = k
<1> DEFINE m == Min(S)
<1>1. m \in S /\ \A y \in S : m <= y
  BY MinOfNat
<1> HIDE DEF m
<1>2. m <= k /\ k <= m /\ m \in Nat /\ k \in Nat
  BY <1>1
<1>3. m = k
  BY <1>2
<1> QED BY <1>3 DEF m

(* A comment opens at i.                                                   *)
Opens(i) == Follows(<<"/", "/">>, i)

LEMMA OperatorEndIs ==
  ASSUME SourceOK, NEW i \in 1 .. Len(source_), ~ Opens(i)
  PROVE  LET c == source_[i]
             d == CharAt(i + 1)
             e == CharAt(i + 2)
         IN  OperatorEnd(i) = IF Three(c, d, e) THEN i + 3
                              ELSE IF Two(c, d) THEN i + 2 ELSE i + 1
<1> DEFINE c == source_[i]
           d == CharAt(i + 1)
           e == CharAt(i + 2)
           tries == Tries(c)
           taken == {k \in DOMAIN tries : Follows(tries[k], i + 1)}
<1>1. i \in Nat /\ i + 1 - 1 = i /\ i + 1 + 1 - 1 = i + 1 /\ i + 1 + 2 - 1 = i + 2 /\ i + 2 - 1 = i + 1
  BY DEF SourceOK
<1>2. /\ Follows(<<"=">>, i + 1) <=> d = "="
      /\ Follows(<<c>>, i + 1) <=> d = c
      /\ Follows(<<c, "=">>, i + 1) <=> d = c /\ e = "="
  <2> HIDE DEF c
  <2> QED BY <1>1 DEF Follows
<1>3. ~ (c = "/" /\ d = "/")
  <2>1. CharAt(i) = c
    BY DEF CharAt, IsAtEnd, SourceOK
  <2> QED BY <1>1, <2>1 DEF Follows, Opens
<1>4. OperatorEnd(i) = IF taken = {} THEN i + 1 ELSE i + 1 + Len(tries[Min(taken)])
  BY DEF OperatorEnd
<1> DEFINE Ends == OperatorEnd(i) = IF Three(c, d, e) THEN i + 3
                                    ELSE IF Two(c, d) THEN i + 2 ELSE i + 1
<1> SUFFICES Ends
  OBVIOUS
<1> HIDE DEF c, d, e
<1>5. CASE c \in {"<", ">"}
  <2>1. tries = << <<"=">>, <<c, "=">>, <<c>> >>
    BY <1>5 DEF Tries
  <2>2. DOMAIN tries = 1 .. 3 /\ tries[1] = <<"=">> /\ tries[2] = <<c, "=">> /\ tries[3] = <<c>>
    BY <2>1
  <2>3. c # "="
    BY <1>5
  <2>4. taken = {k \in 1 .. 3 : \/ k = 1 /\ d = "="
                                \/ k = 2 /\ d = c /\ e = "="
                                \/ k = 3 /\ d = c}
    BY <1>2, <2>2
  <2> HIDE DEF tries, taken
  <2>a. Len(tries[1]) = 1 /\ Len(tries[2]) = 2 /\ Len(tries[3]) = 1
    BY <2>2
  <2>5. CASE d = "="
    <3>1. taken # {} /\ Min(taken) = 1
      <4>1. taken \in SUBSET Nat /\ 1 \in taken /\ \A j \in taken : 1 <= j
        BY <2>4, <2>5
      <4> QED BY <4>1, FirstOf
    <3>2. OperatorEnd(i) = i + 1 + 1
      BY <1>4, <2>a, <3>1
    <3>3. Two(c, d) /\ ~ Three(c, d, e)
      BY <1>5, <2>3, <2>5 DEF Two, Three
    <3> QED BY <1>1, <3>2, <3>3
  <2>6. CASE d = c /\ e = "="
    <3>1. Min(taken) = 2 /\ taken # {}
      <4>1. taken \in SUBSET Nat /\ 2 \in taken /\ \A j \in taken : 2 <= j
        BY <2>3, <2>4, <2>6
      <4> QED BY <4>1, FirstOf
    <3>2. OperatorEnd(i) = i + 1 + 2
      BY <1>4, <2>a, <3>1
    <3>3. Three(c, d, e)
      BY <1>5, <2>6 DEF Three
    <3> QED BY <1>1, <3>2, <3>3
  <2>7. CASE d = c /\ e # "="
    <3>1. Min(taken) = 3 /\ taken # {}
      <4>1. taken \in SUBSET Nat /\ 3 \in taken /\ \A j \in taken : 3 <= j
        BY <2>3, <2>4, <2>7
      <4> QED BY <4>1, FirstOf
    <3>2. OperatorEnd(i) = i + 1 + 1
      BY <1>4, <2>a, <3>1
    <3>3. Two(c, d) /\ ~ Three(c, d, e)
      BY <1>5, <2>7 DEF Two, Three
    <3> QED BY <1>1, <3>2, <3>3
  <2>8. CASE d # "=" /\ d # c
    <3>1. OperatorEnd(i) = i + 1
      BY <1>4, <2>4, <2>8
    <3>2. ~ Two(c, d) /\ ~ Three(c, d, e)
      BY <2>8 DEF Two, Three
    <3> QED BY <3>1, <3>2
  <2> QED BY <2>5, <2>6, <2>7, <2>8
<1>6. CASE c \in {"+", "-", "&", "|"}
  <2>1. /\ DOMAIN tries = 1 .. 2 /\ c # "="
        /\ \/ tries[1] = <<"=">> /\ tries[2] = <<c>>
           \/ tries[1] = <<c>> /\ tries[2] = <<"=">>
    <3>1. tries = << <<"=">>, <<c>> >> \/ tries = << <<c>>, <<"=">> >>
      BY <1>6 DEF Tries
    <3> QED BY <1>6, <3>1
  <2>2. taken = {} <=> d # "=" /\ d # c
    BY <1>2, <2>1
  <2>a. Len(tries[1]) = 1 /\ Len(tries[2]) = 1
    <3> DEFINE one == <<"=">>
               twice == <<c>>
    <3>1. Len(one) = 1 /\ Len(twice) = 1
      OBVIOUS
    <3>2. \/ tries[1] = one /\ tries[2] = twice
          \/ tries[1] = twice /\ tries[2] = one
      BY <2>1
    <3> HIDE DEF one, twice, tries
    <3> QED BY <3>1, <3>2
  <2>3. taken # {} => Min(taken) \in 1 .. 2
    <3>1. taken \in SUBSET (1 .. 2)
      BY <2>1
    <3> HIDE DEF tries, taken
    <3>2. taken # {} => Min(taken) \in taken
      BY <3>1, MinOfNat
    <3> QED BY <3>1, <3>2
  <2> HIDE DEF tries, taken
  <2>4. taken # {} => OperatorEnd(i) = i + 1 + 1
    <3>1. taken # {} => Min(taken) = 1 \/ Min(taken) = 2
      BY <2>3
    <3> QED BY <1>4, <2>a, <3>1
  <2>5. taken = {} => OperatorEnd(i) = i + 1
    BY <1>4
  <2>6. ~ Three(c, d, e) /\ (Two(c, d) <=> taken # {})
    BY <1>6, <2>2 DEF Two, Three
  <2> QED BY <1>1, <2>4, <2>5, <2>6
<1>7. CASE c \in {"*", "%", "^", "~", "!", "=", "/"}
  <2>1. DOMAIN tries = 1 .. 1 /\ tries[1] = <<"=">> /\ Len(tries[1]) = 1
    <3>1. tries = << <<"=">> >>
      BY <1>7 DEF Tries
    <3> QED BY <3>1
  <2>2. taken = {k \in 1 .. 1 : d = "="}
    BY <1>2, <2>1
  <2> HIDE DEF tries, taken
  <2>3. ~ Three(c, d, e) /\ (Two(c, d) <=> d = "=")
    BY <1>3, <1>7 DEF Two, Three
  <2>4. d = "=" => OperatorEnd(i) = i + 1 + 1
    <3>1. SUFFICES ASSUME d = "=" PROVE OperatorEnd(i) = i + 1 + 1
      OBVIOUS
    <3>2. taken # {} /\ Min(taken) = 1
      <4>1. taken \in SUBSET Nat /\ 1 \in taken /\ \A j \in taken : 1 <= j
        BY <2>2, <3>1
      <4> QED BY <4>1, FirstOf
    <3> QED BY <1>4, <2>1, <3>2
  <2>5. d # "=" => OperatorEnd(i) = i + 1
    BY <1>4, <2>2
  <2> QED BY <1>1, <2>3, <2>4, <2>5
<1>8. CASE c \notin {"<", ">", "+", "-", "&", "|", "*", "%", "^", "~", "!", "=", "/"}
  <2>1. tries = <<>>
    BY <1>8 DEF Tries
  <2>2. OperatorEnd(i) = i + 1
    <3>1. taken = {}
      BY <2>1
    <3> HIDE DEF taken
    <3> QED BY <1>4, <3>1
  <2>3. ~ Two(c, d) /\ ~ Three(c, d, e)
    BY <1>8 DEF Two, Three
  <2> QED BY <2>2, <2>3
<1> QED BY <1>5, <1>6, <1>7, <1>8

LEMMA OperatorLongest ==
  ASSUME SourceOK, current_ <= Len(source_), source_[current_] \in Punctuation,
         ~ Opens(current_)
  PROVE  LongestAt(current_, OperatorEnd(current_), "operator")
<1> DEFINE i == current_
           to == OperatorEnd(i)
           c == source_[i]
           d == CharAt(i + 1)
           e == CharAt(i + 2)
<1>1. Len(source_) \in Nat /\ i \in Nat \ {0} /\ i \in 1 .. Len(source_)
  BY DEF SourceOK
<1>2. to \in i + 1 .. Len(source_) + 1
  BY OperatorAhead DEF Ahead
<1>3. to = IF Three(c, d, e) THEN i + 3 ELSE IF Two(c, d) THEN i + 2 ELSE i + 1
  BY <1>1, OperatorEndIs
<1>4. Three(c, d, e) => Two(c, d)
  BY DEF Two, Three
<1>5. ASSUME NEW end \in i + 1 .. Len(source_) + 1
      PROVE  LET s == SubSeq(source_, i, end - 1)
             IN  /\ s \in Seq(STRING) /\ Len(s) = end - i /\ Len(s) >= 1
                 /\ s[1] = c
                 /\ end >= i + 2 => s[2] = d
                 /\ end >= i + 3 => s[3] = e
  <2> DEFINE s == SubSeq(source_, i, end - 1)
  <2>1. /\ s \in Seq(STRING) /\ Len(s) = end - i /\ Len(s) >= 1
        /\ \A k \in 1 .. end - i : s[k] = source_[i + k - 1]
        /\ s[1] = source_[i]
    BY <1>1, TextOf
  <2> HIDE DEF s, i
  <2>2. end >= i + 2 => 2 \in 1 .. end - i /\ i + 2 - 1 = i + 1 /\ ~ (i + 1 > Len(source_))
    BY <1>1
  <2>3. end >= i + 3 => 3 \in 1 .. end - i /\ i + 3 - 1 = i + 2 /\ ~ (i + 2 > Len(source_))
    BY <1>1
  <2> QED BY <2>1, <2>2, <2>3 DEF CharAt, IsAtEnd, s
<1>6. c \in Punctuation
  OBVIOUS
<1> HIDE DEF i, to, c, d, e
<1>a. Two(c, d) => to = i + 2 \/ to = i + 3
  BY <1>3
<1>b. Three(c, d, e) => to = i + 3
  BY <1>3
<1>7. Type(SubSeq(source_, i, to - 1)) = "operator"
  <2> DEFINE s == SubSeq(source_, i, to - 1)
  <2>1. /\ s \in Seq(STRING) /\ Len(s) = to - i /\ Len(s) >= 1
        /\ s[1] = c
        /\ to >= i + 2 => s[2] = d
        /\ to >= i + 3 => s[3] = e
    BY <1>2, <1>5
  <2> HIDE DEF s
  <2>2. OperatorText(s)
    <3>1. CASE Three(c, d, e)
      <4>1. Len(s) = 3 /\ s[2] = d /\ s[3] = e
        BY <1>1, <1>3, <2>1, <3>1
      <4> QED BY <2>1, <3>1, <4>1 DEF OperatorText
    <3>2. CASE ~ Three(c, d, e) /\ Two(c, d)
      <4>1. Len(s) = 2 /\ s[2] = d
        BY <1>1, <1>3, <2>1, <3>2
      <4> QED BY <2>1, <3>2, <4>1 DEF OperatorText
    <3>3. CASE ~ Three(c, d, e) /\ ~ Two(c, d)
      <4>1. Len(s) = 1
        BY <1>1, <1>3, <2>1, <3>3
      <4> QED BY <1>6, <2>1, <4>1 DEF OperatorText
    <3> QED BY <3>1, <3>2, <3>3
  <2>3. Type(s) = "operator"
    BY <1>6, <2>1, <2>2, OperatorsByText, TypeByFirst
  <2> QED BY <2>3 DEF s
<1>8. ASSUME NEW more \in to + 1 .. Len(source_) + 1
      PROVE  Type(SubSeq(source_, i, more - 1)) = "none"
  <2> DEFINE t == SubSeq(source_, i, more - 1)
  <2>1. to \in Nat /\ i \in Nat /\ more \in i + 1 .. Len(source_) + 1 /\ more \in Nat /\ to < more
    BY <1>1, <1>2
  <2>2. /\ t \in Seq(STRING) /\ Len(t) = more - i /\ Len(t) >= 1
        /\ t[1] = c
        /\ more >= i + 2 => t[2] = d
        /\ more >= i + 3 => t[3] = e
    BY <1>5, <2>1
  <2> HIDE DEF t
  <2>3. ~ OperatorText(t)
    <3>1. Len(t) # 1
      BY <1>1, <1>2, <2>1, <2>2
    <3>a. /\ Len(t) = 2 => more = i + 2 /\ more >= i + 2
          /\ Len(t) = 3 => more = i + 3 /\ more >= i + 2 /\ more >= i + 3
      <4> DEFINE n == Len(t)
      <4>1. n = more - i
        BY <2>2
      <4> HIDE DEF n
      <4> QED BY <2>1, <4>1 DEF n
    <3>2. ASSUME Len(t) = 2 PROVE ~ Two(t[1], t[2])
      <4>1. more = i + 2 /\ more >= i + 2
        BY <3>a, <3>2
      <4>2. ~ (to = i + 2 \/ to = i + 3)
        BY <2>1, <4>1
      <4> QED BY <1>a, <2>2, <4>1, <4>2
    <3>3. ASSUME Len(t) = 3 PROVE ~ Three(t[1], t[2], t[3])
      <4>1. more = i + 3 /\ more >= i + 2 /\ more >= i + 3
        BY <3>a, <3>3
      <4>2. to # i + 3
        BY <2>1, <4>1
      <4> QED BY <1>b, <2>2, <4>1, <4>2
    <3> QED BY <3>1, <3>2, <3>3 DEF OperatorText
  <2>4. Type(t) = "none"
    BY <1>6, <2>2, <2>3, OperatorsByText, TypeByFirst
  <2> QED BY <2>4 DEF t
<1> QED BY <1>7, <1>8 DEF LongestAt, to, i

(* The backslashes right before j, back to i at most.                      *)
Slash(m) == source_[m] = "\\"
Run(i, j) == {k \in 0 .. j - i : \A m \in j - k .. j - 1 : Slash(m)}
Odd(i, j) == Max(Run(i, j)) % 2 = 1

(* A non-empty set of natural numbers that is bounded has a largest one.   *)
LEMMA MaxIs ==
  ASSUME NEW S \in SUBSET Nat, NEW m \in S, \A y \in S : y <= m
  PROVE  Max(S) = m
<1> DEFINE x == Max(S)
<1>1. x \in S /\ \A y \in S : x >= y
  BY DEF Max
<1> HIDE DEF x
<1>2. x \in Nat /\ m \in Nat /\ x >= m /\ x <= m
  BY <1>1
<1>3. x = m
  BY <1>2
<1> QED BY <1>3 DEF x

LEMMA RunHasMax ==
  ASSUME NEW i \in Nat, NEW j \in Nat, i <= j
  PROVE  /\ Run(i, j) \in SUBSET Nat /\ Max(Run(i, j)) \in Run(i, j)
         /\ \A y \in Run(i, j) : y <= Max(Run(i, j))
<1> DEFINE n == j - i
           R == Run(i, j)
           T == {k \in 1 .. n + 1 : k - 1 \in R}
<1>1. n \in Nat /\ R \in SUBSET (0 .. n) /\ 0 \in R
  BY DEF Run
<1> HIDE DEF n, R
<1>2. T \in SUBSET (1 .. n + 1) /\ T # {}
  <2>1. 1 \in T
    BY <1>1
  <2> QED BY <2>1
<1>3. PICK t \in T : \A y \in T : t >= y
  <2> HIDE DEF T
  <2>1. n + 1 \in Nat
    BY <1>1
  <2> QED BY <1>2, <2>1, MaxUpTo
<1>4. t - 1 \in R /\ t \in 1 .. n + 1
  OBVIOUS
<1>5. ASSUME NEW y \in R PROVE y <= t - 1
  <2>1. y \in 0 .. n /\ y + 1 \in 1 .. n + 1 /\ y + 1 - 1 = y
    BY <1>1, <1>5
  <2>2. y + 1 \in T
    BY <2>1
  <2>3. t >= y + 1
    BY <1>3, <2>2
  <2> QED BY <1>1, <1>4, <2>1, <2>3
<1>6. R \in SUBSET Nat
  BY <1>1
<1>7. Max(R) = t - 1
  BY <1>4, <1>5, <1>6, MaxIs
<1> QED BY <1>4, <1>5, <1>6, <1>7 DEF R

LEMMA RunStep ==
  ASSUME NEW i \in Nat, NEW j \in Nat, i < j
  PROVE  /\ Slash(j - 1) => Max(Run(i, j)) = Max(Run(i, j - 1)) + 1
         /\ ~ Slash(j - 1) => Max(Run(i, j)) = 0
         /\ Max(Run(i, j)) \in Nat
<1>0. j - 1 \in Nat /\ i <= j - 1 /\ i <= j
  OBVIOUS
<1>1. Max(Run(i, j)) \in Nat
  BY <1>0, RunHasMax
<1>2. ASSUME Slash(j - 1) PROVE Max(Run(i, j)) = Max(Run(i, j - 1)) + 1
  <2> DEFINE x == Max(Run(i, j - 1))
  <2>1. /\ x \in Run(i, j - 1) /\ \A y \in Run(i, j - 1) : y <= x
        /\ x \in Nat
    BY <1>0, RunHasMax
  <2>2. Run(i, j) \in SUBSET Nat
    BY <1>0, RunHasMax
  <2> HIDE DEF x
  <2>3. x + 1 \in Run(i, j)
    <3>1. x \in 0 .. j - 1 - i /\ \A m \in j - 1 - x .. j - 1 - 1 : Slash(m)
      BY <2>1 DEF Run
    <3>2. x + 1 \in 0 .. j - i
      BY <2>1, <3>1
    <3>3. ASSUME NEW m \in j - (x + 1) .. j - 1 PROVE Slash(m)
      <4>1. CASE m = j - 1
        BY <1>2, <4>1
      <4>2. CASE m # j - 1
        <5>1. m \in j - 1 - x .. j - 1 - 1
          BY <2>1, <4>2
        <5> QED BY <3>1, <5>1
      <4> QED BY <4>1, <4>2
    <3> QED BY <3>2, <3>3 DEF Run
  <2>4. ASSUME NEW y \in Run(i, j) PROVE y <= x + 1
    <3>1. y \in 0 .. j - i /\ \A m \in j - y .. j - 1 : Slash(m)
      BY DEF Run
    <3>2. CASE y = 0
      BY <2>1, <3>2
    <3>3. CASE y # 0
      <4>1. y - 1 \in 0 .. j - 1 - i
        BY <3>1, <3>3
      <4>2. ASSUME NEW m \in j - 1 - (y - 1) .. j - 1 - 1 PROVE Slash(m)
        <5>1. m \in j - y .. j - 1
          BY <3>1
        <5> QED BY <3>1, <5>1
      <4>3. y - 1 \in Run(i, j - 1)
        BY <4>1, <4>2 DEF Run
      <4>4. y - 1 <= x
        BY <2>1, <4>3
      <4> QED BY <2>1, <3>1, <4>4
    <3> QED BY <3>2, <3>3
  <2>5. Max(Run(i, j)) = x + 1
    BY <2>2, <2>3, <2>4, MaxIs
  <2> QED BY <2>5 DEF x
<1>3. ASSUME ~ Slash(j - 1) PROVE Max(Run(i, j)) = 0
  <2>1. Run(i, j) \in SUBSET Nat
    BY <1>0, RunHasMax
  <2>2. 0 \in Run(i, j)
    BY DEF Run
  <2>3. ASSUME NEW y \in Run(i, j) PROVE y <= 0
    <3>1. y \in 0 .. j - i /\ \A m \in j - y .. j - 1 : Slash(m)
      BY DEF Run
    <3>2. y >= 1 => j - 1 \in j - y .. j - 1
      BY <3>1
    <3> QED BY <1>3, <3>1, <3>2
  <2> QED BY <2>1, <2>2, <2>3, MaxIs
<1> QED BY <1>1, <1>2, <1>3

LEMMA OddStep ==
  ASSUME NEW i \in Nat, NEW j \in Nat, i < j
  PROVE  Odd(i, j) <=> Slash(j - 1) /\ ~ Odd(i, j - 1)
<1> DEFINE x == Max(Run(i, j))
           y == Max(Run(i, j - 1))
<1>1. /\ Slash(j - 1) => x = y + 1
      /\ ~ Slash(j - 1) => x = 0
      /\ x \in Nat
  BY RunStep
<1>2. y \in Nat
  BY RunHasMax
<1> HIDE DEF x, y
<1>3. x % 2 = 1 <=> Slash(j - 1) /\ ~ (y % 2 = 1)
  BY <1>1, <1>2
<1> QED BY <1>3 DEF Odd, x, y

(* The recursive definition of Escaped: its function exists, and is true   *)
(* of the positions after an odd number of backslashes.                    *)
EscapedIn(f, i) ==
  f = [j \in Nat |-> j > i + 1 /\ source_[j - 1] = "\\" /\ ~ f[j - 1]]

LEMMA EscapedIs ==
  ASSUME NEW i \in Nat, Len(source_) \in Nat, ~ Slash(i)
  PROVE  \A j \in i + 1 .. Len(source_) : j \in Escaped(i) <=> Odd(i, j)
<1> DEFINE g == CHOOSE f : EscapedIn(f, i)
           w == [j \in Nat |-> j > i /\ Odd(i, j)]
<1>1. Escaped(i) = {j \in i + 1 .. Len(source_) : g[j]}
  BY Zenon DEF Escaped, EscapedIn
<1>2. \A f : EscapedIn(f, i) <=> f = [j \in Nat |-> j > i + 1 /\ Slash(j - 1) /\ ~ f[j - 1]]
  BY Zenon DEF EscapedIn, Slash
<1>3. EscapedIn(w, i)
  <2>1. ASSUME NEW j \in Nat PROVE w[j] = (j > i + 1 /\ Slash(j - 1) /\ ~ w[j - 1])
    <3>1. CASE j > i + 1
      <4>1. j - 1 \in Nat /\ j > i /\ j - 1 > i
        BY <3>1
      <4>2. Odd(i, j) <=> Slash(j - 1) /\ ~ Odd(i, j - 1)
        BY <4>1, OddStep
      <4> QED BY <3>1, <4>1, <4>2
    <3>2. CASE j = i + 1
      <4>1. i < j /\ j - 1 = i
        BY <3>2
      <4>2. ~ Odd(i, j)
        BY <4>1, OddStep
      <4> QED BY <3>2, <4>2
    <3>3. CASE j <= i
      BY <3>3
    <3> QED BY <3>1, <3>2, <3>3
  <2>2. w = [j \in Nat |-> w[j]]
    OBVIOUS
  <2> HIDE DEF w
  <2>3. w = [j \in Nat |-> j > i + 1 /\ Slash(j - 1) /\ ~ w[j - 1]]
    BY <2>1, <2>2
  <2> QED BY <1>2, <2>3
<1>4. EscapedIn(g, i)
  BY <1>3, Zenon
<1> HIDE DEF g
<1>5. \A j \in Nat : g[j] = (j > i + 1 /\ Slash(j - 1) /\ ~ g[j - 1])
  BY <1>2, <1>4
<1>6. \A j \in Nat : g[j] <=> w[j]
  <2> DEFINE S == {j \in Nat : ~ (g[j] <=> w[j])}
  <2>1. SUFFICES ASSUME S # {} PROVE FALSE
    OBVIOUS
  <2> DEFINE m == Min(S)
  <2>2. m \in S /\ \A y \in S : m <= y
    <3>1. S \in SUBSET Nat
      OBVIOUS
    <3> HIDE DEF S
    <3> QED BY <2>1, <3>1, MinOfNat
  <2> HIDE DEF m
  <2>3. m \in Nat /\ ~ (g[m] <=> w[m])
    BY <2>2
  <2>4. \A j \in Nat : w[j] = (j > i + 1 /\ Slash(j - 1) /\ ~ w[j - 1])
    <3>1. w = [j \in Nat |-> j > i + 1 /\ Slash(j - 1) /\ ~ w[j - 1]]
      <4> HIDE DEF w
      <4> QED BY <1>2, <1>3
    <3> HIDE DEF w
    <3> QED BY <3>1
  <2> HIDE DEF w
  <2>5. m > i + 1
    BY <1>5, <2>3, <2>4
  <2>6. m - 1 \in Nat /\ m - 1 \notin S
    <3>1. m - 1 \in Nat /\ ~ (m <= m - 1)
      BY <2>3, <2>5
    <3> HIDE DEF S
    <3> QED BY <2>2, <3>1
  <2>7. g[m - 1] <=> w[m - 1]
    BY <2>6
  <2> QED BY <1>5, <2>3, <2>4, <2>7
<1>7. ASSUME NEW j \in i + 1 .. Len(source_) PROVE g[j] <=> Odd(i, j)
  <2>1. j \in Nat /\ j > i
    OBVIOUS
  <2>2. w[j] <=> Odd(i, j)
    BY <2>1
  <2> HIDE DEF w
  <2> QED BY <1>6, <2>1, <2>2
<1> QED BY <1>1, <1>7

(* The quotes that count, in the source and in a text of it.               *)
Quote(m) == source_[m] = "\""

LEMMA QuotingIs ==
  ASSUME SourceOK, NEW from \in 1 .. Len(source_), NEW to \in from + 1 .. Len(source_) + 1,
         Quote(from),
         NEW j \in from .. to - 1
  PROVE  Quoting(SubSeq(source_, from, to - 1), j - from + 1)
           <=> Quote(j) /\ (j = from \/ j \notin Escaped(from))
<1> DEFINE s == SubSeq(source_, from, to - 1)
           p == j - from + 1
           run == {k \in 0 .. p - 1 : \A m \in p - k .. p - 1 : s[m] = "\\"}
<1>1. /\ \A k \in 1 .. to - from : s[k] = source_[from + k - 1]
      /\ from \in Nat \ {0} /\ to \in Nat /\ j \in Nat /\ Len(source_) \in Nat
  BY TextOf DEF SourceOK
<1> HIDE DEF s
<1>2. p \in 1 .. to - from /\ from + p - 1 = j /\ s[p] = source_[j]
  BY <1>1
<1>3. \A m \in 1 .. p - 1 : s[m] = "\\" <=> Slash(from + m - 1)
  <2>1. ASSUME NEW m \in 1 .. p - 1 PROVE s[m] = source_[from + m - 1]
    <3>1. m \in 1 .. to - from
      BY <1>1, <1>2
    <3> QED BY <1>1, <3>1
  <2> QED BY <2>1, Zenon DEF Slash
<1>4. run = Run(from, j)
  <2> DEFINE back(m) == s[m] = "\\"
  <2>1. run = {k \in 0 .. p - 1 : \A m \in p - k .. p - 1 : back(m)}
    BY Zenon
  <2>2. \A m \in 1 .. p - 1 : back(m) <=> Slash(from + m - 1)
    BY <1>3, Zenon
  <2> HIDE DEF back
  <2>3. ASSUME NEW k \in 0 .. p - 1
        PROVE  (\A m \in p - k .. p - 1 : back(m)) <=> (\A m \in j - k .. j - 1 : Slash(m))
    <3>1. ASSUME \A m \in p - k .. p - 1 : back(m), NEW n \in j - k .. j - 1 PROVE Slash(n)
      <4>1. n - from + 1 \in p - k .. p - 1 /\ n - from + 1 \in 1 .. p - 1
            /\ from + (n - from + 1) - 1 = n
        BY <1>1
      <4> QED BY <2>2, <3>1, <4>1
    <3>2. ASSUME \A m \in j - k .. j - 1 : Slash(m), NEW n \in p - k .. p - 1 PROVE back(n)
      <4>1. n \in 1 .. p - 1 /\ from + n - 1 \in j - k .. j - 1
        BY <1>1
      <4> QED BY <2>2, <3>2, <4>1
    <3> QED BY <3>1, <3>2
  <2>4. p - 1 = j - from
    BY <1>1
  <2> HIDE DEF p, run
  <2> QED BY <2>1, <2>3, <2>4 DEF Run
<1>5. Quoting(s, p) <=> s[p] = "\"" /\ Max(run) % 2 = 0
  BY Zenon DEF Quoting
<1>6. Quoting(s, p) <=> Quote(j) /\ Max(Run(from, j)) % 2 = 0
  <2> HIDE DEF run, p
  <2> QED BY <1>2, <1>4, <1>5, Zenon DEF Quote
<1>7. Max(Run(from, j)) % 2 = 0 <=> ~ Odd(from, j)
  <2> DEFINE x == Max(Run(from, j))
  <2>1. x \in Nat
    <3>1. from \in Nat /\ j \in Nat /\ from <= j
      BY <1>1
    <3> QED BY <3>1, RunHasMax
  <2> HIDE DEF x
  <2>2. x % 2 = 0 <=> ~ (x % 2 = 1)
    BY <2>1
  <2> QED BY <2>2 DEF Odd, x
<1>8. ~ Slash(from)
  BY Zenon DEF Quote, Slash
<1>9. CASE j = from
  <2>1. Run(from, from) = {0}
    BY <1>1 DEF Run
  <2>2. Max(Run(from, j)) = 0
    <3>1. {0} \in SUBSET Nat /\ 0 \in {0} /\ \A y \in {0} : y <= 0
      OBVIOUS
    <3>2. Max({0}) = 0
      BY <3>1, MaxIs
    <3> QED BY <1>9, <2>1, <3>2
  <2> QED BY <1>6, <1>9, <2>2 DEF s
<1>10. CASE j # from
  <2>1. j \in from + 1 .. Len(source_)
    BY <1>1, <1>10
  <2>2. j \in Escaped(from) <=> Odd(from, j)
    BY <1>1, <1>8, <2>1, EscapedIs
  <2> HIDE DEF p
  <2> QED BY <1>6, <1>7, <1>10, <2>2 DEF s, p
<1> QED BY <1>9, <1>10

LEMMA StringLongest ==
  ASSUME SourceOK, current_ <= Len(source_), Quote(current_),
         ~ IsAtEnd(ClosingQuote(current_))
  PROVE  LongestAt(current_, ClosingQuote(current_) + 1, "STRING")
<1> DEFINE i == current_
           quote == ClosingQuote(i)
           Counts(j) == Quote(j) /\ j \notin Escaped(i)
           closing == {j \in i + 1 .. Len(source_) : Counts(j)}
<1>1. Len(source_) \in Nat /\ i \in Nat \ {0} /\ i \in 1 .. Len(source_)
  BY DEF SourceOK
<1>2. quote \in i + 1 .. Len(source_) /\ Counts(quote)
      /\ \A j \in i + 1 .. quote - 1 : ~ Counts(j)
  <2>1. quote = Min(closing \cup {Len(source_) + 1})
    BY Zenon DEF ClosingQuote, Quote
  <2> DEFINE S == closing \cup {Len(source_) + 1}
  <2>2. S \in SUBSET Nat /\ S # {}
    BY <1>1
  <2>3. \A j \in S :
           \/ j \in i + 1 .. Len(source_) /\ Counts(j)
           \/ j = Len(source_) + 1
    OBVIOUS
  <2>4. \A j \in i + 1 .. Len(source_) : Counts(j) => j \in S
    OBVIOUS
  <2>5. ~ (quote > Len(source_))
    BY DEF IsAtEnd
  <2> HIDE DEF S, Counts
  <2>6. quote \in S /\ \A y \in S : quote <= y
    <3>1. quote = Min(S)
      BY <2>1 DEF S, Counts
    <3> QED BY <2>2, <3>1, MinOfNat
  <2> HIDE DEF quote
  <2>7. quote \in i + 1 .. Len(source_) /\ Counts(quote)
    BY <1>1, <2>3, <2>5, <2>6
  <2>8. ASSUME NEW j \in i + 1 .. quote - 1 PROVE ~ Counts(j)
    <3>1. j \in i + 1 .. Len(source_) /\ ~ (quote <= j)
      BY <1>1, <2>7
    <3> QED BY <2>4, <2>6, <3>1
  <2> QED BY <2>7, <2>8
<1>3. ASSUME NEW to \in i + 1 .. Len(source_) + 1, NEW j \in i .. to - 1
      PROVE  Quoting(SubSeq(source_, i, to - 1), j - i + 1) <=> j = i \/ Counts(j)
  BY <1>1, QuotingIs
<1>4. Quote(i)
  OBVIOUS
<1> HIDE DEF i, quote, Counts
<1>5. Type(SubSeq(source_, i, (quote + 1) - 1)) = "STRING"
  <2> DEFINE to == quote + 1
             s == SubSeq(source_, i, to - 1)
  <2>1. to \in i + 1 .. Len(source_) + 1 /\ quote \in Nat /\ to = quote + 1
    BY <1>1, <1>2
  <2>2. s \in Seq(STRING) /\ Len(s) = to - i /\ Len(s) >= 1 /\ s[1] = source_[i]
    BY <1>1, <2>1, TextOf
  <2>3. \A j \in i .. to - 1 : Quoting(s, j - i + 1) <=> j = i \/ Counts(j)
    BY <1>3, <2>1
  <2> HIDE DEF s, to
  <2>4. Len(s) = quote - i + 1 /\ Len(s) > 1 /\ DOMAIN s = 1 .. quote - i + 1
    BY <1>1, <1>2, <2>1, <2>2
  <2>5. {p \in DOMAIN s : Quoting(s, p)} = {1, Len(s)}
    <3>1. ASSUME NEW p \in DOMAIN s, Quoting(s, p) PROVE p \in {1, Len(s)}
      <4>1. p - 1 + i \in i .. to - 1 /\ (p - 1 + i) - i + 1 = p
        BY <1>1, <1>2, <2>1, <2>4
      <4>2. p - 1 + i = i \/ Counts(p - 1 + i)
        BY <2>3, <3>1, <4>1
      <4>3. p - 1 + i = i \/ p - 1 + i = quote
        <5>1. p - 1 + i = i \/ p - 1 + i = quote \/ p - 1 + i \in i + 1 .. quote - 1
          BY <1>1, <2>1, <4>1
        <5> QED BY <1>2, <4>2, <5>1
      <4>4. p = 1 \/ p = quote - i + 1
        BY <1>1, <1>2, <2>4, <4>3
      <4> QED BY <2>4, <4>4
    <3>2. Quoting(s, 1) /\ 1 \in DOMAIN s
      <4>1. i \in i .. to - 1 /\ i - i + 1 = 1 /\ 1 \in DOMAIN s
        BY <1>1, <1>2, <2>1, <2>4
      <4> QED BY <2>3, <4>1
    <3>3. Quoting(s, Len(s)) /\ Len(s) \in DOMAIN s
      <4>1. quote \in i .. to - 1 /\ quote - i + 1 = Len(s) /\ Len(s) \in DOMAIN s
        BY <1>1, <1>2, <2>1, <2>4
      <4> QED BY <1>2, <2>3, <4>1
    <3> QED BY <3>1, <3>2, <3>3
  <2>6. IsString(s)
    BY <2>4, <2>5, Zenon DEF IsString
  <2>7. Type(s) = "STRING"
    <3>1. s[1] = "\""
      BY <1>4, <2>2, Zenon DEF Quote
    <3> QED BY <2>2, <2>6, <3>1, TypeByFirst, Zenon
  <2> QED BY <2>7, Zenon DEF s, to
<1>6. ASSUME NEW more \in (quote + 1) + 1 .. Len(source_) + 1
      PROVE  Type(SubSeq(source_, i, more - 1)) = "none"
  <2> DEFINE t == SubSeq(source_, i, more - 1)
             p == quote - i + 1
  <2>1. more \in i + 1 .. Len(source_) + 1 /\ quote \in Nat /\ more \in Nat /\ quote + 1 < more
    BY <1>1, <1>2
  <2>2. t \in Seq(STRING) /\ Len(t) = more - i /\ Len(t) >= 1 /\ t[1] = source_[i]
    BY <1>1, <2>1, TextOf
  <2>3. Quoting(t, p)
    <3>1. quote \in i .. more - 1
      BY <1>1, <1>2, <2>1
    <3> QED BY <1>2, <1>3, <2>1, <3>1
  <2> HIDE DEF t
  <2>4. p \in DOMAIN t /\ p # 1 /\ p # Len(t)
    <3> DEFINE n == Len(t)
    <3>1. n = more - i /\ DOMAIN t = 1 .. n
      BY <2>2
    <3> HIDE DEF n
    <3>2. p \in 1 .. n /\ p # 1 /\ p # n
      BY <1>1, <1>2, <2>1, <3>1
    <3> QED BY <3>1, <3>2 DEF n
  <2> HIDE DEF p
  <2>5. ~ IsString(t)
    BY <2>3, <2>4, Zenon DEF IsString
  <2>6. Type(t) = "none"
    <3>1. t[1] = "\""
      BY <1>4, <2>2, Zenon DEF Quote
    <3> QED BY <2>2, <2>5, <3>1, TypeByFirst, Zenon
  <2> QED BY <2>6 DEF t
<1> QED BY <1>5, <1>6, Zenon DEF LongestAt, i, quote

(* Each way through scan_token() that adds a token adds the longest lexeme. *)
AddsLongest ==
  \E t : /\ tokens_' = Append(tokens_, t)
         /\ LongestAt(t.from, t.to, t.type)

LEMMA AddTokenLongest ==
  ASSUME NEW type, NEW to, AddToken(type, to), LongestAt(current_, to, type)
  PROVE  AddsLongest
<1> DEFINE t == Token(type, current_, to, loc_)
<1>1. tokens_' = Append(tokens_, t)
  BY DEF AddToken
<1>2. t.from = current_ /\ t.to = to /\ t.type = type
  BY DEF Token
<1> HIDE DEF t
<1> QED BY <1>1, <1>2 DEF AddsLongest

LEMMA ScanLongest ==
  ASSUME LInv, ScanToken
  PROVE  UNCHANGED source_ /\ (UNCHANGED tokens_ \/ AddsLongest)
<1>0. SourceOK /\ UNCHANGED source_
  BY SourceIsOK, Progress DEF Moves
<1>1. CASE ScanOperator
  <2>1. /\ Scanning /\ source_[current_] \in Punctuation /\ ~ Opens(current_)
        /\ AddToken("operator", OperatorEnd(current_))
    BY <1>1, Zenon DEF ScanOperator, Opens
  <2>2. current_ <= Len(source_)
    BY <1>0, <2>1 DEF Scanning, IsAtEnd, SourceOK
  <2> QED BY <1>0, <2>1, <2>2, OperatorLongest, AddTokenLongest
<1>2. CASE ScanNumber
  <2>1. /\ Scanning /\ source_[current_] \in Digits
        /\ AddToken("NUMBER", NumberEnd(current_))
    BY <1>2, Zenon DEF ScanNumber
  <2>2. current_ <= Len(source_)
    BY <1>0, <2>1 DEF Scanning, IsAtEnd, SourceOK
  <2> QED BY <1>0, <2>1, <2>2, NumberLongest, AddTokenLongest
<1>3. CASE ScanWord
  <2> DEFINE to == WordEnd(current_)
             type == IF SubSeq(source_, current_, to - 1) \in Keywords
                     THEN "keyword" ELSE "IDENTIFIER"
  <2>1. Scanning /\ source_[current_] \in WordStart /\ AddToken(type, to)
    BY <1>3, Zenon DEF ScanWord, WordStart
  <2>2. current_ <= Len(source_)
    BY <1>0, <2>1 DEF Scanning, IsAtEnd, SourceOK
  <2>3. LongestAt(current_, to, type)
    BY <1>0, <2>1, <2>2, WordLongest
  <2> HIDE DEF to, type
  <2> QED BY <1>0, <2>1, <2>3, AddTokenLongest
<1>4. CASE ScanString
  <2> DEFINE quote == ClosingQuote(current_)
  <2>1. Scanning /\ Quote(current_)
    BY <1>4, Zenon DEF ScanString, Quote
  <2>2. current_ <= Len(source_)
    BY <1>0, <2>1 DEF Scanning, IsAtEnd, SourceOK
  <2>3. CASE IsAtEnd(quote)
    BY <1>0, <1>4, <2>3, Zenon DEF ScanString
  <2>4. CASE ~ IsAtEnd(quote)
    <3> DEFINE t == Token("STRING", current_, quote + 1, loc_)
    <3>1. tokens_' = Append(tokens_, t)
      BY <1>4, <2>4, Zenon DEF ScanString
    <3>2. LongestAt(current_, quote + 1, "STRING")
      BY <1>0, <2>1, <2>2, <2>4, StringLongest, Zenon
    <3> HIDE DEF quote
    <3>3. t.from = current_ /\ t.to = quote + 1 /\ t.type = "STRING"
      BY Zenon DEF Token
    <3> HIDE DEF t
    <3>4. AddsLongest
      BY <3>1, <3>2, <3>3, Zenon DEF AddsLongest
    <3> QED BY <1>0, <3>4
  <2> QED BY <2>3, <2>4
<1>5. CASE ScanComment \/ ScanBlank \/ ScanNewline \/ ScanUnexpected
  <2>1. UNCHANGED tokens_
    BY <1>5, Zenon DEF ScanComment, ScanBlank, ScanNewline, ScanUnexpected, Skip
  <2> QED BY <1>0, <2>1
<1> QED BY <1>1, <1>2, <1>3, <1>4, <1>5 DEF ScanToken

(* LongestLexeme, token by token.                                          *)
IsLongest(t) == t.type # "END_OF_FILE" => LongestAt(t.from, t.to, t.type)

LEMMA LongestEach == LongestLexeme <=> \A i \in DOMAIN tokens_ : IsLongest(tokens_[i])
BY Zenon DEF LongestLexeme, IsLongest, LongestAt, Text

LEMMA LongestNext ==
  ASSUME source_' = source_, \A i \in DOMAIN tokens_' : IsLongest(tokens_'[i])
  PROVE  LongestLexeme'
<1> SUFFICES ASSUME NEW i \in DOMAIN tokens_', tokens_'[i].type # "END_OF_FILE"
             PROVE  /\ Type(SubSeq(source_', tokens_'[i].from, tokens_'[i].to - 1)) = tokens_'[i].type
                    /\ \A to \in tokens_'[i].to + 1 .. Len(source_') + 1 :
                         Type(SubSeq(source_', tokens_'[i].from, to - 1)) = "none"
  BY Zenon DEF LongestLexeme, Text, Type, IsWord, IsNumber, IsString, Quoting
<1> QED BY Zenon DEF IsLongest, LongestAt

LEMMA LongestStep == LInv /\ LongestLexeme /\ [Next]_vars => LongestLexeme'
<1> SUFFICES ASSUME LInv, LongestLexeme, [Next]_vars PROVE LongestLexeme'
  OBVIOUS
<1>1. /\ UNCHANGED source_
      /\ \/ UNCHANGED tokens_
         \/ \E t : tokens_' = Append(tokens_, t) /\ IsLongest(t)
  <2>1. CASE ScanToken
    BY <2>1, ScanLongest, Zenon DEF AddsLongest, IsLongest
  <2>2. CASE Finish
    <3> DEFINE t == Token("END_OF_FILE", current_, current_, loc_)
    <3>1. tokens_' = Append(tokens_, t) /\ UNCHANGED source_
      BY <2>2, Zenon DEF Finish
    <3>2. IsLongest(t)
      BY Zenon DEF IsLongest, Token
    <3> HIDE DEF t
    <3> QED BY <3>1, <3>2
  <2>3. CASE UNCHANGED vars
    BY <2>3, Zenon DEF vars
  <2> QED BY <2>1, <2>2, <2>3 DEF Next, ScanToken
<1>2. \A i \in DOMAIN tokens_ : IsLongest(tokens_[i])
  BY LongestEach
<1>3. IsSeq(tokens_)
  BY DEF LInv
<1>4. ASSUME NEW i \in DOMAIN tokens_' PROVE IsLongest(tokens_'[i])
  <2>1. CASE UNCHANGED tokens_
    BY <1>2, <2>1
  <2>2. CASE \E t : tokens_' = Append(tokens_, t) /\ IsLongest(t)
    <3>1. PICK t : tokens_' = Append(tokens_, t) /\ IsLongest(t)
      BY <2>2
    <3>2. (i \in DOMAIN tokens_ /\ tokens_'[i] = tokens_[i]) \/ tokens_'[i] = t
      BY <1>3, <3>1, AppendPlaced
    <3> QED BY <1>2, <3>1, <3>2
  <2> QED BY <1>1, <2>1, <2>2
<1> QED BY <1>1, <1>4, LongestNext

(* On every source, every token is the longest lexeme that starts where it *)
(* starts, and its type is that of its text (lexer.cpp:52-87, 115-132).    *)
THEOREM LexerTakesLongest == Spec => []LongestLexeme
<1>1. Init => LInv /\ LongestLexeme
  <2>1. Init => DOMAIN tokens_ = {}
    BY DEF Init
  <2> QED BY <2>1, LInvInit DEF LongestLexeme
<1>2. LInv /\ LongestLexeme /\ [Next]_vars => (LInv /\ LongestLexeme)'
  BY LInvStep, LongestStep
<1> QED BY <1>1, <1>2, PTL DEF Spec
=============================================================================
