------------------------------- MODULE Lexer -------------------------------
(***************************************************************************)
(* The scanner (lexer.hpp, lexer.cpp): one pass over the source, one       *)
(* action per way through scan_token().  A character is a string of length *)
(* one; positions count from 1 where the code counts from 0.               *)
(***************************************************************************)
EXTENDS Integers, Sequences, FiniteSets, FiniteSetsExt

CONSTANTS
  Sources,   \* sequences of characters
  Letters,   \* what isalpha() accepts
  Digits,    \* what isdigit() accepts
  Keywords   \* the lexemes of keywords.hpp, as sequences of letters

ASSUME LexerAssumption ==
  /\ Keywords \subseteq Seq(Letters)
  /\ \A s \in Sources : s \in Seq(STRING)

VARIABLES source_, current_, loc_, tokens_, sink, done

vars == <<source_, current_, loc_, tokens_, sink, done>>

Location(line, column) == [line |-> line, column |-> column]

(* A token's lexeme is a view of the source, [from, to).  The view is      *)
(* enough to tell which keyword or operator it is.  A report remembers     *)
(* where its lexeme began, besides the location the code gives it.         *)
Token(type, from, to, loc) == [type |-> type, from |-> from, to |-> to, loc |-> loc]
Report(code, from, loc) == [code |-> code, from |-> from, loc |-> loc]

Init ==
  /\ source_ \in Sources
  /\ current_ = 1 /\ loc_ = Location(1, 1)
  /\ tokens_ = <<>> /\ sink = <<>> /\ done = FALSE

---------------------------------------------------------------------------

IsAtEnd(i) == i > Len(source_)
CharAt(i) == IF IsAtEnd(i) THEN "end" ELSE source_[i]

(* Where a loop that advances over the characters in S stops.              *)
Past(i, S) ==
  Min({j \in i..Len(source_) : source_[j] \notin S} \cup {Len(source_) + 1})

(* peek() is '\0' at the end, which is not '\n': without is_at_end() the   *)
(* loop over a comment would run off the source.                           *)
CommentWithoutEndCheck(i) ==
  Min({j \in i..Len(source_) : source_[j] = "\n"} \cup {Len(source_) + 2})
CommentToTheEnd(i) == Len(source_) + 1
CommentEnd(i) ==
  Min({j \in i..Len(source_) : source_[j] = "\n"} \cup {Len(source_) + 1})

Punctuation ==
  {"(", ")", "{", "}", "[", "]", ",", ".", ";", "+", "-", "*", "%", "^", "~",
   "!", "=", "<", ">", "&", "|", "/"}

(* The cases of scan_token() exclude one another: in the "C" locale, which *)
(* nothing changes, isdigit() and isalpha() accept different characters,   *)
(* and neither accepts one that a case or a loop names.                    *)
ASSUME ClassesAssumption ==
  /\ Letters \cap Digits = {}
  /\ (Letters \cup Digits) \cap (Punctuation \cup {"\"", "_", "end"}) = {}

(* What match() tries after c, in order; an operator of three characters   *)
(* is tried by two nested calls.                                           *)
TriesShortestFirst(c) ==
  IF c \in {"<", ">"} THEN << <<c>>, <<c, "=">>, <<"=">> >>
  ELSE IF c \in {"+", "-", "&", "|"} THEN << <<"=">>, <<c>> >>
  ELSE IF c \in {"*", "%", "^", "~", "!", "=", "/"} THEN << <<"=">> >> ELSE <<>>
Tries(c) ==
  CASE c \in {"<", ">"} -> << <<"=">>, <<c, "=">>, <<c>> >>
    [] c \in {"+", "-"} -> << <<"=">>, <<c>> >>
    [] c \in {"&", "|"} -> << <<c>>, <<"=">> >>
    [] c \in {"*", "%", "^", "~", "!", "=", "/"} -> << <<"=">> >>
    [] OTHER -> <<>>

Follows(text, i) == \A k \in DOMAIN text : CharAt(i + k - 1) = text[k]

OperatorEnd(i) ==
  LET tries == Tries(source_[i])
      taken == {k \in DOMAIN tries : Follows(tries[k], i + 1)}
  IN  IF taken = {} THEN i + 1 ELSE i + 1 + Len(tries[Min(taken)])

DigitsEnd(i) == Past(i, Digits)
NumberEnd(i) ==
  LET whole == DigitsEnd(i)
  IN  IF CharAt(whole) = "." /\ CharAt(whole + 1) \in Digits
      THEN DigitsEnd(whole + 1)
      ELSE whole

WordChars == Letters \cup Digits \cup {"_"}
WordEnd(i) == Past(i, WordChars)

(* Inside a string opened at i: a backslash takes the next character with  *)
(* it, whatever it is.                                                     *)
Escaped(i) ==
  LET escaped[j \in Nat] ==
        j > i + 1 /\ source_[j - 1] = "\\" /\ ~ escaped[j - 1]
  IN  {j \in i + 1 .. Len(source_) : escaped[j]}
ClosingQuote(i) ==
  Min({j \in i + 1 .. Len(source_) : source_[j] = "\"" /\ j \notin Escaped(i)}
      \cup {Len(source_) + 1})

---------------------------------------------------------------------------
(* scan_token().                                                           *)

Scanning == ~ done /\ ~ IsAtEnd(current_)

Advanced(n) == [loc_ EXCEPT !.column = @ + n]

AddToken(type, to) ==
  /\ tokens_' = Append(tokens_, Token(type, current_, to, loc_))
  /\ current_' = to
  /\ loc_' = Advanced(to - current_)
  /\ UNCHANGED <<source_, sink, done>>

Skip(to) ==
  /\ current_' = to
  /\ loc_' = Advanced(to - current_)
  /\ UNCHANGED <<source_, tokens_, sink, done>>

ScanOperator ==
  /\ Scanning /\ source_[current_] \in Punctuation
  /\ ~ Follows(<<"/", "/">>, current_)
  /\ AddToken("operator", OperatorEnd(current_))

ScanComment ==
  /\ Scanning /\ Follows(<<"/", "/">>, current_)
  /\ Skip(CommentEnd(current_ + 2))

ScanBlank == Scanning /\ source_[current_] \in {" ", "\r", "\t"} /\ Skip(current_ + 1)

NewlineKeepsLine ==
  /\ Scanning /\ source_[current_] = "\n"
  /\ current_' = current_ + 1
  /\ loc_' = [loc_ EXCEPT !.column = 0]
  /\ UNCHANGED <<source_, tokens_, sink, done>>
ScanNewline ==
  /\ Scanning /\ source_[current_] = "\n"
  /\ current_' = current_ + 1
  /\ loc_' = Location(loc_.line + 1, 0)
  /\ UNCHANGED <<source_, tokens_, sink, done>>

ScanNumber ==
  /\ Scanning /\ source_[current_] \in Digits
  /\ AddToken("NUMBER", NumberEnd(current_))

ScanWord ==
  /\ Scanning /\ source_[current_] \in Letters \cup {"_"}
  /\ LET to == WordEnd(current_)
         lexeme == SubSeq(source_, current_, to - 1)
     IN  AddToken(IF lexeme \in Keywords THEN "keyword" ELSE "IDENTIFIER", to)

(* The location after the string that ends before `to`.  The loop sees a   *)
(* newline unless a backslash took it along, sets column_ to 1 and then    *)
(* advances over it.                                                       *)
AfterString(to) ==
  LET newlines == {j \in current_ + 1 .. to - 1 :
                     source_[j] = "\n" /\ j \notin Escaped(current_)}
  IN  IF newlines = {} THEN Advanced(to - current_)
      ELSE Location(loc_.line + Cardinality(newlines), 1 + (to - Max(newlines)))

ScanString ==
  /\ Scanning /\ source_[current_] = "\""
  /\ LET quote == ClosingQuote(current_)
     IN  IF IsAtEnd(quote)
         THEN /\ sink' = Append(sink, Report("unterminated_string", current_, loc_))
              /\ current_' = quote
              /\ loc_' = AfterString(quote)
              /\ UNCHANGED tokens_
         ELSE /\ tokens_' = Append(tokens_, Token("STRING", current_, quote + 1, loc_))
              /\ current_' = quote + 1
              /\ loc_' = AfterString(quote + 1)
              /\ UNCHANGED sink
  /\ UNCHANGED <<source_, done>>

Expected ==
  Punctuation \cup WordChars \cup {" ", "\r", "\t", "\n", "\""}

UnexpectedStays ==
  /\ Scanning /\ source_[current_] \notin Expected
  /\ sink' = <<Report("unexpected_character", current_, loc_)>>
  /\ UNCHANGED <<source_, current_, loc_, tokens_, done>>
ScanUnexpected ==
  /\ Scanning /\ source_[current_] \notin Expected
  /\ sink' = Append(sink, Report("unexpected_character", current_, loc_))
  /\ current_' = current_ + 1
  /\ loc_' = Advanced(1)
  /\ UNCHANGED <<source_, tokens_, done>>

(* The end of scan_tokens().                                               *)
Finish ==
  /\ ~ done /\ IsAtEnd(current_)
  /\ tokens_' = Append(tokens_, Token("END_OF_FILE", current_, current_, loc_))
  /\ done' = TRUE
  /\ UNCHANGED <<source_, current_, loc_, sink>>

Next ==
  \/ ScanOperator \/ ScanComment \/ ScanBlank \/ ScanNewline
  \/ ScanNumber \/ ScanWord \/ ScanString \/ ScanUnexpected
  \/ Finish

Spec == Init /\ [][Next]_vars /\ WF_vars(Next)

---------------------------------------------------------------------------
(* What is a lexeme, in the words of token_types.hpp:24-33.                *)

Text(t) == SubSeq(source_, t.from, t.to - 1)

OperatorLexemes ==
  {<<c>> : c \in Punctuation}
    \cup {<<"=", "=">>, <<"!", "=">>, <<"<", "=">>, <<">", "=">>,
          <<"+", "=">>, <<"-", "=">>, <<"*", "=">>, <<"/", "=">>, <<"%", "=">>,
          <<"&", "=">>, <<"|", "=">>, <<"^", "=">>, <<"~", "=">>,
          <<"<", "<">>, <<">", ">">>, <<"<", "<", "=">>, <<">", ">", "=">>,
          <<"&", "&">>, <<"|", "|">>, <<"+", "+">>, <<"-", "-">>}

IsWord(s) ==
  s[1] \in Letters \cup {"_"} /\ \A i \in DOMAIN s : s[i] \in WordChars

IsNumber(s) ==
  \E dot \in 2 .. Len(s) + 1 :
    /\ \A i \in DOMAIN s \ {dot} : s[i] \in Digits
    /\ dot <= Len(s) => s[dot] = "." /\ dot < Len(s)

(* A quote is escaped by an odd number of backslashes right before it.     *)
Quoting(s, i) ==
  /\ s[i] = "\""
  /\ LET run == {k \in 0 .. i - 1 : \A j \in i - k .. i - 1 : s[j] = "\\"}
     IN  Max(run) % 2 = 0
IsString(s) ==
  Len(s) > 1 /\ {i \in DOMAIN s : Quoting(s, i)} = {1, Len(s)}

Type(s) ==
  CASE s \in Keywords -> "keyword"
    [] s \in OperatorLexemes -> "operator"
    [] s \notin Keywords /\ IsWord(s) -> "IDENTIFIER"
    [] IsNumber(s) -> "NUMBER"
    [] IsString(s) -> "STRING"
    [] OTHER -> "none"

---------------------------------------------------------------------------

(* Positions stay inside the source or just after it: peek() and           *)
(* peek_next() never let a loop run off the string_view                    *)
(* (lexer.cpp:85, 116, 124, 135).                                          *)
Locations == [line : Nat \ {0}, column : Nat]
TypeOK ==
  /\ source_ \in Sources
  /\ current_ \in 1 .. Len(source_) + 1
  /\ loc_ \in Locations
  /\ \A i \in DOMAIN tokens_ :
       LET t == tokens_[i]
       IN  t.from \in 1 .. t.to /\ t.to <= current_ /\ t.loc \in Locations
  /\ \A i \in DOMAIN sink : sink[i].from <= current_ /\ sink[i].loc \in Locations
  /\ done \in BOOLEAN

(* Every token is the longest lexeme that starts where it starts, and its  *)
(* type is that of its text: no order of the calls of match() and of the   *)
(* loops cuts "<<=" in pieces, "iff" after a keyword, or "1.5" at the dot  *)
(* (lexer.cpp:52-87, 115-132).                                             *)
LongestLexeme ==
  \A i \in DOMAIN tokens_ :
    LET t == tokens_[i]
    IN  t.type # "END_OF_FILE" =>
          /\ Type(Text(t)) = t.type
          /\ \A to \in t.to + 1 .. Len(source_) + 1 :
               Type(SubSeq(source_, t.from, to - 1)) = "none"

(* Nothing of the source is lost without a word: each character that was   *)
(* scanned is in exactly one token, is white space, is in a comment, or    *)
(* has a report (lexer.cpp:85, 91, 109, 145).                              *)
CommentedOut(p) ==
  \E q \in 1 .. p :
    /\ Follows(<<"/", "/">>, q)
    /\ \A j \in q .. p : source_[j] # "\n"
    /\ \A i \in DOMAIN tokens_ : ~ (tokens_[i].from <= q /\ q < tokens_[i].to)
Reported(p) ==
  \E i \in DOMAIN sink :
    \/ sink[i].from = p
    \/ sink[i].code = "unterminated_string" /\ sink[i].from < p
NothingLost ==
  \A p \in 1 .. current_ - 1 :
    LET owners == {i \in DOMAIN tokens_ : tokens_[i].from <= p /\ p < tokens_[i].to}
    IN  IF owners = {}
        THEN source_[p] \in {" ", "\r", "\t", "\n"} \/ CommentedOut(p) \/ Reported(p)
        ELSE Cardinality(owners) = 1 /\ ~ Reported(p)

(* Locations order lexemes as the source does, so two lexemes are never    *)
(* reported at one place, across newlines, comments and strings of several *)
(* lines (lexer.cpp:98, 136-139).                                          *)
Before(a, b) == a.line < b.line \/ (a.line = b.line /\ a.column < b.column)
LocationsIncrease ==
  LET placed == {tokens_[i] : i \in DOMAIN tokens_} \cup {sink[i] : i \in DOMAIN sink}
  IN  \A a, b \in placed : a.from < b.from => Before(a.loc, b.loc)

(* Every source is scanned to its end, whatever it contains                *)
(* (lexer.cpp:23, "while (!is_at_end())").                                 *)
ScanEnds == <>done

(* token.hpp:23, "lines and columns are numbered from 1", the position in  *)
(* the source: the location of a token is the line and column of its first *)
(* character.                                                              *)
PositionOf(p) ==
  LET newlines == {j \in 1 .. p - 1 : source_[j] = "\n"}
  IN  Location(1 + Cardinality(newlines), p - Max(newlines \cup {0}))
LocationsAreReal ==
  \A i \in DOMAIN tokens_ : tokens_[i].loc = PositionOf(tokens_[i].from)
============================================================================
