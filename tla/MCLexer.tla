------------------------------ MODULE MCLexer ------------------------------
(***************************************************************************)
(* Sources for the scanner: all short texts over an alphabet per part of   *)
(* the scanner, and shorter ones over a mixture of all.                    *)
(***************************************************************************)
EXTENDS Lexer

Texts(alphabet, n) == UNION {[1..k -> alphabet] : k \in 0..n}

Operators == {"<", ">", "=", "+", "-", "&", "|", "!", "/", "~", "("}
Words == {"i", "f", "_", "1", ".", " "}
Strings == {"\"", "\\", "\n", "i", " "}
Comments == {"/", "\n", "\"", "i"}
Mixture == {"<", "=", "/", "i", "f", "1", ".", "\"", "\\", "\n", "\t", "@", ";"}

MCSources ==
  LET texts == Texts(Operators, 3) \cup Texts(Words, 5) \cup Texts(Strings, 5)
                 \cup Texts(Comments, 5) \cup Texts(Mixture, 3)
  IN  texts
MCLetters == {"i", "f"}
MCDigits == {"1"}
MCKeywords == {<<"i", "f">>}
============================================================================
