-------------------------- MODULE MCProcess_Stream --------------------------
(***************************************************************************)
(* Process_Stream on every file of at most MaxLines lines, with the two    *)
(* regexes of Solver_C: #include "..." and #include <...>.                 *)
(***************************************************************************)
EXTENDS Process_Stream, FiniteSetsExt, SequencesExt

CONSTANT MaxLines

(* quote_a, angle_b: a whole statement; half: its beginning (#include ");  *)
(* rest_b: its end (b"); other: no part of a statement.                    *)
MCPieces == {"", "quote_a", "angle_b", "half", "rest_b", "other"}
MCInputs == UNION {[1..n -> [text : MCPieces, cont : BOOLEAN]] : n \in 0..MaxLines}
MCNames  == {"a", "b"}

(* The leftmost place of the text, its pieces joined, where regex i        *)
(* matches: a piece that holds a whole statement, or its two halves side   *)
(* by side.                                                                *)
Captured(i, t, p) ==
  CASE i = 0 /\ t[p] = "quote_a" -> "a"
    [] i = 0 /\ t[p] = "half" /\ p < Len(t) /\ t[p + 1] = "rest_b" -> "b"
    [] i = 1 /\ t[p] = "angle_b" -> "b"
    [] OTHER -> "none"

MCRegexSearch(i, text) ==
  LET t == SelectSeq(text, LAMBDA piece : piece # "")
      places == {p \in 1..Len(t) : Captured(i, t, p) # "none"}
  IN  IF places = {} THEN "none" ELSE Captured(i, t, Min(places))
=============================================================================
