---------------------------- MODULE Statement_Py ----------------------------
(***************************************************************************)
(* Statement_Py (src/statement_py.cpp): what an import statement of Python *)
(* is turned into.  A text is a sequence of tokens: identifiers, and the   *)
(* marks and words that the code looks for,                                *)
(*     "."   ","   " "   "*"   the quotation mark   "as"   "import".       *)
(* A statement is the text that a regex of Solver_Py captured, so it says  *)
(* nothing of the leading word import or from.  There are no tabs.         *)
(***************************************************************************)
EXTENDS Naturals, Sequences, SequencesExt

Quote == "'"

(* enum Py_Regex: the regex that captured the statement.                   *)
IMPORT      == 0
FROM_IMPORT == 1
ALL_IMPORT  == 2

contains(text, token) == \E i \in 1..Len(text) : text[i] = token

(* The n-th number of a set, in increasing order.                          *)
Nth(S, n) == CHOOSE x \in S : Cardinality({y \in S : y < x}) = n - 1

erase_all(text, token) ==
  LET kept == {i \in 1..Len(text) : text[i] # token}
  IN  [n \in 1..Cardinality(kept) |-> text[Nth(kept, n)]]

(* text.find(" import "), text.find(" as "): where the word stands between *)
(* two blanks.                                                             *)
Found(text, word) ==
  {i \in 1..(Len(text) - 2) : SubSeq(text, i, i + 2) = <<" ", word, " ">>}
get_all_before_import(text) ==
  IF Found(text, "import") = {} THEN <<>>
  ELSE SubSeq(text, 1, Min(Found(text, "import")) - 1)
get_all_after_import(text) ==
  IF Found(text, "import") = {} THEN <<>>
  ELSE SubSeq(text, Min(Found(text, "import")) + 3, Len(text))

(* dot_regex and past_dot_regex: blanks, then a greedy run of dots.        *)
FirstOther(text, from, token) ==
  Min({i \in from..(Len(text) + 1) : i = Len(text) + 1 \/ text[i] # token})
DotsBegin(text) == FirstOther(text, 1, " ")
DotsEnd(text)   == FirstOther(text, DotsBegin(text), ".")
Dots(text)      == DotsEnd(text) - DotsBegin(text)

is_relative_import(text) == Dots(text) > 0
how_many_directories_above(text) == IF Dots(text) > 0 THEN Dots(text) - 1 ELSE 0
remove_prepended_dots(text) ==
  IF Dots(text) > 0 THEN SubSeq(text, DotsEnd(text), Len(text)) ELSE text

add_relative_dot_in_front(text) == <<".">> \o text

(* The loop also handles a text with a comma behind the " as "; it is only *)
(* called with texts that have none.                                       *)
remove_as_statements(text) ==
  IF Found(text, "as") = {} THEN text
  ELSE SubSeq(text, 1, Min(Found(text, "as")) - 1)

dots_to_system_slash(text) ==
  [i \in 1..Len(text) |-> IF text[i] = "." THEN "/" ELSE text[i]]

SplitAt(text, cuts) ==
  [n \in 1..(Cardinality(cuts) - 1) |->
     SubSeq(text, Nth(cuts, n) + 1, Nth(cuts, n + 1) - 1)]
split_by_comma(text) ==
  SplitAt(text, {0, Len(text) + 1} \cup {i \in 1..Len(text) : text[i] = ","})

(* from ... import * is treated as an import of what comes before.         *)
WithoutStar(text, idx) ==
  IF idx = FROM_IMPORT /\ contains(text, "*")
  THEN [text |-> get_all_before_import(text), idx |-> IMPORT]
  ELSE [text |-> text, idx |-> idx]

-----------------------------------------------------------------------------
(* The constructor, for a statement without a comma, from its last line to *)
(* its first: what it leaves in the members ...                            *)
Members(idx, relative, above, modified) ==
  [ regex_idx          |-> idx,
    is_relative        |-> relative,
    directories_above  |-> above,
    modified_statement |-> modified,
    possible_path      |-> dots_to_system_slash(modified) ]

WithoutAsAndBlanks(text) == erase_all(remove_as_statements(text), " ")

(* ... of the joined text, the dots in front counted and removed ...       *)
OfJoined(idx, relative, text) ==
  IF relative
  THEN Members(idx, TRUE, how_many_directories_above(text),
               WithoutAsAndBlanks(remove_prepended_dots(text)))
  ELSE Members(idx, FALSE, 0, WithoutAsAndBlanks(text))

(* ... x import y joined to x.y, after it was asked whether x is relative. *)
JoinedImport(idx, text) ==
  IF idx = FROM_IMPORT
  THEN get_all_before_import(text) \o <<".">> \o get_all_after_import(text) ELSE text
OfMarked(idx, text) ==
  OfJoined(idx, is_relative_import(text), JoinedImport(idx, text))

(* The names in __all__ are quoted, and relative to the package.           *)
Marked(idx, text) ==
  IF idx = ALL_IMPORT THEN add_relative_dot_in_front(erase_all(text, Quote)) ELSE text

OfStarless(s) == OfMarked(s.idx, Marked(s.idx, s.text))
Single(text, idx) == OfStarless(WithoutStar(text, idx))

(* What the constructor does with a statement that has a comma: one child  *)
(* per part, none of which has a comma.                                    *)
contained_multiple_imports(text, idx) == contains(WithoutStar(text, idx).text, ",")

ChildText(text, idx, part) ==
  CASE idx = FROM_IMPORT ->
         erase_all(get_all_before_import(text) \o <<".">> \o part, " ")
    [] idx = ALL_IMPORT -> add_relative_dot_in_front(erase_all(part, Quote))
    [] OTHER            -> part
ChildIdx(idx) == IF idx = FROM_IMPORT THEN IMPORT ELSE idx
ChildrenOf(text, idx, parts) ==
  [i \in 1..Len(parts) |-> Single(ChildText(text, idx, parts[i]), ChildIdx(idx))]

(* Broken: the parts of from x import y, z lose the x.                     *)
child_statements_without_package(text, idx) ==
  ChildrenOf(<<>>, IMPORT,
             split_by_comma(IF idx = FROM_IMPORT THEN get_all_after_import(text) ELSE text))

child_statements(text, idx) ==
  ChildrenOf(text, idx,
             split_by_comma(IF idx = FROM_IMPORT THEN get_all_after_import(text) ELSE text))

(* The name of a vertex for something that is no file of the project.      *)
extract_dummy_node_name(text) ==
  IF contains(text, " ") /\ get_all_before_import(text) # <<>>
  THEN get_all_before_import(text) ELSE erase_all(text, " ")

-----------------------------------------------------------------------------
(* What an import statement means to Python.  An item is a dotted name     *)
(* behind a number of dots (0: absolute, 1: the directory of the file, 2:  *)
(* the directory above, ...); it may be renamed with as.                   *)
Item(dots, path, renamed) == [dots |-> dots, path |-> path, renamed |-> renamed]
Simple(dots, path) == Item(dots, path, FALSE)
Renamed(dots, path) == Item(dots, path, TRUE)

(* import item, item, ...                                                  *)
Import(items) == [form |-> "import", items |-> items]
(* from module import item, item, ...: the dots are those of the module.   *)
From(module, items) == [form |-> "from", module |-> module, items |-> items]
(* from module import *                                                    *)
FromStar(module) == [form |-> "star", module |-> module]
(* __all__ = ['item', 'item', ...]                                         *)
All(items) == [form |-> "all", items |-> items]

IsList(import) == import.form # "star" /\ Len(import.items) > 1

(* The items that it imports, each as if it were imported on its own.      *)
Meant(import) ==
  CASE import.form = "import" -> import.items
    [] import.form = "from"   ->
         [i \in 1..Len(import.items) |->
            [import.items[i] EXCEPT !.dots = import.module.dots,
                                    !.path = import.module.path \o @]]
    [] import.form = "star"   -> <<import.module>>
    [] import.form = "all"    ->
         [i \in 1..Len(import.items) |-> [import.items[i] EXCEPT !.dots = 1]]

(* The text of an import statement that the regex captures.                *)
Joined(parts, between) ==
  FlattenSeq([i \in 1..Len(parts) |->
                IF i = 1 THEN parts[i] ELSE between \o parts[i]])
Slashed(path) == Joined([i \in 1..Len(path) |-> <<path[i]>>], <<"/">>)
Dotted(item) ==
  [i \in 1..item.dots |-> "."]
    \o Joined([i \in 1..Len(item.path) |-> <<item.path[i]>>], <<".">>)
    \o (IF item.renamed THEN <<" ", "as", " ", "alias">> ELSE <<>>)
Listed(items) ==
  Joined([i \in 1..Len(items) |-> Dotted(items[i])], <<",", " ">>)

Text(import) ==
  CASE import.form = "import" -> Listed(import.items)
    [] import.form = "from"   ->
         Dotted(import.module) \o <<" ", "import", " ">> \o Listed(import.items)
    [] import.form = "star"   -> Dotted(import.module) \o <<" ", "import", " ", "*">>
    [] import.form = "all"    ->
         Joined([i \in 1..Len(import.items) |->
                   <<Quote>> \o Dotted(import.items[i]) \o <<Quote>>], <<",", " ">>)

RegexOf(import) ==
  CASE import.form = "import"         -> IMPORT
    [] import.form \in {"from", "star"} -> FROM_IMPORT
    [] import.form = "all"            -> ALL_IMPORT
=============================================================================
