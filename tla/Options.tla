------------------------------- MODULE Options -------------------------------
(***************************************************************************)
(* init_options (src/main.cpp), with add_options and extract_options of    *)
(* the three solvers: what the program makes of its command line.          *)
(*                                                                         *)
(* A command line is a sequence of [opt, value]; an option without its     *)
(* value has NoValue.  It is parsed twice: first for the options known     *)
(* from the start, with all others let through, to find the language; then *)
(* in full, with the options that hold several values and those of the     *)
(* language.  What the first parse stored, the second does not change.     *)
(***************************************************************************)
EXTENDS Integers, Sequences, FiniteSets

CONSTANTS
  ToLower(_),      (* a text in lower case                                  *)
  Number(_),       (* the int a text stands for, or BadNumber               *)
  BadNumber, NoValue

FlagOptions   == {"help", "version", "verbose"}
NumberOptions == {"recursive-limit", "threads"}
TextOptions   == {"out-file", "format", "language"}
FirstOptions  == FlagOptions \cup NumberOptions \cup TextOptions

(* A path without an option is a process-path.                             *)
VectorOptions == {"process-path", "exclude"}

(* Solver::get_solver                                                      *)
Languages == {"c", "py", "ruby"}

(* add_options: the names under which a language takes an include path.    *)
IncludeOptions(language) ==
  CASE language = "c"    -> {"c-include-path", "I"}
    [] language = "ruby" -> {"ruby-include-path", "I"}
    [] language = "py"   -> {}

SecondOptions(language) ==
  FirstOptions \cup VectorOptions \cup IncludeOptions(language)

-----------------------------------------------------------------------------
Given(line, opt) == \E i \in 1..Len(line) : line[i].opt = opt

(* The values of options that may be given several times, in the order of  *)
(* the line.                                                               *)
ValuesAt(line, places) ==
  LET nth(n) == CHOOSE i \in places : Cardinality({j \in places : j <= i}) = n
  IN  [n \in 1..Cardinality(places) |-> line[nth(n)].value]

Values(line, opts) == ValuesAt(line, {i \in 1..Len(line) : line[i].opt \in opts})

(* The value of an option that may be given once.                          *)
Places(line, opt)     == {i \in 1..Len(line) : line[i].opt = opt}
GivenValue(line, opt) == line[CHOOSE i \in Places(line, opt) : TRUE].value

Value(line, opt, default) ==
  IF Given(line, opt) THEN GivenValue(line, opt) ELSE default

NumberGiven(line, opt, default) ==
  IF Given(line, opt) THEN Number(GivenValue(line, opt)) ELSE default

language(line) ==
  IF Given(line, "language") THEN ToLower(Value(line, "language", "c")) ELSE "c"

(* An option given twice, without its value, or with a number that is none *)
FirstParseThrows(line) ==
  \/ \E opt \in FirstOptions : \E i, j \in Places(line, opt) : i # j
  \/ \E i \in 1..Len(line) :
       \/ line[i].opt \in TextOptions /\ line[i].value = NoValue
       \/ line[i].opt \in NumberOptions /\ Number(line[i].value) = BadNumber

HasUnknown(line) ==
  \E i \in 1..Len(line) : line[i].opt \notin SecondOptions(language(line))

SecondParseThrows(line) ==
  \E i \in 1..Len(line) :
    line[i].value = NoValue /\ line[i].opt \notin FlagOptions

Formats == {"dot", "xml", "graphml"}

(* Broken: the solver looks for its paths before the second parse.         *)
IncludePathsEarly(line) == <<>>

(* extract_options: what the solver takes from the line.                   *)
IncludePaths(line) == Values(line, IncludeOptions(language(line)))

(* struct Options when the command line is accepted.                       *)
options(line) ==
  [n_threads       |-> NumberGiven(line, "threads", 1),
   recursive_limit |-> NumberGiven(line, "recursive-limit", -1),
   language        |-> language(line),
   format          |-> Value(line, "format", "dot"),
   out_file        |-> Value(line, "out-file", ""),
   process_paths   |-> Values(line, {"process-path"}),
   exclude         |-> Values(line, {"exclude"}),
   include_paths   |-> IncludePaths(line)]

(* Broken: any number of threads will do.                                  *)
ThreadsAlwaysAccepted(line) == FALSE

(* "at least one worker thread": a negative number gets through.           *)
ThreadsRefused(line) == NumberGiven(line, "threads", 1) = 0

FormatRefused(line) == Value(line, "format", "dot") \notin Formats \cup {""}

(* Where init_options returns, exits or throws: the first that applies.    *)
init_options(line) ==
  IF FirstParseThrows(line) THEN "exception"
  ELSE IF Given(line, "version") THEN "version"
  ELSE IF language(line) \notin Languages THEN "unsupported language"
  ELSE IF HasUnknown(line) THEN "unknown option"
  ELSE IF SecondParseThrows(line) THEN "exception"
  ELSE IF Given(line, "help") THEN "help"
  ELSE IF ~Given(line, "process-path") THEN "no input"
  ELSE IF ThreadsRefused(line) THEN "no threads"
  ELSE IF FormatRefused(line) THEN "bad format"
  ELSE "accepted"
=============================================================================
