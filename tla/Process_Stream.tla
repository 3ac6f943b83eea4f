--------------------------- MODULE Process_Stream ---------------------------
(***************************************************************************)
(* Statement_Detector::process_stream and ::detect                         *)
(* (src/statement_detector.cpp): one file is read line by line, lines that *)
(* end in a backslash are joined with the line that follows, and every     *)
(* complete (logical) line is searched for a statement.  Each statement is *)
(* reported to the solver, with the number of the line that completed it,  *)
(* by a call of add_edge.                                                  *)
(*                                                                         *)
(* A physical line is the text before its backslash (Blank when there is   *)
(* none) and whether the backslash is there; a text is the sequence of the *)
(* pieces that were appended to it.  What std::regex finds in a text is a  *)
(* parameter.                                                              *)
(***************************************************************************)
EXTENDS Integers, Sequences

CONSTANTS Inputs,             (* the files: a set of sequences of lines     *)
          Pieces,             (* what a line can hold, without a backslash  *)
          Blank,              (* the piece "" (a member of Pieces)          *)
          Names,              (* what the last group of a regex can capture *)
          NumStatements,      (* how many regexes the solver has            *)
          RegexSearch(_, _),  (* RegexSearch(i, text): what statements[i]   *)
          NoMatch             (*   captures in text, or NoMatch             *)

Line == [text : Pieces, cont : BOOLEAN]
Idx  == 0..(NumStatements - 1)

(* The text of lines j to k - 1 of a file, joined; all such texts.         *)
TextOf(f, j, k) == [i \in 1..(k - j) |-> f[j + i - 1].text]
Texts == UNION {{TextOf(f, j, k) : j, k \in 1..(Len(f) + 1)} : f \in Inputs}

ASSUME StreamAssumption ==
  /\ Inputs \subseteq Seq(Line)
  /\ Blank \in Pieces
  /\ NoMatch \notin Names
  /\ NumStatements \in Nat
  /\ \A i \in Idx, t \in Texts : RegexSearch(i, t) \in Names \cup {NoMatch}

(* optional<pair<string, int>>: first, second, or nothing.                 *)
Statement  == Names \X Idx
Disengaged == <<>>

VARIABLES
  input,             (* the lines of the stream                             *)
  line_cnt,          (* number of the line that getline reads next          *)
  multi_line,        (* the continued lines read so far, joined             *)
  found_multi_line,
  statement,         (* the local optional: survives from line to line      *)
  calls,             (* the add_edge calls made, in order                   *)
  status             (* "reading", "returned", or "crashed"                 *)

vars == <<input, line_cnt, multi_line, found_multi_line, statement, calls, status>>

(* What a statement that was never assigned may hold.                      *)
Garbage == Names \X (0..NumStatements)

Call(s, n) == [statement |-> s[1], idx |-> s[2], line_no |-> n]
Calls == [statement : Names, idx : 0..NumStatements, line_no : Nat \ {0}]

Init ==
  /\ input \in Inputs
  /\ line_cnt = 1
  /\ multi_line = <<>>
  /\ found_multi_line = FALSE
  /\ statement = Disengaged
  /\ calls = <<>>
  /\ status = "reading"

-----------------------------------------------------------------------------
(* detect(text): the first regex that matches wins.                        *)
Matching(text) == {i \in Idx : RegexSearch(i, text) # NoMatch}
First(S)       == CHOOSE i \in S : \A j \in S : i <= j

(* Broken: the last regex that matches wins.                               *)
detectLast(text) ==
  IF Matching(text) = {} THEN Disengaged
  ELSE LET i == CHOOSE k \in Matching(text) : \A j \in Matching(text) : j <= k
       IN  <<RegexSearch(i, text), i>>

detect(text) ==
  IF Matching(text) = {} THEN Disengaged
  ELSE LET i == First(Matching(text)) IN <<RegexSearch(i, text), i>>

-----------------------------------------------------------------------------
(* One iteration of while (getline(input, line)) ...                       *)

Reading  == status = "reading" /\ line_cnt <= Len(input)
line     == input[line_cnt]
NextLine == line_cnt' = line_cnt + 1 /\ UNCHANGED <<input, status>>
ForgetMultiLine == multi_line' = <<>> /\ found_multi_line' = FALSE

(* statement = detect(text); if (statement) add_edge(...)                  *)
DetectAndReport(text) ==
  /\ statement' = detect(text)
  /\ calls' = IF statement' = Disengaged THEN calls
              ELSE Append(calls, Call(statement', line_cnt))

EmptyLine ==
  /\ Reading /\ line.text = Blank /\ ~line.cont
  /\ ~found_multi_line \/ detect(multi_line) = Disengaged
  /\ ForgetMultiLine
  /\ UNCHANGED <<statement, calls>>
  /\ NextLine

(* An empty line after a continued statement: what detect returns here is  *)
(* only tested; the call uses the local optional as an earlier line left   *)
(* it ...                                                                  *)
EmptyLineStale ==
  /\ Reading /\ line.text = Blank /\ ~line.cont
  /\ found_multi_line /\ detect(multi_line) # Disengaged
  /\ statement # Disengaged
  /\ calls' = Append(calls, Call(statement, line_cnt))
  /\ ForgetMultiLine
  /\ UNCHANGED statement
  /\ NextLine

(* Broken: reports at the empty line without testing what detect returns.  *)
EmptyLineUntested ==
  /\ Reading /\ line.text = Blank /\ ~line.cont
  /\ found_multi_line
  /\ statement = Disengaged
  /\ status' = "crashed"
  /\ UNCHANGED <<input, line_cnt, multi_line, found_multi_line, statement, calls>>

(* ... and if that is disengaged, undefined behaviour reads a string that  *)
(* is not there: the program dies, or goes on with any string and number.  *)
EmptyLineUndefined ==
  /\ Reading /\ line.text = Blank /\ ~line.cont
  /\ found_multi_line /\ detect(multi_line) # Disengaged
  /\ statement = Disengaged
  /\ \/ /\ status' = "crashed"
        /\ UNCHANGED <<input, line_cnt, multi_line, found_multi_line,
                       statement, calls>>
     \/ /\ \E s \in Garbage : calls' = Append(calls, Call(s, line_cnt))
        /\ ForgetMultiLine
        /\ UNCHANGED statement
        /\ NextLine

ContinuedLine ==
  /\ Reading /\ line.cont
  /\ multi_line' = Append(multi_line, line.text)
  /\ found_multi_line' = TRUE
  /\ UNCHANGED <<statement, calls>>
  /\ NextLine

(* Broken: the joined text is kept for the next continued line.            *)
LastOfMultiLineKept ==
  /\ Reading /\ line.text # Blank /\ ~line.cont
  /\ found_multi_line
  /\ DetectAndReport(Append(multi_line, line.text))
  /\ found_multi_line' = FALSE
  /\ UNCHANGED multi_line
  /\ NextLine

LastOfMultiLine ==
  /\ Reading /\ line.text # Blank /\ ~line.cont
  /\ found_multi_line
  /\ DetectAndReport(Append(multi_line, line.text))
  /\ ForgetMultiLine
  /\ NextLine

SingleLine ==
  /\ Reading /\ line.text # Blank /\ ~line.cont
  /\ ~found_multi_line
  /\ DetectAndReport(<<line.text>>)
  /\ UNCHANGED <<multi_line, found_multi_line>>
  /\ NextLine

(* Broken: what a last line with a backslash began is dropped.             *)
EndOfStreamDrops ==
  /\ status = "reading" /\ line_cnt > Len(input)
  /\ status' = "returned"
  /\ UNCHANGED <<input, line_cnt, multi_line, found_multi_line, statement, calls>>

(* Broken: the end of the stream is counted as one more line.              *)
EndOfStreamCounted ==
  /\ status = "reading" /\ line_cnt > Len(input)
  /\ line_cnt' = line_cnt + 1
  /\ IF found_multi_line THEN DetectAndReport(multi_line)
                         ELSE UNCHANGED <<statement, calls>>
  /\ status' = "returned"
  /\ UNCHANGED <<input, multi_line, found_multi_line>>

(* After the loop: a stream whose last line ends in a backslash.           *)
EndOfStream ==
  /\ status = "reading" /\ line_cnt > Len(input)
  /\ IF found_multi_line THEN DetectAndReport(multi_line)
                         ELSE UNCHANGED <<statement, calls>>
  /\ status' = "returned"
  /\ UNCHANGED <<input, line_cnt, multi_line, found_multi_line>>

Next ==
  \/ EmptyLine \/ EmptyLineStale \/ EmptyLineUndefined
  \/ ContinuedLine \/ LastOfMultiLine \/ SingleLine \/ EndOfStream

Spec == Init /\ [][Next]_vars

-----------------------------------------------------------------------------
(* What process_stream should report.                                      *)

(* Line k completes the logical line that starts at line j: the lines      *)
(* before k are continued, and the line before j is not.                   *)
IsStart(j, k) ==
  /\ j \in 1..k
  /\ j = 1 \/ ~input[j - 1].cont
  /\ \A i \in j..(k - 1) : input[i].cont
Start(k) == CHOOSE j \in 1..k : IsStart(j, k)

(* A stream that ends in a continued line is completed by its end, which   *)
(* counts as one more line.                                                *)
Unfinished == Len(input) > 0 /\ input[Len(input)].cont
Completes(k) == \/ k \in 1..Len(input) /\ ~input[k].cont
                \/ k = Len(input) + 1 /\ Unfinished
IsEmptyLine(k) == k \in 1..Len(input) /\ input[k].text = Blank /\ ~input[k].cont

(* The text of the logical line that line k completes: the text of an      *)
(* empty line, or of the end, is no part of it.                            *)
LogicalText(k) ==
  TextOf(input, Start(k), IF IsEmptyLine(k) \/ k > Len(input) THEN k ELSE k + 1)

(* The logical lines completed so far, and those of them that hold a       *)
(* statement; an empty line on its own is no logical line.                 *)
Completed == {k \in 1..(Len(input) + 1) :
                /\ Completes(k)
                /\ LogicalText(k) # <<>>
                /\ k < line_cnt \/ status = "returned"}
WithStatement == {k \in Completed : detect(LogicalText(k)) # Disengaged}

(* Those that an empty line completed.                                     *)
EndedByEmptyLine == {k \in WithStatement : IsEmptyLine(k)}

-----------------------------------------------------------------------------
(* Properties                                                              *)

(* Every variable has its type; only the undefined read gives a call an    *)
(* index that no regex has.                                                *)
TypeOK ==
  /\ input \in Seq(Line)
  /\ line_cnt \in 1..(Len(input) + 1)
  /\ multi_line \in Seq(Pieces)
  /\ found_multi_line \in BOOLEAN
  /\ statement \in Statement \cup {Disengaged}
  /\ calls \in Seq(Calls)
  /\ status \in {"reading", "returned", "crashed"}

(* No text leaks from one logical line into the next: while lines are      *)
(* read, multi_line holds exactly the continued lines since the last line  *)
(* that completed something.                                               *)
MultiLineIsPending ==
  status = "reading" =>
    LET s == line_cnt - Len(multi_line)
    IN  /\ IsStart(s, line_cnt)
        /\ \A i \in 1..Len(multi_line) : multi_line[i] = input[s + i - 1].text
        /\ found_multi_line <=> multi_line # <<>>

(* The solver gets one call per completed logical line that holds a        *)
(* statement, in the order of the file and numbered by the line that       *)
(* completed it, and no other call; this holds for every file, and even    *)
(* when the undefined read of EmptyLineUndefined did not end the program.  *)
OneCallPerStatement ==
  /\ {calls[i].line_no : i \in 1..Len(calls)} = WithStatement
  /\ \A i, j \in 1..Len(calls) : i < j => calls[i].line_no < calls[j].line_no

(* A call reports what the text of its own logical line holds: the capture *)
(* of the first regex that matches, and that regex's index -- unless an    *)
(* empty line completed the logical line.                                  *)
Reports(call, text) ==
  /\ call.idx \in Matching(text)
  /\ call.statement = RegexSearch(call.idx, text)
  /\ \A i \in 0..(call.idx - 1) : RegexSearch(i, text) = NoMatch

CallsReportTheirLine ==
  \A i \in 1..Len(calls) :
    LET k == calls[i].line_no
    IN  k \notin EndedByEmptyLine => Reports(calls[i], LogicalText(k))

(* The program only dies at an empty line that completes a statement, with *)
(* no statement reported since the last line that held none.               *)
CrashOnlyAtEmptyLine ==
  status = "crashed" =>
    /\ IsEmptyLine(line_cnt)
    /\ detect(multi_line) # Disengaged
    /\ \A i \in 1..Len(calls) : calls[i].line_no \in WithStatement \ EndedByEmptyLine
         => \E k \in Completed \ WithStatement : calls[i].line_no < k

(* "if we previously got a multi-line statement: process it!"              *)
(* (src/statement_detector.cpp:88): a call for a statement that an empty   *)
(* line completed reports that statement, too, at least as long as the     *)
(* behaviour is defined.                                                   *)
EmptyLineProcessesStatement ==
  calls # <<>> /\ statement # Disengaged =>
    LET call == calls[Len(calls)]
    IN  Reports(call, LogicalText(call.line_no))
=============================================================================
