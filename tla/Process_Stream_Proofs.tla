------------------------ MODULE Process_Stream_Proofs ------------------------
(***************************************************************************)
(* Proofs about Process_Stream, for every set of files and every set of    *)
(* regexes.                                                                *)
(***************************************************************************)
EXTENDS Process_Stream, TLAPS, SequenceTheorems,
        WellFoundedInduction

-----------------------------------------------------------------------------
(* detect                                                                  *)

LEMMA FirstIsFirst ==
  ASSUME NEW S \in SUBSET Idx, S # {}
  PROVE  First(S) \in S /\ \A j \in S : First(S) <= j
<1>1. S \in SUBSET Nat
  BY StreamAssumption DEF Idx
<1> DEFINE R == OpToRel(<, Nat)
<1>2. IsWellFoundedOn(R, Nat)
  BY NatLessThanWellFounded
<1>3. \A x, y \in Nat : x < y => <<x, y>> \in R
  BY DEF OpToRel
<1> HIDE DEF R
<1>4. PICK i \in S : \A j \in S : ~(<<j, i>> \in R)
  BY <1>1, <1>2, WFMin
<1>5. ASSUME NEW j \in S PROVE i <= j
  <2>1. i \in Nat /\ j \in Nat
    BY <1>1
  <2>2. ~(j < i)
    BY <2>1, <1>3, <1>4
  <2>3. QED
    BY <2>1, <2>2
<1>6. QED
  BY <1>4, <1>5 DEF First

(* detect returns the capture and the index of the first regex that        *)
(* matches, and nothing exactly when none does.                            *)
LEMMA DetectLemma ==
  ASSUME NEW text \in Texts
  PROVE  /\ detect(text) \in Statement \cup {Disengaged}
         /\ detect(text) = Disengaged <=> Matching(text) = {}
         /\ \A n : detect(text) # Disengaged =>
              Reports(Call(detect(text), n), text)
<1>1. Matching(text) \in SUBSET Idx
  BY DEF Matching
<1>2. CASE Matching(text) = {}
  BY <1>2 DEF detect
<1>3. CASE Matching(text) # {}
  <2> DEFINE i == First(Matching(text))
  <2>1. i \in Matching(text) /\ \A j \in Matching(text) : i <= j
    BY <1>1, <1>3, FirstIsFirst
  <2>2. i \in Idx /\ RegexSearch(i, text) \in Names
    BY <2>1, StreamAssumption DEF Matching
  <2>3. detect(text) = <<RegexSearch(i, text), i>>
    BY <1>3 DEF detect
  <2> HIDE DEF i
  <2>4. detect(text) \in Statement /\ detect(text) # Disengaged
    BY <2>2, <2>3 DEF Statement, Disengaged
  <2>5. ASSUME NEW n PROVE Reports(Call(detect(text), n), text)
    <3>1. \A k \in 0..(i - 1) : RegexSearch(k, text) = NoMatch
      <4> SUFFICES ASSUME NEW k \in 0..(i - 1) PROVE k \notin Matching(text)
        BY <2>2, StreamAssumption DEF Matching, Idx
      <4>1. QED
        BY <2>1, <2>2, StreamAssumption DEF Idx
    <3>2. QED
      BY <2>1, <2>3, <3>1 DEF Reports, Call
  <2>6. QED
    BY <1>3, <2>4, <2>5
<1>4. QED
  BY <1>2, <1>3

-----------------------------------------------------------------------------
(* The inductive invariant.                                                *)

Typing ==
  /\ input \in Inputs
  /\ line_cnt \in 1..(Len(input) + 1)
  /\ multi_line \in Seq(Pieces)
  /\ found_multi_line \in BOOLEAN
  /\ statement \in Statement \cup {Disengaged}
  /\ calls \in Seq(Calls)
  /\ status \in {"reading", "returned", "crashed"}
  /\ status = "returned" => line_cnt = Len(input) + 1

CallsInv == OneCallPerStatement /\ CallsReportTheirLine

IInv == Typing /\ MultiLineIsPending /\ CallsInv

LEMMA InputType ==
  ASSUME Typing
  PROVE  /\ input \in Seq(Line) /\ Len(input) \in Nat
         /\ \A i \in 1..Len(input) : input[i] \in Line
BY StreamAssumption, ElementOfSeq, LenProperties DEF Typing

(* A logical line starts at one place only.                                *)
LEMMA StartUnique ==
  ASSUME Typing, NEW k \in 1..(Len(input) + 1), NEW s \in 1..k, IsStart(s, k)
  PROVE  Start(k) = s
<1>1. Len(input) \in Nat
  BY InputType
<1>2. ASSUME NEW i \in 1..k, NEW j \in 1..k, IsStart(i, k), IsStart(j, k), i < j
      PROVE  FALSE
  <2>1. j - 1 \in i..(k - 1) /\ j # 1
    BY <1>1, <1>2
  <2>2. QED
    BY <1>2, <2>1 DEF IsStart
<1>3. ASSUME NEW i \in 1..k, IsStart(i, k) PROVE i = s
  <2>1. ~(i < s) /\ ~(s < i)
    BY <1>2, <1>3
  <2>2. QED
    BY <1>1, <2>1
<1>4. QED
  BY <1>3 DEF Start

(* While lines are read, multi_line is the text of the lines since the     *)
(* start of the logical line.                                              *)
LEMMA PendingText ==
  ASSUME Typing, MultiLineIsPending, status = "reading"
  PROVE  /\ Start(line_cnt) \in 1..line_cnt
         /\ IsStart(Start(line_cnt), line_cnt)
         /\ Start(line_cnt) = line_cnt - Len(multi_line)
         /\ multi_line = TextOf(input, Start(line_cnt), line_cnt)
         /\ multi_line \in Texts
<1> DEFINE m == Len(multi_line)
           s == line_cnt - m
<1>1. m \in Nat /\ Len(input) \in Nat /\ line_cnt \in Nat
      /\ multi_line = [i \in 1..m |-> multi_line[i]]
  BY InputType, LenProperties DEF Typing
<1>2. /\ IsStart(s, line_cnt)
      /\ \A i \in 1..m : multi_line[i] = input[s + i - 1].text
  BY DEF MultiLineIsPending
<1>3. s \in 1..line_cnt
  BY <1>2 DEF IsStart
<1>4. Start(line_cnt) = s
  BY <1>2, <1>3, StartUnique DEF Typing
<1>5. line_cnt - s = m
  BY <1>1
<1>6. multi_line = TextOf(input, s, line_cnt)
  BY <1>1, <1>2, <1>5 DEF TextOf
<1>7. multi_line \in Texts
  <2>1. s \in 1..(Len(input) + 1) /\ line_cnt \in 1..(Len(input) + 1)
    BY <1>1, <1>3 DEF Typing
  <2>2. QED
    BY <1>6, <2>1 DEF Typing, Texts
<1>8. QED
  BY <1>2, <1>3, <1>4, <1>6, <1>7

(* Appending the text of line k to the text of the lines before it.        *)
LEMMA AppendText ==
  ASSUME NEW f, NEW s \in Int, NEW k \in Int, s <= k, NEW q \in Seq(Pieces),
         q = TextOf(f, s, k), f[k].text \in Pieces
  PROVE  Append(q, f[k].text) = TextOf(f, s, k + 1)
<1> DEFINE m == k - s
           r == Append(q, f[k].text)
<1>1. m \in Nat /\ (k + 1) - s = m + 1 /\ s + (m + 1) - 1 = k
  OBVIOUS
<1>2. q = [i \in 1..m |-> f[s + i - 1].text]
  BY DEF TextOf
<1>3. Len(q) = m
  BY <1>1, <1>2, LenProperties
<1>4. /\ r \in Seq(Pieces) /\ Len(r) = m + 1 /\ r[m + 1] = f[k].text
      /\ \A i \in 1..m : r[i] = q[i]
  BY <1>3, AppendProperties
<1>5. r = [i \in 1..(m + 1) |-> r[i]]
  BY <1>4, LenProperties
<1>6. \A i \in 1..(m + 1) : r[i] = f[s + i - 1].text
  <2>1. \A i \in 1..(m + 1) : i \in 1..m \/ i = m + 1
    BY <1>1
  <2>2. \A i \in 1..m : r[i] = f[s + i - 1].text
    BY <1>2, <1>4
  <2> HIDE DEF m, r
  <2>3. QED
    BY <1>1, <1>4, <2>1, <2>2
<1>7. TextOf(f, s, k + 1) = [i \in 1..(m + 1) |-> f[s + i - 1].text]
  BY <1>1 DEF TextOf
<1>8. QED
  BY <1>5, <1>6, <1>7

(* The text that each kind of line completes.                              *)
LEMMA CurrentText ==
  ASSUME Typing, MultiLineIsPending, status = "reading"
  PROVE  /\ IsEmptyLine(line_cnt) \/ line_cnt > Len(input)
              => LogicalText(line_cnt) = multi_line
         /\ line_cnt <= Len(input) /\ ~IsEmptyLine(line_cnt)
              => /\ LogicalText(line_cnt) = Append(multi_line, input[line_cnt].text)
                 /\ LogicalText(line_cnt) \in Texts
<1>1. ASSUME IsEmptyLine(line_cnt) \/ line_cnt > Len(input)
      PROVE  LogicalText(line_cnt) = multi_line
  BY <1>1, PendingText DEF LogicalText
<1>2. ASSUME line_cnt <= Len(input), ~IsEmptyLine(line_cnt)
      PROVE  /\ LogicalText(line_cnt) = Append(multi_line, input[line_cnt].text)
             /\ LogicalText(line_cnt) \in Texts
  <2> DEFINE k == line_cnt
             s == Start(line_cnt)
  <2>1. /\ s \in 1..k /\ multi_line = TextOf(input, s, k)
        /\ k \in 1..(Len(input) + 1) /\ Len(input) \in Nat
    BY PendingText, InputType DEF Typing
  <2>2. LogicalText(k) = TextOf(input, s, k + 1)
    BY <1>2, <2>1 DEF LogicalText
  <2>3. s \in 1..(Len(input) + 1) /\ k + 1 \in 1..(Len(input) + 1)
    BY <1>2, <2>1
  <2>4. TextOf(input, s, k + 1) \in Texts
    BY <2>3 DEF Texts, Typing
  <2>5. input[k].text \in Pieces
    <3>1. input[k] \in Line
      BY <1>2, <2>1, InputType
    <3>2. QED
      BY <3>1 DEF Line
  <2>6. Append(multi_line, input[k].text) = TextOf(input, s, k + 1)
    BY <2>1, <2>5, AppendText DEF Typing
  <2>7. QED
    BY <2>2, <2>4, <2>6
<1>3. QED
  BY <1>1, <1>2

-----------------------------------------------------------------------------
(* Types.                                                                  *)

LEMMA CallType ==
  ASSUME NEW s \in Statement \cup Garbage, NEW n \in Nat \ {0}
  PROVE  Call(s, n) \in Calls /\ Call(s, n).line_no = n
<1>1. s[1] \in Names /\ s[2] \in 0..NumStatements
  BY StreamAssumption DEF Statement, Garbage, Idx
<1>2. QED
  BY <1>1 DEF Call, Calls

(* What detect returns is of the right type, and so is the call made for it *)
LEMMA ReportType ==
  ASSUME Typing, NEW text \in Texts, DetectAndReport(text)
  PROVE  /\ statement' \in Statement \cup {Disengaged}
         /\ calls' \in Seq(Calls)
<1>1. statement' \in Statement \cup {Disengaged}
  BY DetectLemma DEF DetectAndReport
<1>2. line_cnt \in Nat \ {0}
  BY InputType DEF Typing
<1>3. statement' # Disengaged => Call(statement', line_cnt) \in Calls
  BY <1>1, <1>2, CallType
<1>4. QED
  BY <1>1, <1>3, AppendProperties DEF DetectAndReport, Typing

(* The text that a line which is neither empty nor continued completes.    *)
LEMMA LineText ==
  ASSUME Typing, MultiLineIsPending, Reading, line.text # Blank, ~line.cont
  PROVE  /\ LogicalText(line_cnt) = Append(multi_line, line.text)
         /\ LogicalText(line_cnt) \in Texts
         /\ LogicalText(line_cnt) # <<>>
         /\ ~found_multi_line => LogicalText(line_cnt) = <<line.text>>
<1>1. line_cnt <= Len(input) /\ ~IsEmptyLine(line_cnt) /\ status = "reading"
  BY DEF Reading, line, IsEmptyLine
<1>2. /\ LogicalText(line_cnt) = Append(multi_line, line.text)
      /\ LogicalText(line_cnt) \in Texts
  BY <1>1, CurrentText DEF line
<1>3. line.text \in Pieces
  <2>1. line_cnt \in 1..Len(input)
    BY <1>1, InputType DEF Typing
  <2>2. line \in Line
    BY <2>1, InputType DEF line
  <2>3. QED
    BY <2>2 DEF Line
<1>4. Append(multi_line, line.text) # <<>>
  BY <1>3, AppendProperties, LenProperties, EmptySeq DEF Typing
<1>5. ~found_multi_line => multi_line = <<>>
  BY <1>1 DEF MultiLineIsPending
<1>6. Append(<<>>, line.text) = <<line.text>>
  OBVIOUS
<1>7. QED
  BY <1>2, <1>4, <1>5, <1>6

LEMMA NextLineType ==
  ASSUME Typing, Reading, NextLine
  PROVE  /\ input' \in Inputs
         /\ line_cnt' \in 1..(Len(input') + 1)
         /\ status' \in {"reading", "returned", "crashed"}
         /\ status' = "returned" => line_cnt' = Len(input') + 1
<1>1. line_cnt \in Nat \ {0} /\ Len(input) \in Nat
  BY InputType DEF Typing
<1>2. line_cnt + 1 \in 1..(Len(input) + 1)
  BY <1>1 DEF Reading
<1>3. QED
  BY <1>2 DEF Reading, NextLine, Typing

LEMMA ForgetType ==
  ASSUME ForgetMultiLine
  PROVE  multi_line' \in Seq(Pieces) /\ found_multi_line' \in BOOLEAN
<1>1. <<>> \in Seq(Pieces)
  OBVIOUS
<1>2. found_multi_line' \in BOOLEAN
  BY Zenon DEF ForgetMultiLine
<1>3. QED
  BY <1>1, <1>2 DEF ForgetMultiLine

LEMMA TypingStep ==
  ASSUME Typing, MultiLineIsPending, [Next]_vars
  PROVE  Typing'
<1>1. line_cnt \in Nat \ {0} /\ Len(input) \in Nat
  BY InputType DEF Typing
<1>2. CASE EmptyLine
  BY <1>2, NextLineType, ForgetType, Zenon DEF EmptyLine, Typing
<1>3. CASE EmptyLineStale
  <2>1. statement \in Statement
    BY <1>3 DEF EmptyLineStale, Typing
  <2>2. calls' \in Seq(Calls)
    BY <1>1, <1>3, <2>1, CallType, AppendProperties DEF EmptyLineStale, Typing
  <2>3. QED
    BY <1>3, <2>2, NextLineType, ForgetType, Zenon DEF EmptyLineStale, Typing
<1>4. CASE EmptyLineUndefined
  <2>1. CASE status' = "crashed" /\ UNCHANGED <<input, line_cnt, multi_line,
                                    found_multi_line, statement, calls>>
    BY <2>1 DEF Typing
  <2>2. CASE /\ \E s \in Garbage : calls' = Append(calls, Call(s, line_cnt))
             /\ ForgetMultiLine
             /\ UNCHANGED statement
             /\ NextLine
    <3>1. calls' \in Seq(Calls)
      BY <1>1, <2>2, CallType, AppendProperties DEF Typing
    <3>2. Reading /\ statement' \in Statement \cup {Disengaged}
      BY <1>4, <2>2 DEF EmptyLineUndefined, Typing
    <3>3. QED
      BY <2>2, <3>1, <3>2, NextLineType, ForgetType, Zenon DEF Typing
  <2>3. QED
    BY <1>4, <2>1, <2>2 DEF EmptyLineUndefined
<1>5. CASE ContinuedLine
  <2>1. line_cnt \in 1..Len(input)
    BY <1>1, <1>5 DEF ContinuedLine, Reading
  <2>2. line.text \in Pieces
    BY <2>1, InputType DEF line, Line
  <2>3. multi_line' \in Seq(Pieces)
    BY <1>5, <2>2, AppendProperties DEF ContinuedLine, Typing
  <2>4. found_multi_line' \in BOOLEAN
    BY <1>5, Zenon DEF ContinuedLine
  <2>5. QED
    BY <1>5, <2>3, <2>4, NextLineType, Zenon DEF ContinuedLine, Typing
<1>6. CASE LastOfMultiLine
  <2>1. /\ statement' \in Statement \cup {Disengaged}
        /\ calls' \in Seq(Calls)
    BY <1>6, LineText, ReportType DEF LastOfMultiLine
  <2>2. QED
    BY <1>6, <2>1, NextLineType, ForgetType, Zenon DEF LastOfMultiLine, Typing
<1>7. CASE SingleLine
  <2>1. /\ statement' \in Statement \cup {Disengaged}
        /\ calls' \in Seq(Calls)
    BY <1>7, LineText, ReportType DEF SingleLine
  <2>2. QED
    BY <1>7, <2>1, NextLineType, Zenon DEF SingleLine, Typing
<1>8. CASE EndOfStream
  <2>1. ASSUME found_multi_line
        PROVE  statement' \in Statement \cup {Disengaged} /\ calls' \in Seq(Calls)
    <3>1. DetectAndReport(multi_line)
      BY <1>8, <2>1 DEF EndOfStream
    <3>2. multi_line \in Texts
      BY <1>8, PendingText DEF EndOfStream
    <3>3. QED
      BY <3>1, <3>2, ReportType
  <2>2. ASSUME ~found_multi_line
        PROVE  statement' \in Statement \cup {Disengaged} /\ calls' \in Seq(Calls)
    BY <1>8, <2>2 DEF EndOfStream, Typing
  <2>3. line_cnt = Len(input) + 1
    BY <1>1, <1>8 DEF EndOfStream, Typing
  <2>4. statement' \in Statement \cup {Disengaged} /\ calls' \in Seq(Calls)
    BY <2>1, <2>2
  <2>5. QED
    BY <1>8, <2>3, <2>4 DEF EndOfStream, Typing
<1>9. CASE UNCHANGED vars
  BY <1>9 DEF vars, Typing
<1>10. QED
  BY <1>2, <1>3, <1>4, <1>5, <1>6, <1>7, <1>8, <1>9 DEF Next

-----------------------------------------------------------------------------
(* multi_line holds the pending lines.                                     *)

(* After a line without a backslash nothing is pending.                    *)
LEMMA NothingPending ==
  ASSUME Typing, Reading, NextLine, ~line.cont,
         multi_line' = <<>>, found_multi_line' = FALSE
  PROVE  MultiLineIsPending'
<1>1. line_cnt \in 1..Len(input) /\ Len(input) \in Nat
  BY InputType DEF Typing, Reading
<1>2. line_cnt' = line_cnt + 1 /\ input' = input
  BY DEF NextLine
<1>3. Len(multi_line') = 0
  BY EmptySeq
<1>4. line_cnt' - Len(multi_line') = line_cnt + 1
  BY <1>1, <1>2, <1>3
<1>5. QED
  BY <1>1, <1>2, <1>3, <1>4 DEF MultiLineIsPending, IsStart, line

LEMMA PendingStep ==
  ASSUME Typing, MultiLineIsPending, [Next]_vars
  PROVE  MultiLineIsPending'
<1>1. CASE EmptyLine
  BY <1>1, NothingPending DEF EmptyLine, ForgetMultiLine
<1>2. CASE EmptyLineStale
  BY <1>2, NothingPending DEF EmptyLineStale, ForgetMultiLine
<1>3. CASE EmptyLineUndefined
  <2>1. CASE status' = "crashed"
    BY <2>1 DEF MultiLineIsPending
  <2>2. CASE ForgetMultiLine /\ NextLine
    BY <1>3, <2>2, NothingPending DEF EmptyLineUndefined, ForgetMultiLine
  <2>3. QED
    BY <1>3, <2>1, <2>2 DEF EmptyLineUndefined
<1>4. CASE ContinuedLine
  <2> DEFINE m == Len(multi_line)
             s == line_cnt - m
  <2>1. /\ line_cnt \in 1..Len(input) /\ Len(input) \in Nat /\ m \in Nat
        /\ status = "reading"
    BY <1>4, InputType, LenProperties DEF Typing, ContinuedLine, Reading
  <2>2. /\ IsStart(s, line_cnt)
        /\ \A i \in 1..m : multi_line[i] = input[s + i - 1].text
    BY <2>1 DEF MultiLineIsPending
  <2>3. line.text \in Pieces /\ line.cont
    BY <1>4, <2>1, InputType DEF line, Line, ContinuedLine
  <2>4. /\ Len(multi_line') = m + 1
        /\ multi_line'[m + 1] = line.text
        /\ \A i \in 1..m : multi_line'[i] = multi_line[i]
        /\ multi_line' # <<>>
    BY <1>4, <2>1, <2>3, AppendProperties, LenProperties, EmptySeq
       DEF ContinuedLine, Typing
  <2>5. /\ line_cnt' = line_cnt + 1 /\ input' = input
        /\ found_multi_line' = TRUE /\ status' = status
    BY <1>4 DEF ContinuedLine, NextLine
  <2>6. line_cnt' - Len(multi_line') = s
    BY <2>1, <2>4, <2>5
  <2>7. IsStart(s, line_cnt)'
    <3>1. s \in 1..(line_cnt + 1)
      BY <2>1, <2>2 DEF IsStart
    <3>2. \A i \in s..((line_cnt + 1) - 1) : i \in s..(line_cnt - 1) \/ i = line_cnt
      BY <2>1
    <3>3. \A i \in s..((line_cnt + 1) - 1) : input[i].cont
      BY <2>2, <2>3, <3>2 DEF IsStart, line
    <3>4. QED
      BY <2>2, <2>4, <2>5, <2>6, <3>1, <3>3 DEF IsStart
  <2>8. \A i \in 1..(m + 1) : multi_line'[i] = input'[s + i - 1].text
    <3>1. \A i \in 1..(m + 1) : i \in 1..m \/ i = m + 1
      BY <2>1
    <3>2. s + (m + 1) - 1 = line_cnt
      BY <2>1
    <3> HIDE DEF m, s
    <3>3. QED
      BY <2>2, <2>4, <2>5, <3>1, <3>2 DEF line
  <2>9. \A i \in 1..Len(multi_line') :
          multi_line'[i] = input'[line_cnt' - Len(multi_line') + i - 1].text
    BY <2>4, <2>6, <2>8
  <2>10. IsStart(line_cnt - Len(multi_line), line_cnt)'
    BY <2>7
  <2>11. found_multi_line' <=> multi_line' # <<>>
    BY <2>4, <2>5
  <2> HIDE DEF m, s
  <2>12. QED
    BY <2>9, <2>10, <2>11 DEF MultiLineIsPending
<1>5. CASE LastOfMultiLine
  BY <1>5, NothingPending DEF LastOfMultiLine, ForgetMultiLine
<1>6. CASE SingleLine
  <2>1. multi_line = <<>>
    BY <1>6 DEF SingleLine, Reading, MultiLineIsPending
  <2>2. found_multi_line = FALSE
    BY <1>6, Zenon DEF SingleLine, Typing
  <2>3. QED
    BY <1>6, <2>1, <2>2, NothingPending DEF SingleLine
<1>7. CASE EndOfStream
  BY <1>7 DEF EndOfStream, MultiLineIsPending
<1>8. CASE UNCHANGED vars
  BY <1>8 DEF vars, MultiLineIsPending, IsStart
<1>9. QED
  BY <1>1, <1>2, <1>3, <1>4, <1>5, <1>6, <1>7, <1>8 DEF Next

-----------------------------------------------------------------------------
(* One call for every statement.                                           *)

(* What process_stream should report depends on the file alone.            *)
LEMMA FileFixed ==
  ASSUME input' = input, NEW k
  PROVE  /\ LogicalText(k)' = LogicalText(k)
         /\ Completes(k)' <=> Completes(k)
         /\ IsEmptyLine(k)' <=> IsEmptyLine(k)
BY DEF LogicalText, Completes, IsEmptyLine, Unfinished, Start, IsStart

HasStatement(k) == /\ Completes(k)
                   /\ LogicalText(k) # <<>>
                   /\ detect(LogicalText(k)) # Disengaged

(* Going on to the next line, or to the end, completes the logical line of *)
(* the current one, if that completes one.                                 *)
LEMMA LineStep ==
  ASSUME Typing, status = "reading", input' = input,
         \/ line_cnt' = line_cnt + 1 /\ status' = status
         \/ /\ line_cnt' = line_cnt /\ line_cnt > Len(input)
            /\ status' = "returned"
  PROVE  /\ \A n \in WithStatement : n < line_cnt
         /\ WithStatement' =
              IF HasStatement(line_cnt) THEN WithStatement \cup {line_cnt}
                                        ELSE WithStatement
<1>1. line_cnt \in 1..(Len(input) + 1) /\ Len(input) \in Nat
  BY InputType DEF Typing
<1>2. WithStatement = {n \in 1..(Len(input) + 1) : HasStatement(n) /\ n < line_cnt}
  BY DEF WithStatement, Completed, HasStatement
<1>3. WithStatement' = {n \in 1..(Len(input) + 1) :
                          /\ HasStatement(n)
                          /\ n < line_cnt' \/ status' = "returned"}
  BY FileFixed DEF WithStatement, Completed, HasStatement
<1>4. \A n \in 1..(Len(input) + 1) :
         n < line_cnt' \/ status' = "returned" <=> n < line_cnt \/ n = line_cnt
  BY <1>1
<1>5. QED
  BY <1>1, <1>2, <1>3, <1>4

LEMMA NoCall ==
  ASSUME CallsInv, input' = input, calls' = calls,
         WithStatement' = WithStatement
  PROVE  CallsInv'
<1>1. \A k : IsEmptyLine(k)' <=> IsEmptyLine(k)
  BY FileFixed
<1>2. EndedByEmptyLine' = EndedByEmptyLine
  BY <1>1 DEF EndedByEmptyLine
<1>3. \A k : LogicalText(k)' = LogicalText(k)
  BY FileFixed
<1>4. OneCallPerStatement'
  BY DEF CallsInv, OneCallPerStatement
<1>5. CallsReportTheirLine'
  BY <1>2, <1>3 DEF CallsInv, CallsReportTheirLine, Reports
<1>6. QED
  BY <1>4, <1>5 DEF CallsInv

LEMMA OneMoreCall ==
  ASSUME Typing, CallsInv, input' = input, NEW c \in Calls,
         calls' = Append(calls, c),
         \A k \in WithStatement : k < c.line_no,
         WithStatement' = WithStatement \cup {c.line_no},
         IsEmptyLine(c.line_no) \/ Reports(c, LogicalText(c.line_no))
  PROVE  CallsInv'
<1> DEFINE m == Len(calls)
<1>1. /\ m \in Nat /\ Len(calls') = m + 1 /\ calls'[m + 1] = c
      /\ \A i \in 1..m : calls'[i] = calls[i] /\ calls[i] \in Calls
  BY AppendProperties, ElementOfSeq, LenProperties DEF Typing
<1>2. \A i \in 1..(m + 1) : i \in 1..m \/ i = m + 1
  BY <1>1
<1>3. \A i \in 1..m : calls[i].line_no < c.line_no
  BY DEF CallsInv, OneCallPerStatement
<1>4. {calls'[i].line_no : i \in 1..(m + 1)} = WithStatement \cup {c.line_no}
  <2>1. \A n \in WithStatement : \E i \in 1..(m + 1) : n = calls'[i].line_no
    BY <1>1 DEF CallsInv, OneCallPerStatement
  <2>2. m + 1 \in 1..(m + 1)
    BY <1>1
  <2>3. \A i \in 1..(m + 1) : calls'[i].line_no \in WithStatement \cup {c.line_no}
    BY <1>1, <1>2 DEF CallsInv, OneCallPerStatement
  <2> HIDE DEF m
  <2>4. QED
    BY <1>1, <2>1, <2>2, <2>3
<1>5. \A i, j \in 1..(m + 1) : i < j => calls'[i].line_no < calls'[j].line_no
  <2> SUFFICES ASSUME NEW i \in 1..(m + 1), NEW j \in 1..(m + 1), i < j
               PROVE  calls'[i].line_no < calls'[j].line_no
    OBVIOUS
  <2>1. i \in 1..m
    BY <1>1
  <2>2. CASE j \in 1..m
    BY <1>1, <2>1, <2>2 DEF CallsInv, OneCallPerStatement
  <2>3. CASE j = m + 1
    BY <1>1, <1>3, <2>1, <2>3
  <2>4. QED
    BY <1>2, <2>2, <2>3
<1>6. \A i \in 1..(m + 1) :
         calls'[i].line_no \notin EndedByEmptyLine' =>
           Reports(calls'[i], LogicalText(calls'[i].line_no))
  <2>1. \A k : IsEmptyLine(k)' <=> IsEmptyLine(k)
    BY FileFixed
  <2>2. EndedByEmptyLine' = {k \in WithStatement \cup {c.line_no} : IsEmptyLine(k)}
    BY <2>1 DEF EndedByEmptyLine
  <2>3. \A i \in 1..m : calls[i].line_no \notin EndedByEmptyLine' =>
           Reports(calls[i], LogicalText(calls[i].line_no))
    BY <2>2 DEF CallsInv, CallsReportTheirLine, EndedByEmptyLine
  <2>4. c.line_no \notin EndedByEmptyLine' => Reports(c, LogicalText(c.line_no))
    BY <2>2
  <2> HIDE DEF m
  <2>5. QED
    BY <1>1, <1>2, <2>3, <2>4
<1>7. OneCallPerStatement'
  BY <1>1, <1>4, <1>5 DEF OneCallPerStatement
<1>8. CallsReportTheirLine'
  <2>1. \A k : LogicalText(k)' = LogicalText(k)
    BY FileFixed
  <2>2. QED
    BY <1>1, <1>6, <2>1 DEF CallsReportTheirLine, Reports
<1>9. QED
  BY <1>7, <1>8 DEF CallsInv

(* detect is applied to the text of the line: a call is made exactly when   *)
(* it holds a statement, and it reports that one.                          *)
LEMMA DetectedLine ==
  ASSUME Typing, CallsInv, input' = input,
         LogicalText(line_cnt) \in Texts,
         Completes(line_cnt), LogicalText(line_cnt) # <<>>,
         DetectAndReport(LogicalText(line_cnt)),
         \A n \in WithStatement : n < line_cnt,
         WithStatement' = IF HasStatement(line_cnt)
                            THEN WithStatement \cup {line_cnt} ELSE WithStatement
  PROVE  CallsInv'
<1> DEFINE text == LogicalText(line_cnt)
<1>1. CASE detect(text) = Disengaged
  <2>1. calls' = calls /\ WithStatement' = WithStatement
    BY <1>1 DEF DetectAndReport, HasStatement
  <2>2. QED
    BY <2>1, NoCall
<1>2. CASE detect(text) # Disengaged
  <2> DEFINE c == Call(detect(text), line_cnt)
  <2>1. line_cnt \in Nat \ {0}
    BY InputType DEF Typing
  <2>2. c \in Calls /\ c.line_no = line_cnt
    BY <1>2, <2>1, DetectLemma, CallType
  <2>3. Reports(c, text)
    BY <1>2, DetectLemma
  <2>4. calls' = Append(calls, c)
    BY <1>2 DEF DetectAndReport
  <2>5. WithStatement' = WithStatement \cup {line_cnt}
    BY <1>2 DEF HasStatement
  <2> HIDE DEF c
  <2>6. QED
    BY <2>2, <2>3, <2>4, <2>5, OneMoreCall
<1>3. QED
  BY <1>1, <1>2

LEMMA CallsStep ==
  ASSUME IInv, [Next]_vars
  PROVE  CallsInv'
<1> USE DEF IInv
<1>1. line_cnt \in Nat \ {0} /\ Len(input) \in Nat
  BY InputType DEF Typing
<1>2. CASE EmptyLine
  <2>1. /\ status = "reading" /\ input' = input /\ line_cnt' = line_cnt + 1
        /\ status' = status /\ calls' = calls /\ IsEmptyLine(line_cnt)
    BY <1>1, <1>2 DEF EmptyLine, Reading, NextLine, IsEmptyLine, line
  <2>2. LogicalText(line_cnt) = multi_line
    BY <2>1, CurrentText
  <2>3. ~HasStatement(line_cnt)
    BY <1>2, <2>1, <2>2 DEF EmptyLine, MultiLineIsPending, HasStatement
  <2>4. QED
    BY <2>1, <2>3, LineStep, NoCall
<1>3. ASSUME Reading, line.text = Blank, ~line.cont, found_multi_line,
             detect(multi_line) # Disengaged, NextLine,
             NEW s \in Statement \cup Garbage,
             calls' = Append(calls, Call(s, line_cnt))
      PROVE  CallsInv'
  <2>1. /\ status = "reading" /\ input' = input /\ line_cnt' = line_cnt + 1
        /\ status' = status /\ IsEmptyLine(line_cnt)
    BY <1>1, <1>3 DEF Reading, NextLine, IsEmptyLine, line
  <2>2. LogicalText(line_cnt) = multi_line /\ multi_line # <<>>
    BY <1>3, <2>1, CurrentText DEF MultiLineIsPending
  <2>3. HasStatement(line_cnt)
    BY <1>3, <2>1, <2>2 DEF HasStatement, Completes, IsEmptyLine
  <2>4. /\ WithStatement' = WithStatement \cup {line_cnt}
        /\ \A n \in WithStatement : n < line_cnt
    BY <2>1, <2>3, LineStep
  <2>5. Call(s, line_cnt) \in Calls /\ Call(s, line_cnt).line_no = line_cnt
    BY <1>1, CallType
  <2>6. QED
    BY <1>3, <2>1, <2>4, <2>5, OneMoreCall
<1>4. CASE EmptyLineStale
  <2>1. statement \in Statement
    BY <1>4 DEF EmptyLineStale, Typing
  <2>2. QED
    BY <1>3, <1>4, <2>1 DEF EmptyLineStale
<1>5. CASE EmptyLineUndefined
  <2>1. CASE status' = "crashed" /\ UNCHANGED <<input, line_cnt, multi_line,
                                    found_multi_line, statement, calls>>
    <3>1. \A n : Completes(n)' = Completes(n)
      BY <2>1 DEF Completes, Unfinished
    <3>2. WithStatement' = WithStatement
      BY <1>5, <2>1, FileFixed
         DEF WithStatement, Completed, EmptyLineUndefined, Reading
    <3>3. QED
      BY <2>1, <3>2, NoCall
  <2>2. CASE /\ \E s \in Garbage : calls' = Append(calls, Call(s, line_cnt))
             /\ NextLine
    BY <1>3, <1>5, <2>2 DEF EmptyLineUndefined
  <2>3. QED
    BY <1>5, <2>1, <2>2 DEF EmptyLineUndefined
<1>6. CASE ContinuedLine
  <2>1. /\ status = "reading" /\ input' = input /\ line_cnt' = line_cnt + 1
        /\ status' = status /\ calls' = calls
    BY <1>6 DEF ContinuedLine, Reading, NextLine
  <2>2. ~HasStatement(line_cnt)
    BY <1>1, <1>6 DEF ContinuedLine, Reading, HasStatement, Completes, line
  <2>3. QED
    BY <2>1, <2>2, LineStep, NoCall
<1>7. ASSUME Reading, line.text # Blank, ~line.cont, NextLine,
             DetectAndReport(LogicalText(line_cnt))
      PROVE  CallsInv'
  <2>1. /\ status = "reading" /\ input' = input /\ line_cnt' = line_cnt + 1
        /\ status' = status
    BY <1>7 DEF Reading, NextLine
  <2>2. Completes(line_cnt)
    BY <1>1, <1>7 DEF Reading, Completes, line
  <2>3. QED
    BY <1>7, <2>1, <2>2, LineText, LineStep, DetectedLine
<1>8. CASE LastOfMultiLine
  BY <1>7, <1>8, LineText DEF LastOfMultiLine
<1>9. CASE SingleLine
  BY <1>7, <1>9, LineText DEF SingleLine
<1>10. CASE EndOfStream
  <2>1. /\ status = "reading" /\ input' = input /\ line_cnt' = line_cnt
        /\ status' = "returned" /\ line_cnt > Len(input)
        /\ line_cnt = Len(input) + 1
    BY <1>1, <1>10 DEF EndOfStream, Typing
  <2>2. LogicalText(line_cnt) = multi_line /\ multi_line \in Texts
    BY <2>1, CurrentText, PendingText
  <2>3. /\ \A n \in WithStatement : n < line_cnt
        /\ WithStatement' = IF HasStatement(line_cnt)
                              THEN WithStatement \cup {line_cnt}
                              ELSE WithStatement
    BY <2>1, LineStep
  <2>4. CASE found_multi_line
    <3>1. multi_line # <<>> /\ IsStart(line_cnt - Len(multi_line), line_cnt)
      BY <2>1, <2>4 DEF MultiLineIsPending
    <3>2. Len(multi_line) \in Nat \ {0}
      BY <3>1, LenProperties, EmptySeq DEF Typing
    <3>3. Unfinished
      BY <1>1, <2>1, <3>1, <3>2 DEF IsStart, Unfinished
    <3>4. Completes(line_cnt) /\ DetectAndReport(multi_line)
      BY <1>10, <2>1, <2>4, <3>3 DEF Completes, EndOfStream
    <3>5. QED
      BY <2>1, <2>2, <2>3, <3>1, <3>4, DetectedLine
  <2>5. CASE ~found_multi_line
    <3>1. ~HasStatement(line_cnt)
      BY <2>1, <2>2, <2>5 DEF MultiLineIsPending, HasStatement
    <3>2. calls' = calls
      BY <1>10, <2>5 DEF EndOfStream
    <3>3. QED
      BY <2>1, <2>3, <3>1, <3>2, NoCall
  <2>6. QED
    BY <2>4, <2>5
<1>11. CASE UNCHANGED vars
  <2>1. input' = input /\ calls' = calls /\ line_cnt' = line_cnt /\ status' = status
    BY <1>11 DEF vars
  <2>2. WithStatement' = WithStatement
    BY <2>1, FileFixed DEF WithStatement, Completed
  <2>3. QED
    BY <2>1, <2>2, NoCall
<1>12. QED
  BY <1>2, <1>4, <1>5, <1>6, <1>8, <1>9, <1>10, <1>11 DEF Next

-----------------------------------------------------------------------------
(* The theorems.                                                           *)

LEMMA InitInv == Init => IInv
<1> SUFFICES ASSUME Init PROVE IInv
  OBVIOUS
<1>1. input \in Seq(Line) /\ Len(input) \in Nat
  BY StreamAssumption, LenProperties DEF Init
<1>2. Typing
  <2>1. found_multi_line \in BOOLEAN
    BY Zenon DEF Init
  <2>2. <<>> \in Seq(Pieces) /\ <<>> \in Seq(Calls)
    OBVIOUS
  <2>3. line_cnt \in 1..(Len(input) + 1)
    BY <1>1 DEF Init
  <2>4. QED
    BY <2>1, <2>2, <2>3 DEF Init, Typing
<1>3. MultiLineIsPending
  BY <1>1, EmptySeq DEF Init, MultiLineIsPending, IsStart
<1>4. CallsInv
  <2>1. WithStatement = {}
    BY <1>1 DEF Init, WithStatement, Completed
  <2>2. Len(calls) = 0
    BY EmptySeq DEF Init
  <2>3. QED
    BY <2>1, <2>2 DEF CallsInv, OneCallPerStatement, CallsReportTheirLine
<1>5. QED
  BY <1>2, <1>3, <1>4 DEF IInv

(* The layers of the invariant hold in every reachable state.              *)
LEMMA Invariance == Spec => []IInv
<1>1. IInv /\ [Next]_vars => IInv'
  BY TypingStep, PendingStep, CallsStep DEF IInv
<1>2. QED
  BY InitInv, <1>1, PTL DEF Spec

(* The variables of process_stream have their types, for every file and    *)
(* every set of regexes.                                                   *)
THEOREM TypeCorrect == Spec => []TypeOK
<1>1. IInv => TypeOK
  BY InputType DEF IInv, Typing, TypeOK
<1>2. QED
  BY Invariance, <1>1, PTL

(* process_stream joins exactly the lines that belong together: multi_line *)
(* never holds text of an earlier logical line and misses none of its own. *)
THEOREM LinesJoinedRight == Spec => []MultiLineIsPending
<1>1. IInv => MultiLineIsPending
  BY DEF IInv
<1>2. QED
  BY Invariance, <1>1, PTL

(* For every file and every set of regexes process_stream calls add_edge   *)
(* once for each logical line that holds a statement, in order, with the   *)
(* number of the line that completes it and nothing else -- also when the  *)
(* undefined read at an empty line did not end the program.                *)
THEOREM OneCallEach == Spec => []OneCallPerStatement
<1>1. IInv => OneCallPerStatement
  BY DEF IInv, CallsInv
<1>2. QED
  BY Invariance, <1>1, PTL

(* Each of these calls passes what the first matching regex captures in    *)
(* the text of that logical line, unless an empty line completed it.       *)
THEOREM CallsAreRight == Spec => []CallsReportTheirLine
<1>1. IInv => CallsReportTheirLine
  BY DEF IInv, CallsInv
<1>2. QED
  BY Invariance, <1>1, PTL

(* At every moment the calls made for a file are a report as               *)
(* GardenerAssumption (module Include_Gardener) and PyAssumption (module   *)
(* Solver_Py) ask for: a sequence of statements with numbers that          *)
(* increase.  So what is proved there for any reports holds of those that  *)
(* process_stream makes.                                                   *)
IsReport(r) ==
  /\ r \in Seq([statement : Names, idx : 0..NumStatements, line_no : Nat \ {0}])
  /\ \A i, j \in 1..Len(r) : i < j => r[i].line_no < r[j].line_no

THEOREM CallsAreReport == Spec => []IsReport(calls)
<1>1. IInv => IsReport(calls)
  BY DEF IInv, Typing, Calls, CallsInv, OneCallPerStatement, IsReport
<1>2. QED
  BY Invariance, <1>1, PTL

-----------------------------------------------------------------------------
(* The undefined read.                                                     *)

(* While the local optional is disengaged, every statement reported so far *)
(* was followed by a logical line without one, unless an empty line        *)
(* completed it: an empty line reports, but does not assign the optional.  *)
ForgottenSince ==
  statement = Disengaged =>
    \A n \in WithStatement \ EndedByEmptyLine :
      \E k \in Completed \ WithStatement : n < k

(* The state in which the program died.                                    *)
CrashState ==
  status = "crashed" =>
    /\ IsEmptyLine(line_cnt)
    /\ detect(multi_line) # Disengaged
    /\ statement = Disengaged

CrashInv == ForgottenSince /\ CrashState

(* One line further the optional is disengaged only if it was before, and  *)
(* no line but an empty one reported anything, or if the line itself held  *)
(* no statement.                                                           *)
LEMMA ForgottenStep ==
  ASSUME Typing, ForgottenSince, status = "reading", input' = input,
         \/ line_cnt' = line_cnt + 1 /\ status' = status
         \/ /\ line_cnt' = line_cnt /\ line_cnt > Len(input)
            /\ status' = "returned",
         statement' = Disengaged =>
           \/ /\ statement = Disengaged
              /\ HasStatement(line_cnt) => IsEmptyLine(line_cnt)
           \/ /\ Completes(line_cnt) /\ LogicalText(line_cnt) # <<>>
              /\ detect(LogicalText(line_cnt)) = Disengaged
  PROVE  ForgottenSince'
<1>1. line_cnt \in 1..(Len(input) + 1) /\ Len(input) \in Nat
  BY InputType DEF Typing
<1>2. /\ \A n \in WithStatement : n < line_cnt
      /\ WithStatement' =
           IF HasStatement(line_cnt) THEN WithStatement \cup {line_cnt}
                                     ELSE WithStatement
  BY LineStep
<1>3. Completed' = {n \in 1..(Len(input) + 1) :
                      /\ Completes(n)
                      /\ LogicalText(n) # <<>>
                      /\ n < line_cnt' \/ status' = "returned"}
  BY FileFixed DEF Completed
<1>4. EndedByEmptyLine' = {n \in WithStatement' : IsEmptyLine(n)}
  BY FileFixed DEF EndedByEmptyLine
<1>5. \A k \in Completed : k \in Completed' /\ k < line_cnt
  BY <1>1, <1>3 DEF Completed
<1>6. \A k \in Completed \ WithStatement : k \in Completed' \ WithStatement'
  BY <1>1, <1>2, <1>5
<1>7. SUFFICES ASSUME statement' = Disengaged,
                      NEW n \in WithStatement' \ EndedByEmptyLine'
               PROVE  \E k \in Completed' \ WithStatement' : n < k
  BY DEF ForgottenSince
<1>8. CASE statement = Disengaged /\ (HasStatement(line_cnt) => IsEmptyLine(line_cnt))
  <2>1. n \in WithStatement \ EndedByEmptyLine
    BY <1>2, <1>4, <1>7, <1>8 DEF EndedByEmptyLine
  <2>2. PICK k \in Completed \ WithStatement : n < k
    BY <1>8, <2>1 DEF ForgottenSince
  <2>3. QED
    BY <1>6, <2>2
<1>9. CASE /\ Completes(line_cnt) /\ LogicalText(line_cnt) # <<>>
           /\ detect(LogicalText(line_cnt)) = Disengaged
  <2>1. ~HasStatement(line_cnt)
    BY <1>9 DEF HasStatement
  <2>2. n < line_cnt /\ line_cnt \notin WithStatement'
    BY <1>1, <1>2, <1>7, <2>1
  <2>3. line_cnt \in Completed'
    BY <1>1, <1>3, <1>9
  <2>4. QED
    BY <2>2, <2>3
<1>10. QED
  BY <1>7, <1>8, <1>9

LEMMA CrashStep ==
  ASSUME IInv, CrashInv, [Next]_vars
  PROVE  CrashInv'
<1> USE DEF IInv, CrashInv
<1>1. line_cnt \in Nat \ {0} /\ Len(input) \in Nat
  BY InputType DEF Typing
<1>2. CASE EmptyLine
  <2>1. /\ status = "reading" /\ input' = input /\ line_cnt' = line_cnt + 1
        /\ status' = status /\ statement' = statement /\ IsEmptyLine(line_cnt)
    BY <1>1, <1>2 DEF EmptyLine, Reading, NextLine, IsEmptyLine, line
  <2>2. ForgottenSince'
    BY <2>1, ForgottenStep
  <2>3. QED
    BY <2>1, <2>2 DEF CrashState
<1>3. CASE EmptyLineStale
  <2>1. statement' # Disengaged /\ status' = "reading"
    BY <1>3 DEF EmptyLineStale, NextLine, Reading
  <2>2. QED
    BY <2>1 DEF CrashState, ForgottenSince
<1>4. CASE EmptyLineUndefined
  <2>1. /\ status = "reading" /\ IsEmptyLine(line_cnt) /\ statement = Disengaged
        /\ detect(multi_line) # Disengaged
    BY <1>1, <1>4 DEF EmptyLineUndefined, Reading, IsEmptyLine, line
  <2>2. CASE status' = "crashed" /\ UNCHANGED <<input, line_cnt, multi_line,
                                    found_multi_line, statement, calls>>
    <3>1. CrashState'
      BY <2>1, <2>2, FileFixed DEF CrashState, detect, Matching, First
    <3>2. WithStatement' = WithStatement /\ Completed' = Completed
          /\ EndedByEmptyLine' = EndedByEmptyLine
      BY <2>1, <2>2, FileFixed DEF WithStatement, Completed, EndedByEmptyLine
    <3>3. ForgottenSince'
      BY <2>2, <3>2 DEF ForgottenSince
    <3>4. QED
      BY <3>1, <3>3
  <2>3. CASE NextLine /\ statement' = statement
    <3>1. /\ input' = input /\ line_cnt' = line_cnt + 1 /\ status' = status
      BY <2>3 DEF NextLine
    <3>2. ForgottenSince'
      BY <2>1, <2>3, <3>1, ForgottenStep
    <3>3. QED
      BY <2>1, <3>1, <3>2 DEF CrashState
  <2>4. QED
    BY <1>4, <2>2, <2>3 DEF EmptyLineUndefined
<1>5. CASE ContinuedLine
  <2>1. /\ status = "reading" /\ input' = input /\ line_cnt' = line_cnt + 1
        /\ status' = status /\ statement' = statement
    BY <1>5 DEF ContinuedLine, Reading, NextLine
  <2>2. ~HasStatement(line_cnt)
    BY <1>1, <1>5 DEF ContinuedLine, Reading, HasStatement, Completes, line
  <2>3. ForgottenSince'
    BY <2>1, <2>2, ForgottenStep
  <2>4. QED
    BY <2>1, <2>3 DEF CrashState
<1>6. ASSUME Reading, line.text # Blank, ~line.cont, NextLine,
             DetectAndReport(LogicalText(line_cnt))
      PROVE  CrashInv'
  <2>1. /\ status = "reading" /\ input' = input /\ line_cnt' = line_cnt + 1
        /\ status' = status
    BY <1>6 DEF Reading, NextLine
  <2>2. Completes(line_cnt) /\ LogicalText(line_cnt) # <<>>
    BY <1>1, <1>6, LineText DEF Reading, Completes, line
  <2>3. statement' = detect(LogicalText(line_cnt))
    BY <1>6 DEF DetectAndReport
  <2>4. ForgottenSince'
    BY <2>1, <2>2, <2>3, ForgottenStep
  <2>5. QED
    BY <2>1, <2>4 DEF CrashState
<1>7. CASE LastOfMultiLine
  BY <1>6, <1>7, LineText DEF LastOfMultiLine
<1>8. CASE SingleLine
  BY <1>6, <1>8, LineText DEF SingleLine
<1>9. CASE EndOfStream
  <2>1. /\ status = "reading" /\ input' = input /\ line_cnt' = line_cnt
        /\ status' = "returned" /\ line_cnt > Len(input)
        /\ line_cnt = Len(input) + 1
    BY <1>1, <1>9 DEF EndOfStream, Typing
  <2>2. LogicalText(line_cnt) = multi_line /\ multi_line \in Texts
    BY <2>1, CurrentText, PendingText
  <2>3. ForgottenSince'
    <3>1. CASE found_multi_line
      <4>1. multi_line # <<>> /\ IsStart(line_cnt - Len(multi_line), line_cnt)
        BY <2>1, <3>1 DEF MultiLineIsPending
      <4>2. Len(multi_line) \in Nat \ {0}
        BY <4>1, LenProperties, EmptySeq DEF Typing
      <4>3. Completes(line_cnt)
        BY <1>1, <2>1, <4>1, <4>2 DEF IsStart, Unfinished, Completes
      <4>4. statement' = detect(LogicalText(line_cnt))
        BY <1>9, <2>2, <3>1 DEF EndOfStream, DetectAndReport
      <4>5. QED
        BY <2>1, <2>2, <4>1, <4>3, <4>4, ForgottenStep
    <3>2. CASE ~found_multi_line
      <4>1. ~HasStatement(line_cnt) /\ statement' = statement
        BY <1>9, <2>1, <2>2, <3>2
           DEF MultiLineIsPending, HasStatement, EndOfStream
      <4>2. QED
        BY <2>1, <4>1, ForgottenStep
    <3>3. QED
      BY <3>1, <3>2
  <2>4. QED
    BY <2>1, <2>3 DEF CrashState
<1>10. CASE UNCHANGED vars
  <2>1. UNCHANGED <<input, line_cnt, multi_line, statement, status>>
    BY <1>10 DEF vars
  <2>2. WithStatement' = WithStatement /\ Completed' = Completed
        /\ EndedByEmptyLine' = EndedByEmptyLine
    BY <2>1, FileFixed DEF WithStatement, Completed, EndedByEmptyLine
  <2>3. QED
    BY <2>1, <2>2, FileFixed
       DEF ForgottenSince, CrashState, detect, Matching, First
<1>11. QED
  BY <1>2, <1>3, <1>4, <1>5, <1>7, <1>8, <1>9, <1>10 DEF Next

LEMMA CrashInvariance == Spec => []CrashInv
<1>1. Init => CrashInv
  <2>1. Init => WithStatement = {}
    BY StreamAssumption, LenProperties DEF Init, WithStatement, Completed
  <2>2. QED
    BY <2>1 DEF Init, CrashInv, ForgottenSince, CrashState
<1>2. IInv /\ CrashInv /\ [Next]_vars => CrashInv'
  BY CrashStep
<1>3. QED
  BY Invariance, <1>1, <1>2, PTL DEF Spec

(* The undefined read can end the program at one kind of place only: an    *)
(* empty line that completes a statement, when each statement reported by  *)
(* a line that is not empty was followed by a logical line without any.    *)
THEOREM CrashesThereOnly == Spec => []CrashOnlyAtEmptyLine
<1>1. IInv /\ CrashInv => CrashOnlyAtEmptyLine
  BY DEF CrashInv, ForgottenSince, CrashState, CrashOnlyAtEmptyLine
<1>2. QED
  BY Invariance, CrashInvariance, <1>1, PTL
=============================================================================
