---------------------------- MODULE MCGardener_C ----------------------------
(***************************************************************************)
(* Include_Gardener with Solver_C, for TLC: two directories, one of them   *)
(* an include path, with a file x.h in both.                               *)
(***************************************************************************)
EXTENDS Gardener_C, TLC

MCPaths == {"s/a.c", "s/x.h", "i/x.h", "i/y.h"}
MCNames == {"a.c", "s/a.c", "x.h", "y.h", "../i/y.h", "z.h", "i/y.h"}

MCLookup(dir, statement) ==
  CASE dir = "s" /\ statement = "x.h"      -> "s/x.h"
    [] dir = "i" /\ statement = "x.h"      -> "i/x.h"
    [] dir = "i" /\ statement = "y.h"      -> "i/y.h"
    [] dir = "s" /\ statement = "../i/y.h" -> "i/y.h"
    [] OTHER                               -> NoPath
MCParentDir(path) == IF path \in {"s/a.c", "s/x.h"} THEN "s" ELSE "i"
MCIncludePaths == <<"nowhere", "i">>

call(statement, idx, line_no) ==
  [statement |-> statement, idx |-> idx, line_no |-> line_no]

(* The same file under two spellings, found next to the source or on the   *)
(* include path, twice in one file, and not at all.                        *)
MCReports ==
  { <<>>,
    <<call("x.h", 0, 1), call("y.h", 1, 2)>>,
    <<call("../i/y.h", 0, 1), call("x.h", 1, 3)>>,
    <<call("z.h", 0, 2), call("z.h", 0, 3)>> }

(* A statement may name a file by its whole path.  Behind an include path  *)
(* that leads nowhere, but the text is the key the file has when found.    *)
MCReportsWithPath == MCReports \cup { <<call("i/y.h", 1, 4)>> }

file(path, name) == [path |-> path, name |-> name]

(* A file that two -P paths lead to is detected, and processed, twice.     *)
MCInputFiles  == <<file("s/a.c", "a.c"), file("s/x.h", "x.h"), file("s/a.c", "s/a.c")>>
MCInputFiles2 == <<file("s/a.c", "a.c"), file("s/x.h", "x.h")>>

WorkerSymmetry == Permutations(Workers)
=============================================================================
