---------------------------- MODULE MCGardener_Rb ----------------------------
(***************************************************************************)
(* Include_Gardener with Solver_Rb, for TLC: a file on the include path    *)
(* and one of the same name next to the source.                            *)
(***************************************************************************)
EXTENDS Gardener_Rb, TLC

MCPaths == {"s/a.rb", "s/x.rb", "i/x.rb", "i/y.rb"}
MCNames == {"a.rb", "x", "x.rb", "./x", "y", "z"}

MCReplaceExtension(statement) ==
  CASE statement \in {"x", "x.rb"} -> "x.rb"
    [] statement = "./x"           -> "./x.rb"
    [] statement = "y"             -> "y.rb"
    [] OTHER                       -> "z.rb"
MCStartsWithDot(statement) == statement = "./x"

MCLookup(dir, file_name) ==
  CASE dir = "s" /\ file_name \in {"x.rb", "./x.rb"} -> "s/x.rb"
    [] dir = "i" /\ file_name \in {"x.rb", "./x.rb"} -> "i/x.rb"
    [] dir = "i" /\ file_name = "y.rb"               -> "i/y.rb"
    [] OTHER                                         -> NoPath
MCParentDir(path) == IF path \in {"s/a.rb", "s/x.rb"} THEN "s" ELSE "i"
MCIncludePaths == <<"nowhere", "i">>

call(statement, idx, line_no) ==
  [statement |-> statement, idx |-> idx, line_no |-> line_no]

MCReports ==
  { <<>>,
    <<call("x", 0, 1), call("x", 1, 2), call("./x", 1, 3)>>,
    <<call("y", 0, 1), call("y", 1, 2)>>,
    <<call("x.rb", 1, 2), call("z", 1, 3)>> }

file(path, name) == [path |-> path, name |-> name]
MCInputFiles == <<file("s/a.rb", "a.rb"), file("s/x.rb", "x.rb")>>

WorkerSymmetry == Permutations(Workers)
=============================================================================
