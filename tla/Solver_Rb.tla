------------------------------ MODULE Solver_Rb ------------------------------
(***************************************************************************)
(* Where Solver_Rb::add_edge (src/solver_rb.cpp) finds the file that a     *)
(* require_relative or load (idx 0) or a require (idx 1) names.            *)
(***************************************************************************)
EXTENDS Search_Path

CONSTANTS replace_extension(_),  (* the statement with extension .rb, in    *)
                                 (*   place of the one it may have          *)
          starts_with_dot(_)

(* Broken: a require that starts with a dot is looked up in the include    *)
(* paths only.                                                             *)
resolve_dotless(src, statement, idx) ==
  IF idx = 0 THEN Lookup(ParentDir(src), replace_extension(statement))
             ELSE search(include_paths, replace_extension(statement))

(* require_relative never looks at the include paths; require looks next   *)
(* to the source only for a statement that starts with a dot.              *)
resolve(src, statement, idx) ==
  LET file_name == replace_extension(statement)
      relative  == Lookup(ParentDir(src), file_name)
  IN  CASE idx = 0 -> relative
        [] idx = 1 -> IF starts_with_dot(statement) /\ relative # NoPath
                      THEN relative ELSE search(include_paths, file_name)
        [] OTHER   -> NoPath

-----------------------------------------------------------------------------
(* The directories where a statement of each kind is looked for.           *)
SearchList(src, statement, idx) ==
  CASE idx = 0 -> <<ParentDir(src)>>
    [] idx = 1 -> IF starts_with_dot(statement)
                  THEN <<ParentDir(src)>> \o include_paths ELSE include_paths
    [] OTHER   -> <<>>
FollowsSearchList(src, statement, idx, dst) ==
  FirstOnList(SearchList(src, statement, idx), replace_extension(statement), dst)
=============================================================================
