------------------------------ MODULE Solver_C ------------------------------
(***************************************************************************)
(* Where Solver_C::add_edge (src/solver_c.cpp) finds the file that an      *)
(* #include names.                                                         *)
(***************************************************************************)
EXTENDS Search_Path

(* Broken: the include paths come before the directory of the source.      *)
resolve_include_paths_first(src, statement, idx) ==
  LET absolute == search(include_paths, statement)
  IN  IF idx = 0 /\ absolute = NoPath
      THEN Lookup(ParentDir(src), statement) ELSE absolute

(* idx 0 is #include "...": the directory of the source first; then, and   *)
(* for #include <...>, the include paths in the order they were given.     *)
resolve(src, statement, idx) ==
  LET relative == Lookup(ParentDir(src), statement)
  IN  IF idx = 0 /\ relative # NoPath THEN relative
      ELSE search(include_paths, statement)

-----------------------------------------------------------------------------
(* "the file is searched relative to the source file first, or in the      *)
(* include paths" (inc/solver_c.h:35).                                     *)
SearchList(src, idx) ==
  IF idx = 0 THEN <<ParentDir(src)>> \o include_paths ELSE include_paths
FollowsSearchList(src, statement, idx, dst) ==
  FirstOnList(SearchList(src, idx), statement, dst)
=============================================================================
