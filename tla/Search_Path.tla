----------------------------- MODULE Search_Path -----------------------------
(***************************************************************************)
(* The loop over include_paths that Solver_C::add_edge and                 *)
(* Solver_Rb::add_edge share: a file is searched in a sequence of          *)
(* directories.  The file system is a parameter: Lookup says which file,   *)
(* if any, a statement names in a directory -- exists() and canonical() of *)
(* dir / statement -- so two spellings of one file yield one path.         *)
(***************************************************************************)
EXTENDS Solver

CONSTANTS Lookup(_, _),   (* Lookup(dir, statement): a path, or NoPath      *)
          ParentDir(_),   (* the directory of a path                        *)
          include_paths   (* option -I: a sequence of directories           *)

ASSUME SearchAssumption ==
  include_paths \in Seq({include_paths[i] : i \in DOMAIN include_paths})

(* The first position of a sequence of directories where the file is.      *)
Holding(dirs, statement) ==
  {i \in 1..Len(dirs) : Lookup(dirs[i], statement) # NoPath}
FirstHolding(dirs, statement) ==
  CHOOSE i \in Holding(dirs, statement) :
    \A k \in Holding(dirs, statement) : i <= k

search(dirs, statement) ==
  IF Holding(dirs, statement) = {} THEN NoPath
  ELSE Lookup(dirs[FirstHolding(dirs, statement)], statement)

-----------------------------------------------------------------------------
(* The rule that a search should follow: dst is the first file on the list *)
(* of directories, or there is none.                                       *)
FirstOnList(dirs, statement, dst) ==
  \/ /\ dst = NoPath
     /\ \A i \in 1..Len(dirs) : Lookup(dirs[i], statement) = NoPath
  \/ /\ dst # NoPath
     /\ \E i \in 1..Len(dirs) :
          /\ Lookup(dirs[i], statement) = dst
          /\ \A k \in 1..(i - 1) : Lookup(dirs[k], statement) = NoPath
=============================================================================
