----------------------------- MODULE Input_Files -----------------------------
(***************************************************************************)
(* What the abstract class Input_Files (inc/input_files.h) asks of a class *)
(* derived from it: get(solver) "shall put all input files in the private  *)
(* storage files", where main iterates over them from begin() to end().    *)
(*                                                                         *)
(* The list only grows at its end, every file on it is known to the solver *)
(* from the moment it is there, a file the solver knows is on it, and      *)
(* nothing changes when get() has returned or thrown, as it eventually     *)
(* does.                                                                   *)
(***************************************************************************)
EXTENDS Sequences

CONSTANT Paths

VARIABLES files,     (* the list, as begin() .. end() will present it       *)
          known,     (* the paths for which the solver has a vertex         *)
          status     (* "running", "done", or "failed" by an exception      *)

vars == <<files, known, status>>

Init == files = <<>> /\ known = {} /\ status = "running"

Put(path) ==
  /\ status = "running"
  /\ files' = Append(files, path)
  /\ known' = known \cup {path}
  /\ UNCHANGED status

Return == status = "running" /\ status' = "done" /\ UNCHANGED <<files, known>>
Throw  == status = "running" /\ status' = "failed" /\ UNCHANGED <<files, known>>

Next == (\E path \in Paths : Put(path)) \/ Return \/ Throw

Spec == Init /\ [][Next]_vars /\ <>(status # "running")
=============================================================================
