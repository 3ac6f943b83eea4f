-------------------------- MODULE Gardener_Search --------------------------
(***************************************************************************)
(* Where the edges of the graph lead, for a solver whose rule is a         *)
(* parameter: Gardener_C and Gardener_Rb give it the rule of a language.   *)
(***************************************************************************)
EXTENDS Include_Gardener

CONSTANT Follows(_, _, _, _)  (* Follows(src, statement, idx, dst): dst is  *)
                              (*   where the rule of the language leads, a  *)
                              (*   path, or NoPath if it leads nowhere      *)

(* Each edge of a file leads where the search rule leads from the call     *)
(* that it comes from: for C, next to the source for the quoted form, then *)
(* along the include paths; for Ruby, require_relative next to the source  *)
(* only, require with a leading dot next to the source first, then the     *)
(* include paths in order.                                                 *)
EdgesFollowSearchList ==
  \A src \in Detected : \A i \in 1..Len(graph.out[src]) :
    \E c \in CallsMade :
      /\ PathOf(c) = src
      /\ CallOf(c).line_no = graph.out[src][i].line
      /\ \E dst \in Paths \cup {NoPath} :
           /\ Follows(src, CallOf(c).statement, CallOf(c).idx, dst)
           /\ graph.out[src][i].dst = Key(CallOf(c).statement, dst)
=============================================================================
