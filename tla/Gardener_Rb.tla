---------------------------- MODULE Gardener_Rb ----------------------------
(***************************************************************************)
(* The program with Solver_Rb: Include_Gardener, where a statement leads   *)
(* where the search of Solver_Rb::add_edge leads, to be compared with the  *)
(* list of places where it should look.                                    *)
(***************************************************************************)
EXTENDS Gardener_Search, Solver_Rb

ResolveRule ==
  \A src \in Paths, s \in Names, i \in Idx :
    /\ Resolve(src, s, i) = resolve(src, s, i)
    /\ \A dst \in Paths \cup {NoPath} :
         Follows(src, s, i, dst) <=> FollowsSearchList(src, s, i, dst)

ASSUME GardenerRbAssumption == ResolveRule
=============================================================================
