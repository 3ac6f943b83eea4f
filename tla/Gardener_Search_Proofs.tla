------------------------ MODULE Gardener_Search_Proofs ------------------------
(***************************************************************************)
(* Where the edges lead, with the solver for C and with the one for Ruby:  *)
(* what the search of Search_Path finds, and that every edge of the graph  *)
(* follows the rule of its language.                                       *)
(***************************************************************************)
EXTENDS Gardener_Search, Include_Gardener_Proofs, Search_Path, WellFoundedInduction

CONSTANTS replace_extension(_), starts_with_dot(_)   (* of Solver_Rb        *)

C  == INSTANCE Gardener_C
Rb == INSTANCE Gardener_Rb

-----------------------------------------------------------------------------
(* The search.                                                             *)

(* A sequence of directories.                                              *)
IsDirs(dirs) == dirs \in Seq({dirs[i] : i \in DOMAIN dirs})

LEMMA FirstHoldingIsFirst ==
  ASSUME NEW dirs, IsDirs(dirs), NEW statement, Holding(dirs, statement) # {}
  PROVE  /\ FirstHolding(dirs, statement) \in Holding(dirs, statement)
         /\ \A k \in Holding(dirs, statement) : FirstHolding(dirs, statement) <= k
<1> DEFINE S == Holding(dirs, statement)
           R == OpToRel(<, Nat)
<1>1. S \in SUBSET Nat
  BY LenProperties DEF Holding, IsDirs
<1>2. IsWellFoundedOn(R, Nat)
  BY NatLessThanWellFounded
<1>3. \A x, y \in Nat : x < y => <<x, y>> \in R
  BY DEF OpToRel
<1> HIDE DEF R, S
<1>4. S # {}
  BY DEF S
<1>5. PICK i \in S : \A j \in S : ~(<<j, i>> \in R)
  BY <1>1, <1>2, <1>4, WFMin
<1>6. ASSUME NEW j \in S PROVE i <= j
  <2>1. i \in Nat /\ j \in Nat
    BY <1>1
  <2>2. ~(j < i)
    BY <2>1, <1>3, <1>5
  <2>3. QED
    BY <2>1, <2>2
<1>7. QED
  BY <1>5, <1>6 DEF FirstHolding, S

(* search finds the first file on the list, and nothing only when there is *)
(* none.                                                                   *)
LEMMA SearchFindsFirst ==
  ASSUME NEW dirs, IsDirs(dirs), NEW statement
  PROVE  FirstOnList(dirs, statement, search(dirs, statement))
<1>1. CASE Holding(dirs, statement) = {}
  BY <1>1 DEF search, FirstOnList, Holding
<1>2. CASE Holding(dirs, statement) # {}
  <2> DEFINE f == FirstHolding(dirs, statement)
             n == Len(dirs)
  <2>1. /\ f \in Holding(dirs, statement)
        /\ \A k \in Holding(dirs, statement) : f <= k
    BY <1>2, FirstHoldingIsFirst
  <2>2. n \in Nat
    BY LenProperties DEF IsDirs
  <2>3. f \in 1..n /\ Lookup(dirs[f], statement) # NoPath
        /\ search(dirs, statement) = Lookup(dirs[f], statement)
    BY <1>2, <2>1 DEF Holding, search
  <2>4. ASSUME NEW k \in 1..(f - 1) PROVE Lookup(dirs[k], statement) = NoPath
    <3> HIDE DEF f, n
    <3>1. k \in 1..n /\ ~(f <= k)
      BY <2>2, <2>3
    <3>2. k \notin Holding(dirs, statement)
      BY <2>1, <3>1
    <3>3. QED
      BY <3>1, <3>2 DEF Holding, n
  <2>5. QED
    BY <2>3, <2>4 DEF FirstOnList
<1>3. QED
  BY <1>1, <1>2

(* A directory in front of the list: what is found there comes first ...   *)
LEMMA PrependFacts ==
  ASSUME NEW dirs, IsDirs(dirs), NEW d
  PROVE  /\ Len(dirs) \in Nat /\ Len(<<d>> \o dirs) = Len(dirs) + 1
         /\ (<<d>> \o dirs)[1] = d
         /\ \A i \in 1..Len(dirs) : (<<d>> \o dirs)[i + 1] = dirs[i]
<1> DEFINE S == {dirs[i] : i \in DOMAIN dirs} \cup {d}
<1>1. {dirs[i] : i \in DOMAIN dirs} \subseteq S /\ d \in S
  OBVIOUS
<1>2. dirs \in Seq({dirs[i] : i \in DOMAIN dirs})
  BY DEF IsDirs
<1> HIDE DEF S
<1>3. dirs \in Seq(S) /\ <<d>> \in Seq(S) /\ Len(<<d>>) = 1 /\ <<d>>[1] = d
  BY <1>1, <1>2
<1>4. QED
  BY <1>3, ConcatProperties, LenProperties

LEMMA FoundInFront ==
  ASSUME NEW dirs, IsDirs(dirs), NEW d, NEW statement, Lookup(d, statement) # NoPath
  PROVE  FirstOnList(<<d>> \o dirs, statement, Lookup(d, statement))
<1>1. 1 \in 1..Len(<<d>> \o dirs) /\ (<<d>> \o dirs)[1] = d /\ 1..(1 - 1) = {}
  BY PrependFacts
<1>2. QED
  BY <1>1 DEF FirstOnList

(* ... and if there is nothing, the rest of the list decides.              *)
LEMMA NotFoundInFront ==
  ASSUME NEW dirs, IsDirs(dirs), NEW d, NEW statement, NEW dst,
         Lookup(d, statement) = NoPath, FirstOnList(dirs, statement, dst)
  PROVE  FirstOnList(<<d>> \o dirs, statement, dst)
<1> DEFINE n == Len(dirs)
           L == <<d>> \o dirs
<1>1. /\ n \in Nat /\ Len(L) = n + 1 /\ L[1] = d
      /\ \A i \in 1..n : L[i + 1] = dirs[i]
  BY PrependFacts
<1>2. \/ dst = NoPath /\ \A i \in 1..n : Lookup(dirs[i], statement) = NoPath
      \/ /\ dst # NoPath
         /\ \E i \in 1..n :
              /\ Lookup(dirs[i], statement) = dst
              /\ \A k \in 1..(i - 1) : Lookup(dirs[k], statement) = NoPath
  BY DEF FirstOnList
<1> SUFFICES FirstOnList(L, statement, dst)
  OBVIOUS
<1> HIDE DEF n, L
<1>3. ASSUME NEW m \in Nat, m <= n,
             \A k \in 1..m : Lookup(dirs[k], statement) = NoPath
      PROVE  \A k \in 1..(m + 1) : Lookup(L[k], statement) = NoPath
  <2> TAKE k \in 1..(m + 1)
  <2>1. CASE k = 1
    BY <1>1, <2>1
  <2>2. CASE k # 1
    <3>1. k - 1 \in 1..m /\ k - 1 \in 1..n /\ (k - 1) + 1 = k
      BY <1>1, <1>3, <2>2
    <3>2. L[(k - 1) + 1] = dirs[k - 1]
      BY <1>1, <3>1
    <3>3. QED
      BY <1>3, <3>1, <3>2
  <2>3. QED
    BY <2>1, <2>2
<1>4. CASE dst = NoPath
  <2>1. n <= n /\ \A k \in 1..n : Lookup(dirs[k], statement) = NoPath
    BY <1>1, <1>2, <1>4
  <2>2. \A k \in 1..(n + 1) : Lookup(L[k], statement) = NoPath
    BY <1>1, <1>3, <2>1
  <2>3. QED
    BY <1>1, <1>4, <2>2 DEF FirstOnList
<1>5. CASE dst # NoPath
  <2>1. PICK i \in 1..n :
          /\ Lookup(dirs[i], statement) = dst
          /\ \A k \in 1..(i - 1) : Lookup(dirs[k], statement) = NoPath
    BY <1>2, <1>5
  <2>2. i - 1 \in Nat /\ i - 1 <= n /\ (i - 1) + 1 = (i + 1) - 1 /\ i + 1 \in 1..(n + 1)
    BY <1>1
  <2>3. \A k \in 1..((i + 1) - 1) : Lookup(L[k], statement) = NoPath
    BY <1>3, <2>1, <2>2
  <2>4. QED
    BY <1>1, <1>5, <2>1, <2>2, <2>3 DEF FirstOnList
<1>6. QED
  BY <1>4, <1>5

-----------------------------------------------------------------------------
(* What resolve finds follows the rule of its language.                    *)

LEMMA IncludePathsAreDirs == IsDirs(include_paths)
BY SearchAssumption DEF IsDirs

LEMMA ResolveFollowsC ==
  ASSUME NEW src, NEW s, NEW i
  PROVE  C!FollowsSearchList(src, s, i, C!resolve(src, s, i))
<1> DEFINE relative == Lookup(ParentDir(src), s)
           list     == IF i = 0 THEN <<ParentDir(src)>> \o include_paths ELSE include_paths
           found    == IF i = 0 /\ relative # NoPath THEN relative
                       ELSE search(include_paths, s)
<1>1. FirstOnList(list, s, found)
  <2>1. CASE i = 0 /\ relative # NoPath
    BY <2>1, IncludePathsAreDirs, FoundInFront
  <2>2. CASE i = 0 /\ relative = NoPath
    BY <2>2, IncludePathsAreDirs, SearchFindsFirst, NotFoundInFront
  <2>3. CASE i # 0
    BY <2>3, IncludePathsAreDirs, SearchFindsFirst
  <2>4. QED
    BY <2>1, <2>2, <2>3
<1>2. C!resolve(src, s, i) = found
  BY DEF C!resolve, C!search, C!Holding, C!FirstHolding, search, Holding, FirstHolding
<1>3. C!FollowsSearchList(src, s, i, found) = FirstOnList(list, s, found)
  BY DEF C!FollowsSearchList, C!SearchList, C!FirstOnList, FirstOnList
<1>4. QED
  BY <1>1, <1>2, <1>3

LEMMA ResolveFollowsRb ==
  ASSUME NEW src, NEW s, NEW i
  PROVE  Rb!FollowsSearchList(src, s, i, Rb!resolve(src, s, i))
<1> DEFINE name     == replace_extension(s)
           dir      == ParentDir(src)
           relative == Lookup(dir, name)
           list     == CASE i = 0 -> <<dir>>
                         [] i = 1 -> IF starts_with_dot(s)
                                     THEN <<dir>> \o include_paths ELSE include_paths
                         [] OTHER -> <<>>
           found    == CASE i = 0 -> relative
                         [] i = 1 -> IF starts_with_dot(s) /\ relative # NoPath
                                     THEN relative ELSE search(include_paths, name)
                         [] OTHER -> NoPath
<1>1. FirstOnList(list, name, found)
  <2>1. CASE i = 0
    <3>1. list = <<dir>> /\ found = relative /\ Len(<<dir>>) = 1 /\ <<dir>>[1] = dir
      BY <2>1
    <3>2. QED
      BY <3>1 DEF FirstOnList
  <2>2. CASE i = 1 /\ starts_with_dot(s) /\ relative # NoPath
    BY <2>2, IncludePathsAreDirs, FoundInFront
  <2>3. CASE i = 1 /\ starts_with_dot(s) /\ relative = NoPath
    BY <2>3, IncludePathsAreDirs, SearchFindsFirst, NotFoundInFront
  <2>4. CASE i = 1 /\ ~starts_with_dot(s)
    BY <2>4, IncludePathsAreDirs, SearchFindsFirst
  <2>5. CASE i # 0 /\ i # 1
    <3>1. list = <<>> /\ found = NoPath /\ Len(<<>>) = 0
      BY <2>5
    <3>2. QED
      BY <3>1 DEF FirstOnList
  <2>6. QED
    BY <2>1, <2>2, <2>3, <2>4, <2>5
<1>2. Rb!resolve(src, s, i) = found
  BY DEF Rb!resolve, Rb!search, Rb!Holding, Rb!FirstHolding, search, Holding, FirstHolding
<1>3. Rb!FollowsSearchList(src, s, i, found) = FirstOnList(list, name, found)
  BY DEF Rb!FollowsSearchList, Rb!SearchList, Rb!FirstOnList, FirstOnList
<1>4. QED
  BY <1>1, <1>2, <1>3

-----------------------------------------------------------------------------
(* The edges.                                                              *)

(* Every edge of a file leads where Resolve leads from a call of the file. *)
ResolvedEdge(src, edge, c) ==
  /\ c \in CallsMade /\ PathOf(c) = src
  /\ CallOf(c).statement \in Names /\ CallOf(c).idx \in Idx
  /\ edge = EdgeOf(src, CallOf(c))

LEMMA EdgesAreResolved ==
  ASSUME SafetyInv, EdgeInv, NEW src \in Detected, NEW i \in 1..Len(graph.out[src])
  PROVE  /\ src \in Paths
         /\ \E c : ResolvedEdge(src, graph.out[src][i], c)
<1>1. src \in Labels(graph)
  BY DEF SafetyInv, GraphInv
<1>2. PICK j \in JobsOf(src) : \E m \in 1..Made(j) : graph.out[src][i] = EdgeAt(j, m)
  BY <1>1 DEF EdgeInv, OriginInv
<1>3. PICK m \in 1..Made(j) : graph.out[src][i] = EdgeAt(j, m)
  BY <1>2
<1>4. j \in Jobs /\ PathAt(j) = src
  BY JobsOfFacts
<1>5. /\ <<j, m>> \in CallsMade /\ PathOf(<<j, m>>) = src
      /\ CallOf(<<j, m>>) = report[src][m]
  BY <1>4, CallsMadeAre DEF PathAt, CallAt
<1>6. EdgeAt(j, m) = EdgeOf(src, report[src][m])
  BY <1>4 DEF EdgeAt, EdgeOf, KeyAt, CallAt, PathAt
<1>7. src \in InputPaths /\ src \in Paths
  BY <1>4, JobFiles DEF PathAt
<1> DEFINE S == [statement : Names, idx : Idx, line_no : Nat \ {0}]
<1>8. report[src] \in Seq(S)
  <2>1. report[src] \in Reports
    BY <1>7 DEF SafetyInv, ReportInv
  <2>2. QED
    BY <2>1, GardenerAssumption
<1>9. report[src][m] \in S
  <2>1. Made(j) \in 0..Len(report[src])
    BY <1>4, MadeType DEF SafetyInv, PathAt
  <2>2. Len(report[src]) \in Nat
    BY <1>8, LenProperties
  <2>3. m \in 1..Len(report[src])
    BY <2>1, <2>2
  <2> HIDE DEF S
  <2>4. QED
    BY <1>8, <2>3, ElementOfSeq
<1>10. report[src][m].statement \in Names /\ report[src][m].idx \in Idx
  BY <1>9
<1>11. ResolvedEdge(src, graph.out[src][i], <<j, m>>)
  BY <1>3, <1>5, <1>6, <1>10 DEF ResolvedEdge
<1>12. QED
  BY <1>7, <1>11

LEMMA ResolvedEdgeFacts ==
  ASSUME NEW src \in Paths, NEW edge, NEW c, ResolvedEdge(src, edge, c),
         NEW dst, dst = Resolve(src, CallOf(c).statement, CallOf(c).idx)
  PROVE  /\ dst \in Paths \cup {NoPath}
         /\ edge.line = CallOf(c).line_no
         /\ edge.dst = Key(CallOf(c).statement, dst)
BY GardenerAssumption DEF ResolvedEdge, EdgeOf, KeyOf, Edge

(* If Resolve follows the rule, so does every edge.                         *)
LEMMA EdgesFollow ==
  ASSUME \A src \in Paths, s \in Names, i \in Idx : Follows(src, s, i, Resolve(src, s, i))
  PROVE  GardenerSpec => []EdgesFollowSearchList
<1>1. ASSUME SafetyInv, EdgeInv PROVE EdgesFollowSearchList
  <2>1. ASSUME NEW src \in Detected, NEW i \in 1..Len(graph.out[src])
        PROVE  \E c \in CallsMade :
                 /\ PathOf(c) = src
                 /\ CallOf(c).line_no = graph.out[src][i].line
                 /\ \E dst \in Paths \cup {NoPath} :
                      /\ Follows(src, CallOf(c).statement, CallOf(c).idx, dst)
                      /\ graph.out[src][i].dst = Key(CallOf(c).statement, dst)
    <3>1. PICK c : ResolvedEdge(src, graph.out[src][i], c)
      BY <1>1, EdgesAreResolved
    <3>2. src \in Paths
      BY <1>1, EdgesAreResolved
    <3> DEFINE dst == Resolve(src, CallOf(c).statement, CallOf(c).idx)
    <3>3. /\ dst \in Paths \cup {NoPath}
          /\ graph.out[src][i].line = CallOf(c).line_no
          /\ graph.out[src][i].dst = Key(CallOf(c).statement, dst)
      BY <3>1, <3>2, ResolvedEdgeFacts
    <3>4. Follows(src, CallOf(c).statement, CallOf(c).idx, dst)
      BY <3>1, <3>2 DEF ResolvedEdge
    <3>5. QED
      BY <3>1, <3>3, <3>4 DEF ResolvedEdge
  <2>2. QED
    BY <2>1 DEF EdgesFollowSearchList
<1>2. QED
  BY <1>1, EdgeInvCorrect, SafetyInvCorrect, PTL

(* In the program with Solver_C, every edge of a file leads to the first   *)
(* file that its #include names: next to the source for the quoted form,   *)
(* then along the include paths in their order.                            *)
THEOREM EdgesOfC ==
  C!ResolveRule => (GardenerSpec => []EdgesFollowSearchList)
<1> SUFFICES ASSUME C!ResolveRule
             PROVE  GardenerSpec => []EdgesFollowSearchList
  OBVIOUS
<1>1. ASSUME NEW src \in Paths, NEW s \in Names, NEW i \in Idx
      PROVE  Follows(src, s, i, Resolve(src, s, i))
  <2>1. C!FollowsSearchList(src, s, i, Resolve(src, s, i))
    BY ResolveFollowsC DEF C!ResolveRule
  <2>2. Resolve(src, s, i) \in Paths \cup {NoPath}
    BY GardenerAssumption
  <2>3. QED
    BY <2>1, <2>2 DEF C!ResolveRule
<1>2. QED
  BY <1>1, EdgesFollow

(* In the program with Solver_Rb, every edge leads where the rules for     *)
(* require_relative, require and a leading dot say.                        *)
THEOREM EdgesOfRb ==
  Rb!ResolveRule => (GardenerSpec => []EdgesFollowSearchList)
<1> SUFFICES ASSUME Rb!ResolveRule
             PROVE  GardenerSpec => []EdgesFollowSearchList
  OBVIOUS
<1>1. ASSUME NEW src \in Paths, NEW s \in Names, NEW i \in Idx
      PROVE  Follows(src, s, i, Resolve(src, s, i))
  <2>1. Rb!FollowsSearchList(src, s, i, Resolve(src, s, i))
    BY ResolveFollowsRb DEF Rb!ResolveRule
  <2>2. Resolve(src, s, i) \in Paths \cup {NoPath}
    BY GardenerAssumption
  <2>3. QED
    BY <2>1, <2>2 DEF Rb!ResolveRule
<1>2. QED
  BY <1>1, EdgesFollow
=============================================================================
