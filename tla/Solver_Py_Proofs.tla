---------------------------- MODULE Solver_Py_Proofs ----------------------------
(***************************************************************************)
(* Proofs about Solver_Py, for any workers, files, contents and any file   *)
(* system.                                                                 *)
(***************************************************************************)
EXTENDS Solver_Py, Solver_Proofs, FiniteSetTheorems, WellFoundedInduction

-----------------------------------------------------------------------------
(* Induction, for a set of numbers.                                        *)
LEMMA SetInduction ==
  ASSUME NEW S \in SUBSET Nat, 0 \in S, \A n \in S : n + 1 \in S
  PROVE  S = Nat
<1> DEFINE R == OpToRel(<, Nat)
           T == Nat \ S
<1>1. IsWellFoundedOn(R, Nat)
  BY NatLessThanWellFounded
<1>2. \A x, y \in Nat : x < y => <<x, y>> \in R
  BY DEF OpToRel
<1> HIDE DEF R
<1>3. CASE T # {}
  <2>1. T \in SUBSET Nat
    OBVIOUS
  <2>2. PICK n \in T : \A m \in T : ~(<<m, n>> \in R)
    <3> HIDE DEF T
    <3>1. QED
      BY <1>1, <1>3, <2>1, WFMin
  <2>3. n \in Nat /\ n \notin S /\ n # 0
    OBVIOUS
  <2>4. n - 1 \in Nat /\ n - 1 < n /\ (n - 1) + 1 = n
    BY <2>3
  <2>5. n - 1 \notin T
    <3> HIDE DEF T
    <3>1. QED
      BY <1>2, <2>2, <2>3, <2>4
  <2>6. QED
    BY <2>3, <2>4, <2>5
<1>4. QED
  BY <1>3

(* A set of numbers with an element has a least one.                       *)
LEMMA LeastNumber ==
  ASSUME NEW S \in SUBSET Nat, S # {}
  PROVE  Min(S) \in S /\ \A x \in S : Min(S) <= x
<1> DEFINE R == OpToRel(<, Nat)
<1>1. IsWellFoundedOn(R, Nat)
  BY NatLessThanWellFounded
<1>2. \A x, y \in Nat : x < y => <<x, y>> \in R
  BY DEF OpToRel
<1> HIDE DEF R
<1>3. PICK n \in S : \A m \in S : ~(<<m, n>> \in R)
  BY <1>1, WFMin
<1>4. ASSUME NEW m \in S PROVE n <= m
  <2>1. ~(m < n) /\ m \in Nat /\ n \in Nat
    BY <1>2, <1>3, <1>4
  <2>2. QED
    BY <2>1
<1>5. QED
  BY <1>3, <1>4 DEF Min

(* ... and, if it is finite, one of every rank.                            *)
LEMMA NthExists ==
  ASSUME NEW n \in Nat, NEW S \in SUBSET Nat, IsFiniteSet(S), n < Cardinality(S)
  PROVE  \E x \in S : Cardinality({y \in S : y < x}) = n
<1> DEFINE Ranked(m) == \A T \in SUBSET Nat : IsFiniteSet(T) /\ m < Cardinality(T) =>
                          \E x \in T : Cardinality({y \in T : y < x}) = m
           P == {m \in Nat : Ranked(m)}
<1>1. 0 \in P
  <2> SUFFICES ASSUME NEW T \in SUBSET Nat, IsFiniteSet(T), 0 < Cardinality(T)
               PROVE  \E x \in T : Cardinality({y \in T : y < x}) = 0
    OBVIOUS
  <2>1. T # {}
    BY FS_EmptySet
  <2>2. Min(T) \in T /\ \A x \in T : Min(T) <= x
    BY <2>1, LeastNumber
  <2>3. {y \in T : y < Min(T)} = {}
    <3> DEFINE least == Min(T)
    <3>1. least \in Nat /\ \A x \in T : x \in Nat /\ least <= x
      BY <2>2
    <3> HIDE DEF least
    <3>2. \A x \in T : ~(x < least)
      BY <3>1
    <3>3. QED
      BY <3>2 DEF least
  <2>4. QED
    BY <2>2, <2>3, FS_EmptySet
<1>2. ASSUME NEW m \in P PROVE m + 1 \in P
  <2> SUFFICES ASSUME NEW T \in SUBSET Nat, IsFiniteSet(T), m + 1 < Cardinality(T)
               PROVE  \E x \in T : Cardinality({y \in T : y < x}) = m + 1
    OBVIOUS
  <2>0. m \in Nat /\ Cardinality(T) \in Nat
    BY FS_CardinalityType
  <2>1. T # {}
    BY <2>0, FS_EmptySet
  <2> DEFINE least == Min(T)
             U     == T \ {least}
  <2>2. least \in T /\ \A x \in T : least <= x
    BY <2>1, LeastNumber
  <2> HIDE DEF least
  <2>3. /\ U \in SUBSET Nat /\ IsFiniteSet(U)
        /\ Cardinality(U) = Cardinality(T) - 1
    BY <2>2, FS_RemoveElement
  <2>4. PICK x \in U : Cardinality({y \in U : y < x}) = m
    BY <1>2, <2>0, <2>3
  <2> DEFINE V == {y \in U : y < x}
  <2>5. {y \in T : y < x} = V \cup {least} /\ least \notin V
    <3>1. x \in Nat /\ least \in Nat /\ least <= x /\ x # least
      BY <2>2, <2>4
    <3>2. QED
      BY <2>2, <3>1
  <2>6. IsFiniteSet(V)
    <3>1. V \in SUBSET U
      OBVIOUS
    <3>2. QED
      BY <2>3, <3>1, FS_Subset
  <2>7. Cardinality(V \cup {least}) = m + 1
    <3>1. Cardinality(V) = m
      BY <2>4
    <3> HIDE DEF V
    <3>2. QED
      BY <2>5, <2>6, <3>1, FS_AddElement
  <2>8. QED
    BY <2>5, <2>7
<1>3. P = Nat
  <2>1. P \in SUBSET Nat
    OBVIOUS
  <2> HIDE DEF P
  <2>2. QED
    BY <1>1, <1>2, <2>1, SetInduction
<1>4. n \in P
  BY <1>3
<1>5. QED
  BY <1>4

LEMMA NthFacts ==
  ASSUME NEW S \in SUBSET Nat, IsFiniteSet(S), NEW n \in 1..Cardinality(S)
  PROVE  Nth(S, n) \in S /\ Cardinality({y \in S : y < Nth(S, n)}) = n - 1
<1>1. n - 1 \in Nat /\ n - 1 < Cardinality(S)
  BY FS_CardinalityType
<1>2. \E x \in S : Cardinality({y \in S : y < x}) = n - 1
  BY <1>1, NthExists
<1>3. QED
  BY <1>2 DEF Nth

(* Nothing lies between two neighbours.                                    *)
LEMMA NthNeighbours ==
  ASSUME NEW S \in SUBSET Nat, IsFiniteSet(S), NEW n \in 1..(Cardinality(S) - 1)
  PROVE  /\ Nth(S, n) \in S /\ Nth(S, n + 1) \in S /\ Nth(S, n) < Nth(S, n + 1)
         /\ \A x \in S : ~(Nth(S, n) < x /\ x < Nth(S, n + 1))
<1>0. Cardinality(S) \in Nat
  BY FS_CardinalityType
<1>1. n \in 1..Cardinality(S) /\ n + 1 \in 1..Cardinality(S)
  BY <1>0
<1> DEFINE a == Nth(S, n)
           b == Nth(S, n + 1)
           Below(x) == {y \in S : y < x}
<1>2. /\ a \in S /\ Cardinality(Below(a)) = n - 1
      /\ b \in S /\ Cardinality(Below(b)) = n
  <2>1. (n + 1) - 1 = n
    BY <1>1
  <2>2. QED
    BY <1>1, <2>1, NthFacts
<1>3. a \in Nat /\ b \in Nat
  BY <1>2
<1> HIDE DEF a, b
<1>4. ASSUME NEW x \in S PROVE IsFiniteSet(Below(x)) /\ Cardinality(Below(x)) \in Nat
  <2>1. Below(x) \in SUBSET S
    OBVIOUS
  <2>2. QED
    BY <2>1, FS_Subset, FS_CardinalityType
<1>5. a < b
  <2> SUFFICES ASSUME b <= a PROVE FALSE
    BY <1>3
  <2>1. Below(b) \in SUBSET Below(a)
    <3>1. ASSUME NEW y \in S, y < b PROVE y < a
      <4>1. y \in Nat
        OBVIOUS
      <4>2. QED
        BY <1>3, <3>1, <4>1
    <3>2. QED
      BY <3>1
  <2>2. Cardinality(Below(b)) <= Cardinality(Below(a))
    <3> HIDE DEF Below
    <3>1. QED
      BY <1>2, <1>4, <2>1, FS_Subset
  <2>3. QED
    BY <1>1, <1>2, <2>2
<1>6. ASSUME NEW x \in S, a < x, x < b PROVE FALSE
  <2> DEFINE Two == Below(a) \cup {a}
  <2>0. x \in Nat
    OBVIOUS
  <2>1. Two \cup {x} \in SUBSET Below(b) /\ x \notin Two /\ a \notin Below(a)
    <3>1. ASSUME NEW y \in S, y < a PROVE y < b /\ y # x /\ y # a
      <4>1. y \in Nat
        OBVIOUS
      <4>2. QED
        BY <1>3, <1>5, <1>6, <2>0, <3>1, <4>1
    <3>2. a \in S /\ a < b /\ a # x /\ x \in S /\ x < b
      BY <1>2, <1>3, <1>5, <1>6, <2>0
    <3>3. \A y \in Below(a) : y \in S /\ y < a
      OBVIOUS
    <3>4. QED
      BY <3>1, <3>2, <3>3
  <2>2. IsFiniteSet(Two) /\ Cardinality(Two) = n
    <3> HIDE DEF Below
    <3>1. QED
      BY <1>1, <1>2, <1>4, <2>1, FS_AddElement
  <2>3. Cardinality(Two \cup {x}) = n + 1
    <3> HIDE DEF Two
    <3>1. QED
      BY <2>1, <2>2, FS_AddElement
  <2>4. Cardinality(Two \cup {x}) <= n
    <3> HIDE DEF Two, Below
    <3>1. QED
      BY <1>2, <1>4, <2>1, FS_Subset
  <2>5. QED
    BY <1>1, <2>3, <2>4
<1>7. QED
  BY <1>2, <1>5, <1>6 DEF a, b

(* A function on 1..n is a sequence of length n.                           *)
LEMMA SequenceOf ==
  ASSUME NEW S, NEW n \in Nat, NEW f \in [1..n -> S]
  PROVE  f \in Seq(S) /\ Len(f) = n
<1>1. f \in Seq(S)
  OBVIOUS
<1>2. Len(f) \in Nat /\ DOMAIN f = 1..Len(f)
  BY <1>1, LenProperties
<1>3. 1..Len(f) = 1..n
  BY <1>2
<1>4. Len(f) \in Nat /\ \A i \in Nat : i \in 1..Len(f) <=> i \in 1..n
  BY <1>2, <1>3
<1>5. Len(f) <= n
  BY <1>4
<1>6. n <= Len(f)
  BY <1>4
<1>7. QED
  BY <1>1, <1>4, <1>5, <1>6

-----------------------------------------------------------------------------
(* The text work, as far as it matters here: what is made of a text has no *)
(* tokens but those of the text, and the dot.                              *)

LEMMA SubSeqKeeps ==
  ASSUME NEW T, NEW t \in Seq(T), NEW m \in Nat \ {0}, NEW n \in Int, n <= Len(t)
  PROVE  SubSeq(t, m, n) \in Seq(T)
<1>1. \A i \in m..n : t[i] \in T
  <2>1. Len(t) \in Nat
    BY LenProperties
  <2>2. \A i \in m..n : i \in 1..Len(t)
    BY <2>1
  <2>3. QED
    BY <2>2, ElementOfSeq
<1>2. QED
  BY <1>1, SubSeqProperties

LEMMA EraseKeeps ==
  ASSUME NEW T, NEW t \in Seq(T), NEW token
  PROVE  erase_all(t, token) \in Seq(T)
<1> DEFINE kept == {i \in 1..Len(t) : t[i] # token}
<1>1. Len(t) \in Nat
  BY LenProperties
<1>2. kept \in SUBSET (1..Len(t)) /\ kept \in SUBSET Nat
  BY <1>1
<1> HIDE DEF kept
<1>3. IsFiniteSet(kept) /\ Cardinality(kept) \in Nat
  <2>1. IsFiniteSet(1..Len(t))
    BY <1>1, FS_Interval
  <2>2. QED
    BY <1>2, <2>1, FS_Subset, FS_CardinalityType
<1>4. ASSUME NEW n \in 1..Cardinality(kept) PROVE t[Nth(kept, n)] \in T
  <2>1. Nth(kept, n) \in kept
    BY <1>2, <1>3, NthFacts
  <2>2. Nth(kept, n) \in 1..Len(t)
    BY <1>2, <2>1
  <2>3. QED
    BY <2>2, ElementOfSeq
<1>5. [n \in 1..Cardinality(kept) |-> t[Nth(kept, n)]] \in Seq(T)
  BY <1>3, <1>4, IsASeq
<1>6. QED
  BY <1>5 DEF erase_all, kept

LEMMA FoundAt ==
  ASSUME NEW T, NEW t \in Seq(T), NEW word, Found(t, word) # {}
  PROVE  Min(Found(t, word)) \in 1..(Len(t) - 2) /\ Len(t) \in Nat
<1>1. Len(t) \in Nat
  BY LenProperties
<1>2. Found(t, word) \in SUBSET (1..(Len(t) - 2))
  BY DEF Found
<1> DEFINE S == Found(t, word)
<1> HIDE DEF S
<1>3. S \in SUBSET (1..(Len(t) - 2)) /\ S \in SUBSET Nat /\ S # {}
  <2>1. S \in SUBSET (1..(Len(t) - 2)) /\ S # {}
    BY <1>2 DEF S
  <2>2. QED
    BY <2>1
<1>4. Min(S) \in S
  BY <1>3, LeastNumber
<1>5. QED
  BY <1>1, <1>3, <1>4 DEF S

LEMMA BeforeAndAfterKeep ==
  ASSUME NEW T, NEW t \in Seq(T)
  PROVE  /\ get_all_before_import(t) \in Seq(T)
         /\ get_all_after_import(t) \in Seq(T)
<1>1. CASE Found(t, "import") = {}
  BY <1>1, EmptySeq DEF get_all_before_import, get_all_after_import
<1>2. CASE Found(t, "import") # {}
  <2> DEFINE n == Min(Found(t, "import"))
  <2>1. n \in 1..(Len(t) - 2) /\ Len(t) \in Nat
    BY <1>2, FoundAt
  <2> HIDE DEF n
  <2>2. SubSeq(t, 1, n - 1) \in Seq(T) /\ SubSeq(t, n + 3, Len(t)) \in Seq(T)
    BY <2>1, SubSeqKeeps
  <2>3. QED
    BY <1>2, <2>2 DEF get_all_before_import, get_all_after_import, n
<1>3. QED
  BY <1>1, <1>2

LEMMA WithoutAsKeeps ==
  ASSUME NEW T, NEW t \in Seq(T)
  PROVE  WithoutAsAndBlanks(t) \in Seq(T)
<1>1. remove_as_statements(t) \in Seq(T)
  <2>1. CASE Found(t, "as") = {}
    BY <2>1 DEF remove_as_statements
  <2>2. CASE Found(t, "as") # {}
    <3> DEFINE n == Min(Found(t, "as"))
    <3>1. n \in 1..(Len(t) - 2) /\ Len(t) \in Nat
      BY <2>2, FoundAt
    <3> HIDE DEF n
    <3>2. SubSeq(t, 1, n - 1) \in Seq(T)
      BY <3>1, SubSeqKeeps
    <3>3. QED
      BY <2>2, <3>2 DEF remove_as_statements, n
  <2>3. QED
    BY <2>1, <2>2
<1>2. QED
  BY <1>1, EraseKeeps DEF WithoutAsAndBlanks

LEMMA FirstOtherFacts ==
  ASSUME NEW T, NEW t \in Seq(T), NEW from \in 1..(Len(t) + 1), NEW token
  PROVE  FirstOther(t, from, token) \in from..(Len(t) + 1)
<1> DEFINE S == {i \in from..(Len(t) + 1) : i = Len(t) + 1 \/ t[i] # token}
<1>1. Len(t) \in Nat
  BY LenProperties
<1>2. S \in SUBSET Nat /\ S # {} /\ S \subseteq from..(Len(t) + 1)
  <2>1. Len(t) + 1 \in S
    BY <1>1
  <2>2. QED
    BY <1>1, <2>1
<1> HIDE DEF S
<1>3. Min(S) \in S
  BY <1>2, LeastNumber
<1>4. QED
  BY <1>2, <1>3 DEF FirstOther, S

LEMMA WithoutDotsKeeps ==
  ASSUME NEW T, NEW t \in Seq(T)
  PROVE  remove_prepended_dots(t) \in Seq(T)
<1>1. Len(t) \in Nat /\ 1 \in 1..(Len(t) + 1)
  BY LenProperties
<1>2. DotsBegin(t) \in 1..(Len(t) + 1)
  BY <1>1, FirstOtherFacts DEF DotsBegin
<1>3. DotsEnd(t) \in DotsBegin(t)..(Len(t) + 1)
  BY <1>2, FirstOtherFacts DEF DotsEnd
<1>4. SubSeq(t, DotsEnd(t), Len(t)) \in Seq(T)
  <2>1. DotsEnd(t) \in Nat \ {0} /\ Len(t) \in Int /\ Len(t) <= Len(t)
    BY <1>1, <1>2, <1>3
  <2>2. QED
    BY <2>1, SubSeqKeeps
<1>5. QED
  BY <1>4 DEF remove_prepended_dots

(* The constructor, for any statement but one with from.                   *)
LEMMA SingleKeeps ==
  ASSUME NEW T, "." \in T, NEW t \in Seq(T), NEW idx, idx # FROM_IMPORT
  PROVE  /\ Single(t, idx).modified_statement \in Seq(T)
         /\ Single(t, idx).regex_idx = idx
<1>1. Single(t, idx) = OfMarked(idx, Marked(idx, t))
  BY DEF Single, WithoutStar, OfStarless
<1> DEFINE u == Marked(idx, t)
<1>2. u \in Seq(T)
  <2>1. CASE idx = ALL_IMPORT
    <3>1. erase_all(t, Quote) \in Seq(T)
      BY EraseKeeps
    <3>2. <<".">> \in Seq(T)
      OBVIOUS
    <3>3. <<".">> \o erase_all(t, Quote) \in Seq(T)
      BY <3>1, <3>2, ConcatProperties
    <3>4. QED
      BY <2>1, <3>3 DEF Marked, add_relative_dot_in_front
  <2>2. CASE idx # ALL_IMPORT
    BY <2>2 DEF Marked
  <2>3. QED
    BY <2>1, <2>2
<1> HIDE DEF u
<1>3. OfMarked(idx, u) = OfJoined(idx, is_relative_import(u), u)
  BY DEF OfMarked, JoinedImport
<1>4. /\ OfJoined(idx, is_relative_import(u), u).modified_statement
            \in {WithoutAsAndBlanks(u), WithoutAsAndBlanks(remove_prepended_dots(u))}
      /\ OfJoined(idx, is_relative_import(u), u).regex_idx = idx
  BY DEF OfJoined, Members
<1>5. QED
  BY <1>1, <1>2, <1>3, <1>4, WithoutAsKeeps, WithoutDotsKeeps DEF u

LEMMA NoCommaIn ==
  ASSUME NEW T, "," \notin T, NEW t \in Seq(T)
  PROVE  ~contains(t, ",")
BY ElementOfSeq DEF contains

(* The parts of a list have no comma.                                      *)
LEMMA PartsOfList ==
  ASSUME NEW T, NEW t \in Seq(T), NEW parts, parts = split_by_comma(t)
  PROVE  /\ Len(parts) \in Nat
         /\ \A n \in 1..Len(parts) : parts[n] \in Seq(T \ {","})
<1> DEFINE cuts == {0, Len(t) + 1} \cup {i \in 1..Len(t) : t[i] = ","}
<1>1. Len(t) \in Nat
  BY LenProperties
<1>2. /\ cuts \in SUBSET (0..(Len(t) + 1)) /\ cuts \in SUBSET Nat /\ cuts # {}
      /\ \A i \in 1..Len(t) : t[i] = "," => i \in cuts
  <2>1. 0 \in 0..(Len(t) + 1) /\ Len(t) + 1 \in 0..(Len(t) + 1)
    BY <1>1
  <2>2. 1..Len(t) \subseteq 0..(Len(t) + 1) /\ 0..(Len(t) + 1) \subseteq Nat
    BY <1>1
  <2>3. QED
    BY <2>1, <2>2
<1>3. parts = SplitAt(t, cuts)
  BY DEF split_by_comma
<1> HIDE DEF cuts
<1>4. IsFiniteSet(cuts) /\ Cardinality(cuts) \in Nat \ {0}
  <2>1. IsFiniteSet(0..(Len(t) + 1))
    BY <1>1, FS_Interval
  <2>2. QED
    BY <1>2, <2>1, FS_Subset, FS_CardinalityType, FS_EmptySet
<1>5. ASSUME NEW n \in 1..(Cardinality(cuts) - 1)
      PROVE  SubSeq(t, Nth(cuts, n) + 1, Nth(cuts, n + 1) - 1) \in Seq(T \ {","})
  <2> DEFINE a == Nth(cuts, n)
             b == Nth(cuts, n + 1)
  <2>1. /\ a \in cuts /\ b \in cuts /\ a < b
        /\ \A x \in cuts : ~(a < x /\ x < b)
    BY <1>2, <1>4, NthNeighbours
  <2> HIDE DEF a, b
  <2>2. a \in 0..(Len(t) + 1) /\ b \in 0..(Len(t) + 1)
    BY <1>2, <2>1
  <2>3. ASSUME NEW i \in (a + 1)..(b - 1) PROVE t[i] \in T \ {","}
    <3>1. i \in 1..Len(t) /\ a < i /\ i < b
      BY <1>1, <2>2
    <3>2. i \notin cuts
      BY <2>1, <3>1
    <3>3. t[i] \in T
      BY <3>1, ElementOfSeq
    <3>4. QED
      BY <1>2, <3>1, <3>2, <3>3
  <2>4. SubSeq(t, a + 1, b - 1) \in Seq(T \ {","})
    <3>1. a + 1 \in Int /\ b - 1 \in Int
      BY <1>1, <2>2
    <3>2. QED
      BY <2>3, <3>1, SubSeqProperties
  <2>5. QED
    BY <2>4 DEF a, b
<1> DEFINE k == Cardinality(cuts) - 1
           part(n) == SubSeq(t, Nth(cuts, n) + 1, Nth(cuts, n + 1) - 1)
<1>6. k \in Nat /\ \A n \in 1..k : part(n) \in Seq(T \ {","})
  <2>1. k \in Nat
    BY <1>4
  <2>2. \A n \in 1..k : part(n) \in Seq(T \ {","})
    BY <1>5
  <2>3. QED
    BY <2>1, <2>2
<1>7. parts = [n \in 1..k |-> part(n)]
  BY <1>3 DEF SplitAt
<1> HIDE DEF k, part
<1>8. Len(parts) = k /\ \A n \in 1..k : parts[n] = part(n)
  <2> DEFINE Q == Seq(T \ {","})
  <2>1. \A n \in 1..k : part(n) \in Q
    BY <1>6
  <2> HIDE DEF Q
  <2>2. [n \in 1..k |-> part(n)] \in [1..k -> Q]
    BY <2>1
  <2>3. Len(parts) = k
    BY <1>6, <1>7, <2>2, SequenceOf
  <2>4. QED
    BY <1>7, <2>3
<1>9. QED
  BY <1>6, <1>8

-----------------------------------------------------------------------------
(* The calls of add_edge: those of process_stream, and those for the       *)
(* children of a list, which are no lists themselves.                      *)

Calls == Reported \cup LeafCalls

LEMMA CallsOfFacts ==
  ASSUME NEW r \in Reports
  PROVE  CallsOf(r) \in Seq(Reported)
<1> DEFINE e(i) == Call(Text(r[i].import), RegexOf(r[i].import), r[i].line_no)
           n == Len(r)
<1>1. n \in Nat
  <2>1. r \in Seq({r[i] : i \in DOMAIN r})
    BY TextAssumption
  <2>2. QED
    BY <2>1, LenProperties
<1>2. CallsOf(r) = [i \in 1..n |-> e(i)]
  BY DEF CallsOf
<1>3. \A i \in 1..n : e(i) \in Reported
  <2> SUFFICES ASSUME NEW i \in 1..n PROVE e(i) \in Reported
    OBVIOUS
  <2>1. CallsOf(r)[i] = e(i)
    BY <1>2
  <2>2. QED
    BY <2>1 DEF Reported
<1> HIDE DEF e, n
<1>4. [i \in 1..n |-> e(i)] \in [1..n -> Reported]
  BY <1>3
<1>5. QED
  BY <1>1, <1>2, <1>4, SequenceOf

LEMMA ChildTextKeeps ==
  ASSUME NEW T, "." \in T, NEW text, NEW idx, NEW part \in Seq(T),
         idx = FROM_IMPORT => get_all_before_import(text) \in Seq(T)
  PROVE  ChildText(text, idx, part) \in Seq(T)
<1>0. <<".">> \in Seq(T)
  OBVIOUS
<1>1. CASE idx = FROM_IMPORT
  <2>1. get_all_before_import(text) \o <<".">> \in Seq(T)
    BY <1>0, <1>1, ConcatProperties
  <2>2. (get_all_before_import(text) \o <<".">>) \o part \in Seq(T)
    BY <2>1, ConcatProperties
  <2> DEFINE joined == get_all_before_import(text) \o <<".">> \o part
  <2>3. ChildText(text, idx, part) = erase_all(joined, " ")
    BY <1>1 DEF ChildText, FROM_IMPORT, ALL_IMPORT
  <2>4. joined \in Seq(T)
    BY <2>2
  <2> HIDE DEF joined
  <2>5. QED
    BY <2>3, <2>4, EraseKeeps
<1>2. CASE idx = ALL_IMPORT
  <2>1. erase_all(part, Quote) \in Seq(T)
    BY EraseKeeps
  <2>2. <<".">> \o erase_all(part, Quote) \in Seq(T)
    BY <1>0, <2>1, ConcatProperties
  <2>3. QED
    BY <1>2, <2>2 DEF ChildText, add_relative_dot_in_front, FROM_IMPORT, ALL_IMPORT
<1>3. CASE idx # FROM_IMPORT /\ idx # ALL_IMPORT
  BY <1>3 DEF ChildText
<1>4. QED
  BY <1>1, <1>2, <1>3

LEMMA ChildrenAreSingle ==
  ASSUME NEW call \in Reported
  PROVE  /\ Len(ChildCalls(call)) \in Nat
         /\ DOMAIN ChildCalls(call) = 1..Len(ChildCalls(call))
         /\ \A i \in 1..Len(ChildCalls(call)) : ~IsSplit(ChildCalls(call)[i])
<1> DEFINE text == call.statement
           idx  == call.idx
           U    == {text[i] : i \in DOMAIN text} \cup {"."}
           T    == U \ {","}
           list == IF idx = FROM_IMPORT THEN get_all_after_import(text) ELSE text
           parts == split_by_comma(list)
           n     == Len(parts)
           child(i) == Single(ChildText(text, idx, parts[i]), ChildIdx(idx))
<1>1. text \in Seq(U)
  <2> DEFINE V == {text[i] : i \in DOMAIN text}
  <2>1. text \in Seq(V) /\ V \subseteq U
    BY TextAssumption
  <2> HIDE DEF U, V
  <2>2. QED
    BY <2>1, SeqMonotonic
<1>2. "." \in T /\ "," \notin T /\ T = U \ {","}
  OBVIOUS
<1>3. idx = FROM_IMPORT => get_all_before_import(text) \in Seq(T)
  <2> SUFFICES ASSUME idx = FROM_IMPORT PROVE get_all_before_import(text) \in Seq(T)
    OBVIOUS
  <2> DEFINE before == get_all_before_import(text)
  <2>1. before \in Seq(U) /\ ~contains(before, ",")
    <3>1. ~contains(before, ",")
      BY TextAssumption
    <3> HIDE DEF U
    <3>2. before \in Seq(U)
      BY <1>1, BeforeAndAfterKeep
    <3>3. QED
      BY <3>1, <3>2
  <2> HIDE DEF before, U
  <2>2. Len(before) \in Nat /\ before \in [1..Len(before) -> U]
    BY <2>1, LenProperties
  <2>3. before \in [1..Len(before) -> T]
    BY <2>1, <2>2 DEF contains
  <2> HIDE DEF T
  <2>4. before \in Seq(T)
    BY <2>2, <2>3, SequenceOf
  <2>5. QED
    BY <2>4 DEF before
<1> HIDE DEF U
<1>4. list \in Seq(U)
  BY <1>1, BeforeAndAfterKeep
<1> HIDE DEF list
<1>5. n \in Nat /\ \A i \in 1..n : parts[i] \in Seq(U \ {","})
  BY <1>4, PartsOfList
<1>6. ChildIdx(idx) # FROM_IMPORT
  BY DEF ChildIdx, IMPORT, FROM_IMPORT
<1> HIDE DEF T, parts
<1>7. ASSUME NEW i \in 1..n
      PROVE  /\ child(i).modified_statement \in Seq(T)
             /\ child(i).regex_idx # FROM_IMPORT
  <2>1. ChildText(text, idx, parts[i]) \in Seq(T)
    <3>1. parts[i] \in Seq(T)
      BY <1>2, <1>5
    <3> HIDE DEF text, idx
    <3>2. QED
      BY <1>2, <1>3, <3>1, ChildTextKeeps
  <2> HIDE DEF text, idx
  <2>2. QED
    BY <1>2, <1>6, <2>1, SingleKeeps
<1> DEFINE children == [i \in 1..n |-> child(i)]
           cc(i) == Call(child(i).modified_statement, child(i).regex_idx, call.line_no)
<1>8. ASSUME NEW i \in 1..n PROVE ~IsSplit(cc(i))
  <2> HIDE DEF child
  <2>1. cc(i).statement = child(i).modified_statement /\ cc(i).idx = child(i).regex_idx
    BY DEF Call
  <2>2. ~contains(child(i).modified_statement, ",")
    BY <1>2, <1>7, NoCommaIn
  <2>3. QED
    BY <1>7, <2>1, <2>2 DEF IsSplit, contained_multiple_imports, WithoutStar
<1>9. ChildCalls(call) = CallsFor(children, call.line_no)
  BY DEF ChildCalls, child_statements, ChildrenOf, parts, list
<1> HIDE DEF child, n
<1>10. DOMAIN children = 1..n /\ \A i \in 1..n : children[i] = child(i)
  OBVIOUS
<1> HIDE DEF children
<1>11. Len(children) = n
  <2> DEFINE S == {child(i) : i \in 1..n}
  <2>1. children \in [1..n -> S]
    BY DEF children
  <2> HIDE DEF S
  <2>2. QED
    BY <1>5, <2>1, SequenceOf
<1>12. CallsFor(children, call.line_no) = [i \in 1..n |-> cc(i)]
  BY <1>10, <1>11 DEF CallsFor
<1> HIDE DEF cc
<1> DEFINE C == [i \in 1..n |-> cc(i)]
           S == {cc(i) : i \in 1..n}
<1>13. C \in [1..n -> S] /\ \A i \in 1..n : C[i] = cc(i)
  OBVIOUS
<1> HIDE DEF S
<1>14. Len(C) = n /\ DOMAIN C = 1..n
  BY <1>5, <1>13, SequenceOf
<1>15. ChildCalls(call) = C
  BY <1>9, <1>12
<1> HIDE DEF C
<1>16. QED
  BY <1>5, <1>8, <1>13, <1>14, <1>15

LEMMA ExpansionFacts ==
  ASSUME NEW call \in Reported
  PROVE  /\ Expansion[call] \in Seq(LeafCalls)
         /\ ~IsSplit(call) => Expansion[call] = <<call>>
         /\ \A i \in 1..Len(Expansion[call]) : ~IsSplit(Expansion[call][i])
<1>1. Expansion[call] = IF IsSplit(call) THEN ChildCalls(call) ELSE <<call>>
  BY DEF Expansion
<1> DEFINE e == Expansion[call]
<1>2. /\ Len(e) \in Nat /\ DOMAIN e = 1..Len(e)
      /\ \A i \in 1..Len(e) : ~IsSplit(e[i])
  <2>1. CASE IsSplit(call)
    <3>1. e = ChildCalls(call)
      BY <1>1, <2>1
    <3> HIDE DEF e
    <3>2. QED
      BY <3>1, ChildrenAreSingle
  <2>2. CASE ~IsSplit(call)
    <3>1. e = <<call>>
      BY <1>1, <2>2
    <3> HIDE DEF e
    <3>2. Len(e) = 1 /\ DOMAIN e = 1..1 /\ e[1] = call
      BY <3>1
    <3>3. QED
      BY <2>2, <3>2
  <2>3. QED
    BY <2>1, <2>2
<1>3. \A i \in 1..Len(e) : e[i] \in LeafCalls
  BY DEF LeafCalls, Elements
<1>4. e = [i \in 1..Len(e) |-> e[i]]
  <2>1. CASE IsSplit(call)
    <3>1. e = ChildCalls(call)
      BY <1>1, <2>1
    <3>2. ChildCalls(call) = [i \in 1..Len(child_statements(call.statement, call.idx)) |->
             Call(child_statements(call.statement, call.idx)[i].modified_statement,
                  child_statements(call.statement, call.idx)[i].regex_idx, call.line_no)]
      BY DEF ChildCalls, CallsFor
    <3> HIDE DEF e
    <3>3. QED
      BY <1>2, <3>1, <3>2
  <2>2. CASE ~IsSplit(call)
    <3>1. e = <<call>>
      BY <1>1, <2>2
    <3> HIDE DEF e
    <3>2. QED
      BY <1>2, <3>1
  <2>3. QED
    BY <2>1, <2>2
<1>5. e \in Seq(LeafCalls)
  <2> HIDE DEF e
  <2>1. e \in [1..Len(e) -> LeafCalls]
    BY <1>3, <1>4
  <2>2. QED
    BY <1>2, <2>1, SequenceOf
<1>6. QED
  BY <1>1, <1>2, <1>5

LEMMA LeafIsSingle ==
  ASSUME NEW c \in LeafCalls
  PROVE  ~IsSplit(c)
<1>1. PICK call \in Reported : c \in Elements(Expansion[call])
  BY DEF LeafCalls
<1>2. PICK i \in 1..Len(Expansion[call]) : c = Expansion[call][i]
  BY <1>1 DEF Elements
<1>3. QED
  BY <1>2, ExpansionFacts

LEMMA LeavesOfFacts ==
  ASSUME NEW c \in Calls
  PROVE  /\ LeavesOf(c) \in Seq(LeafCalls)
         /\ IsSplit(c) => c \in Reported /\ LeavesOf(c) = Expansion[c]
         /\ ~IsSplit(c) => c \in LeafCalls /\ LeavesOf(c) = <<c>>
<1>1. CASE c \in Reported
  <2>1. LeavesOf(c) = Expansion[c]
    BY <1>1 DEF LeavesOf
  <2>2. ~IsSplit(c) => c \in LeafCalls
    <3>1. SUFFICES ASSUME ~IsSplit(c) PROVE c \in LeafCalls
      OBVIOUS
    <3>2. Expansion[c] = <<c>> /\ <<c>>[1] = c /\ Expansion[c] \in Seq(LeafCalls) /\ Len(<<c>>) = 1
      BY <1>1, <3>1, ExpansionFacts
    <3>3. <<c>> \in Seq(LeafCalls) /\ 1 \in 1..Len(<<c>>)
      BY <3>2
    <3>4. QED
      BY <3>2, <3>3, ElementOfSeq
  <2>3. QED
    BY <1>1, <2>1, <2>2, ExpansionFacts
<1>2. CASE c \notin Reported
  <2>1. c \in LeafCalls /\ ~IsSplit(c) /\ LeavesOf(c) = <<c>>
    BY <1>2, LeafIsSingle DEF Calls, LeavesOf
  <2>2. <<c>> \in Seq(LeafCalls)
    BY <2>1
  <2>3. QED
    BY <2>1, <2>2
<1>3. QED
  BY <1>1, <1>2

-----------------------------------------------------------------------------
(* FlattenSeq, one sequence after the other.                               *)

LEMMA FlattenFunction ==
  ASSUME NEW S, NEW n \in Nat, NEW s \in [1..n -> Seq(S)]
  PROVE  \E f : f = [i \in 1..n |-> IF i = 1 THEN s[i] ELSE f[i - 1] \o s[i]]
<1> DEFINE step(f, m) == [i \in 1..m |-> IF i = 1 THEN s[i] ELSE f[i - 1] \o s[i]]
           P == {m \in Nat : \E f : f = step(f, m)}
<1>1. 0 \in P
  <2> DEFINE f == [i \in 1..0 |-> s[i]]
  <2>1. f = step(f, 0)
    <3>1. 1..0 = {}
      OBVIOUS
    <3>2. QED
      BY <3>1
  <2> HIDE DEF f, step
  <2>2. QED
    BY <2>1
<1>2. ASSUME NEW m \in P PROVE m + 1 \in P
  <2>1. PICK f : f = step(f, m)
    OBVIOUS
  <2>2. m \in Nat
    OBVIOUS
  <2> DEFINE last == IF m + 1 = 1 THEN s[m + 1] ELSE f[m] \o s[m + 1]
             g == [i \in 1..(m + 1) |-> IF i = m + 1 THEN last ELSE f[i]]
  <2>3. ASSUME NEW i \in 1..(m + 1)
        PROVE  g[i] = IF i = 1 THEN s[i] ELSE g[i - 1] \o s[i]
    <3>1. CASE i = m + 1
      <4>1. g[i] = last
        BY <3>1
      <4>2. CASE m = 0
        BY <3>1, <4>1, <4>2
      <4>3. CASE m # 0
        <5>1. m \in 1..(m + 1) /\ m # m + 1 /\ i - 1 = m /\ i # 1
          BY <2>2, <3>1, <4>3
        <5>2. g[m] = f[m]
          BY <5>1
        <5>3. last = f[m] \o s[m + 1]
          BY <3>1, <5>1
        <5> HIDE DEF g, last
        <5>4. QED
          BY <3>1, <4>1, <5>1, <5>2, <5>3
      <4>4. QED
        BY <4>2, <4>3
    <3>2. CASE i # m + 1
      <4>1. i \in 1..m /\ g[i] = f[i]
        BY <2>2, <3>2
      <4>2. f[i] = IF i = 1 THEN s[i] ELSE f[i - 1] \o s[i]
        BY <2>1, <4>1
      <4>3. CASE i = 1
        BY <4>1, <4>2, <4>3
      <4>4. CASE i # 1
        <5>1. i - 1 \in 1..(m + 1) /\ i - 1 # m + 1
          BY <2>2, <4>1, <4>4
        <5>2. g[i - 1] = f[i - 1]
          BY <5>1
        <5> HIDE DEF g
        <5>3. QED
          BY <4>1, <4>2, <4>4, <5>2
      <4>5. QED
        BY <4>3, <4>4
    <3>3. QED
      BY <3>1, <3>2
  <2>4. g = step(g, m + 1)
    <3>1. g = [i \in 1..(m + 1) |-> g[i]]
      OBVIOUS
    <3> HIDE DEF g
    <3>2. QED
      BY <2>3, <3>1
  <2> HIDE DEF g, step
  <2>5. QED
    BY <2>2, <2>4
<1>3. P = Nat
  <2>1. P \in SUBSET Nat
    OBVIOUS
  <2> HIDE DEF P
  <2>2. QED
    BY <1>1, <1>2, <2>1, SetInduction
<1>4. n \in P
  BY <1>3
<1>5. QED
  BY <1>4

(* The function that FlattenSeq is the last value of.                      *)
Flat(s) ==
  CHOOSE f : f = [i \in 1..Len(s) |-> IF i = 1 THEN s[i] ELSE f[i - 1] \o s[i]]

LEMMA FlatFacts ==
  ASSUME NEW S, NEW s \in Seq(Seq(S))
  PROVE  /\ Len(s) \in Nat
         /\ s # <<>> => Len(s) # 0 /\ FlattenSeq(s) = Flat(s)[Len(s)]
         /\ \A i \in 1..Len(s) : s[i] \in Seq(S)
         /\ \A i \in 1..Len(s) :
              Flat(s)[i] = IF i = 1 THEN s[i] ELSE Flat(s)[i - 1] \o s[i]
         /\ \A i \in 1..Len(s) : Flat(s)[i] \in Seq(S)
<1> DEFINE n == Len(s)
<1>1. n \in Nat /\ s \in [1..n -> Seq(S)] /\ DOMAIN s = 1..n
  BY LenProperties
<1>2. \A i \in 1..n : s[i] \in Seq(S)
  BY <1>1
<1>3. s # <<>> => n # 0 /\ FlattenSeq(s) = Flat(s)[n]
  <2>1. s # <<>> => n # 0
    BY EmptySeq
  <2>2. n # 0 => FlattenSeq(s) = Flat(s)[n]
    BY DEF FlattenSeq, Flat
  <2>3. QED
    BY <2>1, <2>2
<1>4. \A i \in 1..n : Flat(s)[i] = IF i = 1 THEN s[i] ELSE Flat(s)[i - 1] \o s[i]
  <2>1. \E f : f = [i \in 1..n |-> IF i = 1 THEN s[i] ELSE f[i - 1] \o s[i]]
    <3> HIDE DEF n
    <3>1. QED
      BY <1>1, FlattenFunction
  <2>2. Flat(s) = [i \in 1..n |-> IF i = 1 THEN s[i] ELSE Flat(s)[i - 1] \o s[i]]
    BY <2>1 DEF Flat
  <2> HIDE DEF n
  <2> DEFINE F == Flat(s)
  <2>3. F = [i \in 1..n |-> IF i = 1 THEN s[i] ELSE F[i - 1] \o s[i]]
    BY <2>2
  <2> HIDE DEF F
  <2>4. \A i \in 1..n : F[i] = IF i = 1 THEN s[i] ELSE F[i - 1] \o s[i]
    BY <2>3
  <2>5. QED
    BY <2>4 DEF F
<1> DEFINE F == Flat(s)
           P == {m \in Nat : m + 1 <= n => F[m + 1] \in Seq(S)}
<1> HIDE DEF F, n
<1>5. 0 \in P
  <2>1. 1 <= n => F[1] = s[1] /\ s[1] \in Seq(S)
    BY <1>1, <1>2, <1>4 DEF F
  <2>2. QED
    BY <2>1
<1>6. ASSUME NEW m \in P PROVE m + 1 \in P
  <2>1. m \in Nat /\ (m + 1 <= n => F[m + 1] \in Seq(S))
    OBVIOUS
  <2>2. ASSUME (m + 1) + 1 <= n PROVE F[(m + 1) + 1] \in Seq(S)
    <3> DEFINE k == (m + 1) + 1
    <3>1. k \in 1..n /\ k # 1 /\ k - 1 = m + 1 /\ m + 1 <= n
      BY <1>1, <2>1, <2>2
    <3>2. F[k] = F[k - 1] \o s[k]
      BY <1>4, <3>1 DEF F
    <3> HIDE DEF k
    <3>3. F[k - 1] \in Seq(S) /\ s[k] \in Seq(S)
      BY <1>2, <2>1, <3>1
    <3>4. F[k] \in Seq(S)
      BY <3>2, <3>3, ConcatProperties
    <3>5. QED
      BY <3>4 DEF k
  <2>3. QED
    BY <2>1, <2>2
<1>7. P = Nat
  <2>1. P \in SUBSET Nat
    OBVIOUS
  <2> HIDE DEF P
  <2>2. QED
    BY <1>5, <1>6, <2>1, SetInduction
<1>8. ASSUME NEW i \in 1..n PROVE F[i] \in Seq(S)
  <2>1. i - 1 \in Nat /\ (i - 1) + 1 = i /\ i <= n
    BY <1>1
  <2>2. i - 1 \in P
    <3> HIDE DEF P
    <3>1. QED
      BY <1>7, <2>1
  <2>3. QED
    BY <2>1, <2>2
<1>9. QED
  BY <1>1, <1>2, <1>3, <1>4, <1>8 DEF F, n

LEMMA FlattenType ==
  ASSUME NEW S, NEW s \in Seq(Seq(S))
  PROVE  FlattenSeq(s) \in Seq(S)
<1>1. CASE s = <<>>
  <2>1. FlattenSeq(s) = s
    BY <1>1, EmptySeq DEF FlattenSeq
  <2>2. QED
    BY <1>1, <2>1, EmptySeq
<1>2. CASE s # <<>>
  <2>1. Len(s) \in Nat /\ Len(s) # 0 /\ FlattenSeq(s) = Flat(s)[Len(s)]
    BY <1>2, FlatFacts
  <2>2. Len(s) \in 1..Len(s)
    BY <2>1
  <2>3. QED
    BY <2>1, <2>2, FlatFacts
<1>3. QED
  BY <1>1, <1>2

(* What comes first stays in front.                                        *)
LEMMA FlattenFirst ==
  ASSUME NEW S, NEW a \in Seq(S), NEW s \in Seq(Seq(S))
  PROVE  FlattenSeq(<<a>> \o s) = a \o FlattenSeq(s)
<1> DEFINE Q == Seq(S)
           t == <<a>> \o s
           n == Len(s)
<1>1. t \in Seq(Q) /\ Len(t) = n + 1 /\ t[1] = a /\ n \in Nat
      /\ \A i \in 1..n : t[i + 1] = s[i]
  <2>1. <<a>> \in Seq(Q) /\ Len(<<a>>) = 1 /\ <<a>>[1] = a /\ s \in Seq(Q)
    OBVIOUS
  <2> HIDE DEF Q
  <2>2. n \in Nat
    BY <2>1, LenProperties
  <2>3. QED
    BY <2>1, <2>2, ConcatProperties
<1>2. /\ \A i \in 1..(n + 1) : t[i] \in Seq(S)
      /\ \A i \in 1..(n + 1) : Flat(t)[i] = IF i = 1 THEN t[i] ELSE Flat(t)[i - 1] \o t[i]
      /\ t # <<>> => FlattenSeq(t) = Flat(t)[n + 1]
  <2>1. t \in Seq(Seq(S)) /\ Len(t) = n + 1
    BY <1>1
  <2> HIDE DEF t, n
  <2>2. QED
    BY <2>1, FlatFacts
<1>3. t # <<>>
  <2>1. Len(<<>>) = 0
    OBVIOUS
  <2>2. Len(t) # 0
    BY <1>1
  <2>3. QED
    BY <2>1, <2>2
<1>4. /\ \A i \in 1..n : s[i] \in Seq(S) /\ Flat(s)[i] \in Seq(S)
      /\ \A i \in 1..n : Flat(s)[i] = IF i = 1 THEN s[i] ELSE Flat(s)[i - 1] \o s[i]
      /\ s # <<>> => n # 0 /\ FlattenSeq(s) = Flat(s)[n]
  BY FlatFacts
<1> DEFINE F == Flat(t)
           G == Flat(s)
           P == {m \in Nat : m + 1 <= n => F[m + 2] = a \o G[m + 1]}
<1> HIDE DEF F, G, t, n
<1>5. 0 \in P
  <2>1. ASSUME 1 <= n PROVE F[2] = a \o G[1]
    <3>1. F[2] = F[1] \o t[2] /\ F[1] = a
      <4>1. 1 \in 1..(n + 1) /\ 2 \in 1..(n + 1) /\ 2 - 1 = 1
        BY <1>1, <2>1
      <4>2. F[1] = a
        BY <1>1, <1>2, <4>1 DEF F
      <4>3. F[2] = F[2 - 1] \o t[2]
        <5>1. \A i \in 1..(n + 1) : i # 1 => F[i] = F[i - 1] \o t[i]
          BY <1>2 DEF F
        <5>2. 2 # 1
          OBVIOUS
        <5>3. QED
          BY <4>1, <5>1, <5>2
      <4>4. QED
        BY <4>1, <4>2, <4>3
    <3>2. t[2] = s[1] /\ G[1] = s[1]
      <4>1. 1 \in 1..n /\ 1 + 1 = 2
        BY <1>1, <2>1
      <4>2. QED
        BY <1>1, <1>4, <4>1 DEF G
    <3>3. QED
      BY <3>1, <3>2
  <2>2. QED
    BY <2>1
<1>6. ASSUME NEW m \in P PROVE m + 1 \in P
  <2>1. m \in Nat /\ (m + 1 <= n => F[m + 2] = a \o G[m + 1])
    OBVIOUS
  <2>2. ASSUME (m + 1) + 1 <= n PROVE F[(m + 1) + 2] = a \o G[(m + 1) + 1]
    <3>1. /\ m + 1 <= n /\ m + 1 \in 1..n /\ m + 2 \in 1..n /\ m + 3 \in 1..(n + 1)
          /\ (m + 3) - 1 = m + 2 /\ (m + 2) - 1 = m + 1 /\ (m + 2) + 1 = m + 3
          /\ m + 3 # 1 /\ m + 2 # 1 /\ (m + 1) + 2 = m + 3 /\ (m + 1) + 1 = m + 2
      BY <1>1, <2>1, <2>2
    <3>2. F[m + 3] = F[m + 2] \o t[m + 3]
      <4>1. F[m + 3] = F[(m + 3) - 1] \o t[m + 3]
        BY <1>2, <3>1 DEF F
      <4>2. QED
        BY <3>1, <4>1
    <3>3. G[m + 2] = G[m + 1] \o s[m + 2]
      <4>1. G[m + 2] = G[(m + 2) - 1] \o s[m + 2]
        BY <1>4, <3>1 DEF G
      <4>2. QED
        BY <3>1, <4>1
    <3>4. t[m + 3] = s[m + 2]
      <4>1. t[(m + 2) + 1] = s[m + 2]
        BY <1>1, <3>1
      <4>2. QED
        BY <3>1, <4>1
    <3>5. G[m + 1] \in Seq(S) /\ s[m + 2] \in Seq(S)
      BY <1>4, <3>1 DEF G
    <3>6. (a \o G[m + 1]) \o s[m + 2] = a \o (G[m + 1] \o s[m + 2])
      <4> DEFINE x == G[m + 1]
                 y == s[m + 2]
      <4>1. x \in Seq(S) /\ y \in Seq(S)
        BY <3>5
      <4> HIDE DEF x, y
      <4>2. (a \o x) \o y = a \o (x \o y)
        BY <4>1, ConcatAssociative
      <4>3. QED
        BY <4>2 DEF x, y
    <3>7. F[m + 2] = a \o G[m + 1]
      BY <2>1, <3>1
    <3>8. F[m + 3] = a \o G[m + 2]
      BY <3>2, <3>3, <3>4, <3>6, <3>7
    <3>9. QED
      BY <3>1, <3>8
  <2>3. QED
    BY <2>1, <2>2
<1>7. P = Nat
  <2>1. P \in SUBSET Nat
    OBVIOUS
  <2> HIDE DEF P
  <2>2. QED
    BY <1>5, <1>6, <2>1, SetInduction
<1>8. CASE s = <<>>
  <2>1. n = 0
    BY <1>8, EmptySeq DEF n
  <2>2. FlattenSeq(s) = <<>>
    <3>1. Len(s) = 0
      BY <2>1 DEF n
    <3>2. QED
      BY <1>8, <3>1 DEF FlattenSeq
  <2>3. FlattenSeq(t) = Flat(t)[1] /\ Flat(t)[1] = a
    <3>1. n + 1 = 1 /\ 1 \in 1..(n + 1)
      BY <2>1
    <3>2. QED
      BY <1>1, <1>2, <1>3, <3>1
  <2>4. QED
    BY <2>2, <2>3, ConcatEmptySeq DEF t
<1>9. CASE s # <<>>
  <2>1. n # 0 /\ FlattenSeq(s) = G[n]
    BY <1>4, <1>9 DEF G
  <2>2. n - 1 \in Nat /\ (n - 1) + 1 = n /\ (n - 1) + 2 = n + 1 /\ n <= n
    BY <1>1, <2>1
  <2>3. F[n + 1] = a \o G[n]
    <3>1. n - 1 \in P
      <4> HIDE DEF P
      <4>1. QED
        BY <1>7, <2>2
    <3>2. QED
      BY <2>2, <3>1
  <2>4. FlattenSeq(t) = F[n + 1]
    BY <1>2, <1>3 DEF F
  <2>5. QED
    BY <2>1, <2>3, <2>4 DEF t
<1>10. QED
  BY <1>8, <1>9

-----------------------------------------------------------------------------
(* Leaves.                                                                 *)

EachLeaves(p) == [i \in 1..Len(p) |-> LeavesOf(p[i])]

LEMMA EachLeavesFacts ==
  ASSUME NEW p \in Seq(Calls)
  PROVE  /\ EachLeaves(p) \in Seq(Seq(LeafCalls)) /\ Len(EachLeaves(p)) = Len(p)
         /\ Len(p) \in Nat
         /\ \A i \in 1..Len(p) : EachLeaves(p)[i] = LeavesOf(p[i])
<1> DEFINE Q == Seq(LeafCalls)
           n == Len(p)
<1>1. n \in Nat
  BY LenProperties
<1>2. \A i \in 1..n : LeavesOf(p[i]) \in Q
  BY ElementOfSeq, LeavesOfFacts
<1>3. EachLeaves(p) = [i \in 1..n |-> LeavesOf(p[i])]
  BY DEF EachLeaves
<1> HIDE DEF Q, n
<1>4. EachLeaves(p) \in [1..n -> Q]
  BY <1>2, <1>3
<1>5. EachLeaves(p) \in Seq(Q) /\ Len(EachLeaves(p)) = n
  BY <1>1, <1>4, SequenceOf
<1>6. QED
  BY <1>1, <1>3, <1>5 DEF Q, n

LEMMA LeavesType ==
  ASSUME NEW p \in Seq(Calls)
  PROVE  Leaves(p) \in Seq(LeafCalls)
<1>1. Leaves(p) = FlattenSeq(EachLeaves(p))
  BY DEF Leaves, EachLeaves
<1>2. QED
  BY <1>1, EachLeavesFacts, FlattenType

LEMMA LeavesOfNone == Leaves(<<>>) = <<>>
<1>1. <<>> \in Seq(Calls) /\ Len(<<>>) = 0
  BY EmptySeq
<1>2. EachLeaves(<<>>) \in Seq(Seq(LeafCalls)) /\ Len(EachLeaves(<<>>)) = 0
  BY <1>1, EachLeavesFacts
<1> DEFINE s == EachLeaves(<<>>)
<1>3. s = <<>>
  <2> HIDE DEF s
  <2>1. s \in Seq(Seq(LeafCalls)) /\ Len(s) = 0
    BY <1>2 DEF s
  <2>2. QED
    BY <2>1, EmptySeq
<1>4. Leaves(<<>>) = FlattenSeq(s)
  BY DEF Leaves, EachLeaves
<1>5. FlattenSeq(s) = s
  BY <1>2 DEF FlattenSeq
<1>6. QED
  BY <1>3, <1>4, <1>5

LEMMA LeavesFirst ==
  ASSUME NEW c \in Calls, NEW p \in Seq(Calls)
  PROVE  Leaves(<<c>> \o p) = LeavesOf(c) \o Leaves(p)
<1> DEFINE q == <<c>> \o p
           n == Len(p)
           Q == Seq(LeafCalls)
           s == EachLeaves(p)
           a == LeavesOf(c)
<1>1. q \in Seq(Calls) /\ Len(q) = n + 1 /\ q[1] = c /\ n \in Nat
      /\ \A i \in 1..n : q[i + 1] = p[i]
  <2>1. <<c>> \in Seq(Calls) /\ Len(<<c>>) = 1 /\ <<c>>[1] = c
    OBVIOUS
  <2>2. n \in Nat
    BY LenProperties
  <2>3. QED
    BY <2>1, <2>2, ConcatProperties
<1>2. s \in Seq(Q) /\ Len(s) = n /\ \A i \in 1..n : s[i] = LeavesOf(p[i])
  BY EachLeavesFacts
<1>3. a \in Q
  BY LeavesOfFacts
<1> DEFINE t == <<a>> \o s
<1> HIDE DEF Q
<1>4. t \in Seq(Q) /\ Len(t) = n + 1 /\ t[1] = a /\ \A i \in 1..n : t[i + 1] = s[i]
  <2> HIDE DEF s, a
  <2>1. <<a>> \in Seq(Q) /\ Len(<<a>>) = 1 /\ <<a>>[1] = a
    BY <1>3
  <2>2. QED
    BY <1>1, <1>2, <2>1, ConcatProperties
<1>5. /\ EachLeaves(q) \in Seq(Q) /\ Len(EachLeaves(q)) = n + 1
      /\ \A i \in 1..(n + 1) : EachLeaves(q)[i] = LeavesOf(q[i])
  <2> HIDE DEF q
  <2>1. QED
    BY <1>1, EachLeavesFacts DEF Q
<1> HIDE DEF q, n, s, t, a
<1>6. \A i \in 1..(n + 1) : EachLeaves(q)[i] = t[i]
  <2> TAKE i \in 1..(n + 1)
  <2>1. CASE i = 1
    BY <1>1, <1>4, <1>5, <2>1 DEF a
  <2>2. CASE i # 1
    <3>1. i - 1 \in 1..n /\ (i - 1) + 1 = i
      BY <1>1, <2>2
    <3>2. t[(i - 1) + 1] = s[i - 1] /\ s[i - 1] = LeavesOf(p[i - 1])
          /\ q[(i - 1) + 1] = p[i - 1]
      BY <1>1, <1>2, <1>4, <3>1
    <3>3. QED
      BY <1>5, <3>1, <3>2
  <2>3. QED
    BY <2>1, <2>2
<1>7. EachLeaves(q) = t
  <2> DEFINE u == EachLeaves(q)
  <2>1. u \in Seq(Q) /\ t \in Seq(Q) /\ Len(u) = Len(t) /\ \A i \in 1..Len(u) : u[i] = t[i]
    BY <1>4, <1>5, <1>6
  <2> HIDE DEF u
  <2>2. u = t
    BY <2>1, SeqEqual
  <2>3. QED
    BY <2>2 DEF u
<1>8. Leaves(q) = FlattenSeq(EachLeaves(q)) /\ Leaves(p) = FlattenSeq(s)
  BY DEF Leaves, EachLeaves, s
<1>9. FlattenSeq(t) = a \o FlattenSeq(s)
  BY <1>2, <1>3, FlattenFirst DEF t, Q
<1>10. QED
  BY <1>7, <1>8, <1>9 DEF q, a

LEMMA HeadAndTail ==
  ASSUME NEW S, NEW p \in Seq(S), p # <<>>
  PROVE  /\ Head(p) \in S /\ Tail(p) \in Seq(S) /\ p = <<Head(p)>> \o Tail(p)
         /\ Len(p) \in Nat \ {0} /\ Head(p) = p[1] /\ Len(Tail(p)) = Len(p) - 1
<1> DEFINE h == Head(p)
           t == Tail(p)
           q == <<h>> \o t
<1>1. /\ h \in S /\ t \in Seq(S) /\ Len(t) = Len(p) - 1
      /\ \A i \in 1..Len(t) : t[i] = p[i + 1]
      /\ Len(p) \in Nat \ {0}
  BY HeadTailProperties, EmptySeq
<1>2. h = p[1]
  OBVIOUS
<1> HIDE DEF h, t
<1>3. q \in Seq(S) /\ Len(q) = Len(p) /\ q[1] = h
      /\ \A i \in 2..Len(p) : q[i] = t[i - 1]
  <2>1. <<h>> \in Seq(S) /\ Len(<<h>>) = 1 /\ <<h>>[1] = h
    BY <1>1
  <2>2. QED
    BY <1>1, <2>1, ConcatProperties
<1> HIDE DEF q
<1>4. \A i \in 1..Len(p) : q[i] = p[i]
  <2> TAKE i \in 1..Len(p)
  <2>1. CASE i = 1
    BY <1>2, <1>3, <2>1
  <2>2. CASE i # 1
    <3>1. i \in 2..Len(p) /\ i - 1 \in 1..Len(t) /\ (i - 1) + 1 = i
      BY <1>1, <2>2
    <3>2. QED
      BY <1>1, <1>3, <3>1
  <2>3. QED
    BY <2>1, <2>2
<1>5. q = p
  BY <1>3, <1>4, SeqEqual
<1>6. QED
  BY <1>1, <1>2, <1>5 DEF h, t, q

(* The children of a list, once called for, take its place.                *)
LEMMA LeavesOfChildren ==
  ASSUME NEW e \in Seq(LeafCalls), NEW p \in Seq(Calls)
  PROVE  e \o p \in Seq(Calls) /\ Leaves(e \o p) = e \o Leaves(p)
<1> DEFINE Kept(m) == \A x \in Seq(LeafCalls) : Len(x) = m =>
                        x \o p \in Seq(Calls) /\ Leaves(x \o p) = x \o Leaves(p)
           P == {m \in Nat : Kept(m)}
<1>0. Leaves(p) \in Seq(LeafCalls) /\ LeafCalls \subseteq Calls
  BY LeavesType DEF Calls
<1>1. 0 \in P
  <2> SUFFICES ASSUME NEW x \in Seq(LeafCalls), Len(x) = 0
               PROVE  x \o p \in Seq(Calls) /\ Leaves(x \o p) = x \o Leaves(p)
    OBVIOUS
  <2>1. x = <<>>
    BY EmptySeq
  <2>2. <<>> \o p = p /\ <<>> \o Leaves(p) = Leaves(p)
    BY <1>0, ConcatEmptySeq
  <2>3. QED
    BY <2>1, <2>2
<1>2. ASSUME NEW m \in P PROVE m + 1 \in P
  <2>0. m \in Nat
    OBVIOUS
  <2> SUFFICES ASSUME NEW x \in Seq(LeafCalls), Len(x) = m + 1
               PROVE  x \o p \in Seq(Calls) /\ Leaves(x \o p) = x \o Leaves(p)
    BY <2>0
  <2> DEFINE h == Head(x)
             t == Tail(x)
  <2>1. x # <<>>
    BY <2>0, EmptySeq
  <2>2. h \in LeafCalls /\ t \in Seq(LeafCalls) /\ Len(t) = m /\ x = <<h>> \o t
    BY <2>0, <2>1, HeadAndTail
  <2> HIDE DEF h, t
  <2>3. t \o p \in Seq(Calls) /\ Leaves(t \o p) = t \o Leaves(p)
    BY <1>2, <2>2
  <2>4. <<h>> \in Seq(LeafCalls) /\ <<h>> \in Seq(Calls) /\ t \in Seq(Calls) /\ h \in Calls
    BY <1>0, <2>2, SeqMonotonic
  <2>5. (<<h>> \o t) \o p = <<h>> \o (t \o p)
    BY <2>4, ConcatAssociative
  <2>6. x \o p = <<h>> \o (t \o p) /\ x \o p \in Seq(Calls)
    BY <2>2, <2>3, <2>4, <2>5, ConcatProperties
  <2>7. Leaves(<<h>> \o (t \o p)) = LeavesOf(h) \o Leaves(t \o p)
    BY <2>3, <2>4, LeavesFirst
  <2>8. LeavesOf(h) = <<h>>
    BY <2>2, <2>4, LeafIsSingle, LeavesOfFacts
  <2>9. <<h>> \o (t \o Leaves(p)) = (<<h>> \o t) \o Leaves(p)
    BY <1>0, <2>2, <2>4, ConcatAssociative
  <2>10. QED
    BY <2>2, <2>3, <2>6, <2>7, <2>8, <2>9
<1>3. P = Nat
  <2>1. P \in SUBSET Nat
    OBVIOUS
  <2> HIDE DEF P
  <2>2. QED
    BY <1>1, <1>2, <2>1, SetInduction
<1>4. Len(e) \in Nat
  BY LenProperties
<1>5. Len(e) \in P
  BY <1>3, <1>4
<1>6. QED
  BY <1>5

-----------------------------------------------------------------------------
(* Where the calls lead.                                                   *)

AllTargets ==
  UNION {{Target(Destination[src][c], c.line_no) : c \in LeafCalls} : src \in Files}
Vertexes   == {Vertex(f, f) : f \in Files} \cup {Vertex(t.d.name, t.d.dst_path) : t \in AllTargets}
Edges      == {Edge(t.key, t.line) : t \in AllTargets}

(* There is a first candidate if there is one; so if no item is blank,     *)
(* nothing is labelled with the empty path.                                *)
LEMMA ChosenHasKey ==
  ASSUME NEW statement, extract_dummy_node_name(statement) # NoPath, NEW path,
         NEW c, c \in Seq({c[i] : i \in DOMAIN c})
  PROVE  LET d == Chosen(statement, path, c) IN Key(d.name, d.dst_path) # NoPath
<1>1. CASE \A i \in 1..Len(c) : c[i] = NoPath
  BY <1>1 DEF Chosen, Key
<1>2. CASE ~(\A i \in 1..Len(c) : c[i] = NoPath)
  <2> DEFINE S == {i \in 1..Len(c) : c[i] # NoPath}
             First(i) == c[i] # NoPath /\ \A k \in 1..(i - 1) : c[k] = NoPath
             i == CHOOSE i \in 1..Len(c) : First(i)
  <2>0. Len(c) \in Nat
    BY LenProperties
  <2>1. S \in SUBSET Nat /\ S # {} /\ S \subseteq 1..Len(c)
    BY <1>2, <2>0
  <2> DEFINE m == Min(S)
  <2>2. m \in S /\ \A x \in S : m <= x
    <3> HIDE DEF S
    <3>1. QED
      BY <2>1, LeastNumber
  <2> HIDE DEF m
  <2>3. m \in 1..Len(c) /\ First(m)
    <3>1. m \in 1..Len(c) /\ c[m] # NoPath
      BY <2>2
    <3>2. ASSUME NEW k \in 1..(m - 1) PROVE c[k] = NoPath
      <4>1. k \in 1..Len(c) /\ ~(m <= k)
        BY <2>0, <3>1
      <4>2. QED
        BY <2>2, <4>1
    <3>3. QED
      BY <3>1, <3>2
  <2>4. i \in 1..Len(c) /\ First(i)
    <3> HIDE DEF First
    <3>1. QED
      BY <2>3
  <2>5. Chosen(statement, path, c).dst_path = c[i]
    BY <1>2 DEF Chosen
  <2>6. c[i] # NoPath
    BY <2>4
  <2>7. QED
    BY <2>5, <2>6 DEF Key
<1>3. QED
  BY <1>1, <1>2

LEMMA TargetFacts ==
  ASSUME NEW t \in AllTargets
  PROVE  /\ t.key = Key(t.d.name, t.d.dst_path)
         /\ NoBlankName => t.key # NoPath
         /\ Vertex(t.d.name, t.d.dst_path) \in Vertexes
         /\ Edge(t.key, t.line) \in Edges
<1>1. PICK src \in Files, call \in LeafCalls : t = Target(Destination[src][call], call.line_no)
  BY DEF AllTargets
<1> DEFINE d == Destination[src][call]
<1>2. t.d = d /\ t.key = Key(d.name, d.dst_path)
  BY <1>1 DEF Target
<1>3. ASSUME NoBlankName PROVE Key(d.name, d.dst_path) # NoPath
  <2> DEFINE s == Single(call.statement, call.idx)
             path == s.possible_path
             c == candidates(parent_directory(src, s), path)
  <2>1. d = Chosen(call.statement, path, c)
    BY DEF Destination, destination, Located
  <2>2. c \in Seq({c[i] : i \in DOMAIN c})
    <3>1. c = << c[1], c[2], c[3], c[4] >>
      BY DEF candidates
    <3> HIDE DEF c
    <3>2. DOMAIN c = 1..4
      BY <3>1
    <3> DEFINE S == {c[i] : i \in DOMAIN c}
    <3>3. c[1] \in S /\ c[2] \in S /\ c[3] \in S /\ c[4] \in S
      BY <3>2
    <3> HIDE DEF S
    <3>4. \A x, y, z, u \in S : <<x, y, z, u>> \in Seq(S)
      OBVIOUS
    <3>6. c \in Seq(S)
      BY <3>1, <3>3, <3>4
    <3>5. QED
      BY <3>6 DEF S
  <2>3. extract_dummy_node_name(call.statement) # NoPath
    BY <1>3 DEF NoBlankName
  <2> HIDE DEF c, path, d
  <2>4. QED
    BY <2>1, <2>2, <2>3, ChosenHasKey
<1>4. QED
  BY <1>2, <1>3 DEF Vertexes, Edges

(* insert_edge_once, as far as the edges of one file are concerned.        *)
Lands(out, t) == \E i \in 1..Len(out) : out[i].dst \in {t.d.name, t.d.dst_path}
Grown(out, t) == IF Lands(out, t) THEN out ELSE Append(out, Edge(t.key, t.line))

GraphOK(g) ==
  /\ IsGraph(g, Vertexes, Edges) /\ Closed(g) /\ ~g.undefined
  /\ Files \subseteq Labels(g) /\ (NoBlankName => NoPath \notin Labels(g))
  /\ \A key \in Labels(g) : key = Key(g.vertexes[key].name, g.vertexes[key].abs_path)

LEMMA FirstGraph ==
  /\ GraphOK(WithFiles(EmptyGraph))
  /\ \A f \in Files : WithFiles(EmptyGraph).out[f] = <<>>
<1> DEFINE g == WithFiles(EmptyGraph)
<1>1. g = [vertexes |-> [f \in Files |-> Vertex(f, f)], out |-> [f \in Files |-> <<>>],
           undefined |-> FALSE]
  <2> DEFINE e == [vertexes |-> <<>>, out |-> <<>>, undefined |-> FALSE]
             v == [f \in Files |-> Vertex(f, f)]
             o == [f \in Files |-> <<>>]
  <2>1. g = [e EXCEPT !.vertexes = v, !.out = o]
    BY DEF WithFiles, EmptyGraph
  <2> HIDE DEF g
  <2>0. e = [vertexes |-> e.vertexes, out |-> e.out, undefined |-> e.undefined]
        /\ e.undefined = FALSE
    OBVIOUS
  <2>a. ASSUME NEW x, x = [vertexes |-> x.vertexes, out |-> x.out, undefined |-> x.undefined],
               NEW y, NEW z, NEW h, h = [x EXCEPT !.vertexes = y, !.out = z]
        PROVE  h = [vertexes |-> y, out |-> z, undefined |-> x.undefined]
    BY <2>a
  <2> HIDE DEF v, o, e
  <2>2. g = [vertexes |-> v, out |-> o, undefined |-> FALSE]
    BY <2>0, <2>1, <2>a
  <2>3. QED
    BY <2>2 DEF v, o
<1> HIDE DEF g
<1>2. /\ g.vertexes = [f \in Files |-> Vertex(f, f)] /\ g.out = [f \in Files |-> <<>>]
      /\ g.undefined = FALSE /\ Labels(g) = Files
      /\ g = [vertexes |-> g.vertexes, out |-> g.out, undefined |-> g.undefined]
  BY <1>1 DEF Labels
<1>3. IsGraph(g, Vertexes, Edges)
  <2>1. \A f \in Files : Vertex(f, f) \in Vertexes /\ <<>> \in Seq(Edges)
    BY EmptySeq DEF Vertexes
  <2>2. QED
    BY <1>2, <2>1 DEF IsGraph
<1>4. Closed(g)
  <2>1. \A f \in Files : Len(g.out[f]) = 0
    BY <1>2
  <2>2. QED
    BY <1>2, <2>1 DEF Closed
<1>5. \A f \in Files : g.vertexes[f].name = f /\ g.vertexes[f].abs_path = f
  BY <1>2 DEF Vertex
<1>6. QED
  BY <1>2, <1>3, <1>4, <1>5, PyAssumption DEF GraphOK, Key, g

LEMMA InsertOnce ==
  ASSUME NEW g, GraphOK(g), NEW src \in Files, NEW t \in AllTargets,
         NEW h, h = insert_edge_once(g, src, t.d, t.line)
  PROVE  /\ GraphOK(h)
         /\ h.out[src] = Grown(g.out[src], t)
         /\ \A f \in Files \ {src} : h.out[f] = g.out[f]
<1> DEFINE name == t.d.name
           path == t.d.dst_path
           u    == add_vertex(g, name, path)
           out  == g.out[src]
           test == HasEdge(u, src, name) \/ HasEdge(u, src, path)
<1>1. /\ t.key = Key(name, path) /\ (NoBlankName => t.key # NoPath)
      /\ Vertex(name, path) \in Vertexes /\ Edge(Key(name, path), t.line) \in Edges
  BY TargetFacts
<1>2. /\ IsGraph(g, Vertexes, Edges) /\ Closed(g) /\ ~g.undefined /\ src \in Labels(g)
      /\ Files \subseteq Labels(g) /\ (NoBlankName => NoPath \notin Labels(g))
      /\ \A key \in Labels(g) : key = Key(g.vertexes[key].name, g.vertexes[key].abs_path)
  BY DEF GraphOK
<1>3. /\ IsGraph(u, Vertexes, Edges) /\ Labels(u) = Labels(g) \cup {Key(name, path)}
      /\ u.undefined = g.undefined /\ Closed(u)
      /\ \A k \in Labels(g) : u.vertexes[k] = g.vertexes[k] /\ u.out[k] = g.out[k]
      /\ Key(name, path) \notin Labels(g) => u.vertexes[Key(name, path)] = Vertex(name, path)
  <2> HIDE DEF name, path
  <2>1. QED
    BY <1>1, <1>2, AddVertexLemma, AddVertexKeeps
<1>4. h = IF test THEN u ELSE insert_edge(g, src, path, name, t.line)
  BY DEF insert_edge_once, insert_edge
<1>5. test <=> Lands(out, t)
  <2>1. u.out[src] = out
    BY <1>2, <1>3
  <2>2. QED
    BY <2>1 DEF HasEdge, Lands
<1>6. \A key \in Labels(u) : key = Key(u.vertexes[key].name, u.vertexes[key].abs_path)
  <2> TAKE key \in Labels(u)
  <2>1. CASE key \in Labels(g)
    BY <1>2, <1>3, <2>1
  <2>2. CASE key \notin Labels(g)
    <3>1. key = Key(name, path) /\ u.vertexes[key] = Vertex(name, path)
      BY <1>3, <2>2
    <3>2. QED
      BY <3>1 DEF Vertex
  <2>3. QED
    BY <2>1, <2>2
<1>7. CASE test
  <2>1. h = u /\ Grown(out, t) = out
    BY <1>4, <1>5, <1>7 DEF Grown
  <2> HIDE DEF u, test, name, path
  <2>2. QED
    BY <1>1, <1>2, <1>3, <1>6, <2>1 DEF GraphOK
<1>8. CASE ~test
  <2> DEFINE v == insert_edge(g, src, path, name, t.line)
  <2>1. h = v /\ Grown(out, t) = Append(out, Edge(t.key, t.line))
    BY <1>4, <1>5, <1>8 DEF Grown
  <2>2. /\ IsGraph(v, Vertexes, Edges) /\ Labels(v) = Labels(g) \cup {Key(name, path)}
        /\ v.undefined = g.undefined /\ Closed(v)
        /\ \A k \in Labels(g) : v.vertexes[k] = g.vertexes[k]
    <3> HIDE DEF name, path, u, test
    <3>1. QED
      BY <1>1, <1>2, InsertEdgeLemma, InsertEdgeKeeps
  <2>3. v = add_edge_by_label(u, src, Key(name, path), t.line)
    BY DEF insert_edge
  <2>4. /\ v.vertexes = u.vertexes
        /\ v.out = [u.out EXCEPT ![src] = Append(@, Edge(Key(name, path), t.line))]
    BY <1>2, <1>3, <2>3 DEF add_edge_by_label, IsGraph
  <2>5. Labels(v) = Labels(u)
    BY <1>3, <2>2
  <2> HIDE DEF v, u, test, name, path
  <2>6. /\ v.out[src] = Append(out, Edge(t.key, t.line))
        /\ \A f \in Files \ {src} : v.out[f] = g.out[f]
    BY <1>1, <1>2, <1>3, <2>4 DEF IsGraph
  <2>7. \A key \in Labels(v) : key = Key(v.vertexes[key].name, v.vertexes[key].abs_path)
    BY <1>6, <2>4, <2>5
  <2>8. QED
    BY <1>1, <1>2, <2>1, <2>2, <2>6, <2>7 DEF GraphOK
<1>9. QED
  BY <1>7, <1>8

LEMMA GrownFacts ==
  ASSUME NEW out \in Seq(Edges), NEW t \in AllTargets
  PROVE  /\ Grown(out, t) \in Seq(Edges)
         /\ Lands(Grown(out, t), t)
         /\ Len(out) \in Nat /\ Len(out) <= Len(Grown(out, t))
         /\ \A i \in 1..Len(out) : Grown(out, t)[i] = out[i]
         /\ \A i \in 1..Len(Grown(out, t)) :
              i \in 1..Len(out) \/ (Grown(out, t)[i] = Edge(t.key, t.line) /\ ~Lands(out, t))
<1> DEFINE e == Edge(t.key, t.line)
<1>1. Len(out) \in Nat
  BY LenProperties
<1>2. CASE Lands(out, t)
  BY <1>1, <1>2 DEF Grown
<1>3. CASE ~Lands(out, t)
  <2>1. Grown(out, t) = Append(out, e)
    BY <1>3 DEF Grown
  <2>2. e \in Edges /\ e.dst = t.key
    BY TargetFacts DEF Edge
  <2> HIDE DEF e
  <2>3. /\ Append(out, e) \in Seq(Edges) /\ Len(Append(out, e)) = Len(out) + 1
        /\ Append(out, e)[Len(out) + 1] = e
        /\ \A i \in 1..Len(out) : Append(out, e)[i] = out[i]
    BY <2>2, AppendProperties
  <2>4. Lands(Grown(out, t), t)
    <3>1. Len(out) + 1 \in 1..Len(Grown(out, t)) /\ Grown(out, t)[Len(out) + 1].dst = t.key
      BY <1>1, <2>1, <2>2, <2>3
    <3>3. t.key \in {t.d.name, t.d.dst_path}
      BY TargetFacts DEF Key
    <3>2. QED
      BY <3>1, <3>3 DEF Lands
  <2>5. ASSUME NEW i \in 1..(Len(out) + 1) PROVE i \in 1..Len(out) \/ i = Len(out) + 1
    BY <1>1
  <2>6. QED
    BY <1>1, <1>3, <2>1, <2>3, <2>4, <2>5 DEF e
<1>4. QED
  BY <1>2, <1>3

(* What leads somewhere still does when more is added.                     *)
LEMMA LandsStays ==
  ASSUME NEW out \in Seq(Edges), NEW t \in AllTargets, NEW x, Lands(out, x)
  PROVE  Lands(Grown(out, t), x)
<1>1. PICK i \in 1..Len(out) : out[i].dst \in {x.d.name, x.d.dst_path}
  BY DEF Lands
<1>2. i \in 1..Len(Grown(out, t)) /\ Grown(out, t)[i] = out[i]
  BY GrownFacts
<1>3. QED
  BY <1>1, <1>2 DEF Lands

(* If no vertex is labelled with the empty path, an edge that is taken for *)
(* the same leads to the path, or to a vertex labelled with the name.      *)
LEMMA LandsThere ==
  ASSUME NoBlankName, NEW out \in Seq(Edges), NEW t \in AllTargets, Lands(out, t)
  PROVE  \E i \in 1..Len(out) : out[i].dst \in {t.key, t.d.name}
<1>1. PICK i \in 1..Len(out) : out[i].dst \in {t.d.name, t.d.dst_path}
  BY DEF Lands
<1>2. out[i] \in Edges
  BY ElementOfSeq
<1>3. PICK u \in AllTargets : out[i] = Edge(u.key, u.line)
  BY <1>2 DEF Edges
<1>4. out[i].dst # NoPath
  BY <1>3, TargetFacts DEF Edge
<1>5. QED
  BY <1>1, <1>4, TargetFacts DEF Key

-----------------------------------------------------------------------------
(* The edges that one worker alone gives a file.                           *)

LEMMA TargetsFacts ==
  ASSUME NEW f \in Files, NEW r \in Reports
  PROVE  /\ Leaves(CallsOf(r)) \in Seq(LeafCalls)
         /\ Targets[f][r] \in Seq(AllTargets)
         /\ Len(Targets[f][r]) = Len(Leaves(CallsOf(r))) /\ Len(Targets[f][r]) \in Nat
         /\ \A i \in 1..Len(Targets[f][r]) :
              LET c == Leaves(CallsOf(r))[i]
              IN  c \in LeafCalls /\ Targets[f][r][i] = Target(Destination[f][c], c.line_no)
<1> DEFINE L == Leaves(CallsOf(r))
           n == Len(L)
           goal(i) == Target(Destination[f][L[i]], L[i].line_no)
           t == [i \in 1..n |-> goal(i)]
<1>1. L \in Seq(LeafCalls)
  <2>1. CallsOf(r) \in Seq(Calls)
    BY CallsOfFacts, SeqMonotonic DEF Calls
  <2>2. QED
    BY <2>1, LeavesType
<1>2. Targets[f][r] = t
  BY DEF Targets, TargetsFor
<1> HIDE DEF L
<1>3. n \in Nat /\ \A i \in 1..n : L[i] \in LeafCalls
  BY <1>1, LenProperties, ElementOfSeq
<1>4. \A i \in 1..n : goal(i) \in AllTargets
  BY <1>3 DEF AllTargets
<1> HIDE DEF goal, n
<1>5. t \in [1..n -> AllTargets] /\ \A i \in 1..n : t[i] = goal(i)
  BY <1>4
<1> HIDE DEF t
<1>6. t \in Seq(AllTargets) /\ Len(t) = n
  BY <1>3, <1>5, SequenceOf
<1>7. QED
  BY <1>1, <1>2, <1>3, <1>5, <1>6 DEF L, n, goal

(* The graphs that OutAfter takes the edges from.                          *)
Steps(f, t, n, a) ==
  [i \in 0..n |-> IF i = 0 THEN WithFiles(EmptyGraph)
                  ELSE insert_edge_once(a[i - 1], f, t[i].d, t[i].line)]
After(f, t) == CHOOSE a : a = Steps(f, t, Len(t), a)

LEMMA AfterFunction ==
  ASSUME NEW f, NEW t, NEW n \in Nat
  PROVE  \E a : a = Steps(f, t, n, a)
<1> DEFINE first == WithFiles(EmptyGraph)
           next(g, i) == insert_edge_once(g, f, t[i].d, t[i].line)
           step(a, m) == [i \in 0..m |-> IF i = 0 THEN first ELSE next(a[i - 1], i)]
           P == {m \in Nat : \E a : a = step(a, m)}
<1> HIDE DEF first, next
<1>1. 0 \in P
  <2> DEFINE a == [i \in 0..0 |-> first]
  <2>1. a = step(a, 0)
    <3>1. \A i \in 0..0 : i = 0
      OBVIOUS
    <3>2. QED
      BY <3>1
  <2> HIDE DEF a, step
  <2>2. QED
    BY <2>1
<1>2. ASSUME NEW m \in P PROVE m + 1 \in P
  <2>1. PICK a : a = step(a, m)
    OBVIOUS
  <2>2. m \in Nat
    OBVIOUS
  <2> DEFINE last == next(a[m], m + 1)
             b == [i \in 0..(m + 1) |-> IF i = m + 1 THEN last ELSE a[i]]
  <2>3. ASSUME NEW i \in 0..(m + 1)
        PROVE  b[i] = IF i = 0 THEN first ELSE next(b[i - 1], i)
    <3>1. CASE i = m + 1
      <4>1. b[i] = last /\ i # 0 /\ i - 1 = m
        BY <2>2, <3>1
      <4>2. b[m] = a[m]
        BY <2>2
      <4> HIDE DEF b
      <4>3. QED
        BY <3>1, <4>1, <4>2
    <3>2. CASE i # m + 1
      <4>1. i \in 0..m /\ b[i] = a[i]
        BY <2>2, <3>2
      <4>2. a[i] = IF i = 0 THEN first ELSE next(a[i - 1], i)
        BY <2>1, <4>1
      <4>3. CASE i = 0
        BY <4>1, <4>2, <4>3
      <4>4. CASE i # 0
        <5>1. i - 1 \in 0..(m + 1) /\ i - 1 # m + 1
          BY <2>2, <4>1, <4>4
        <5>2. b[i - 1] = a[i - 1]
          BY <5>1
        <5> HIDE DEF b
        <5>3. QED
          BY <4>1, <4>2, <4>4, <5>2
      <4>5. QED
        BY <4>3, <4>4
    <3>3. QED
      BY <3>1, <3>2
  <2>4. b = step(b, m + 1)
    <3>1. b = [i \in 0..(m + 1) |-> b[i]]
      OBVIOUS
    <3> HIDE DEF b
    <3>2. QED
      BY <2>3, <3>1
  <2> HIDE DEF b, step
  <2>5. QED
    BY <2>2, <2>4
<1>3. P = Nat
  <2>1. P \in SUBSET Nat
    OBVIOUS
  <2> HIDE DEF P
  <2>2. QED
    BY <1>1, <1>2, <2>1, SetInduction
<1>4. n \in P
  BY <1>3
<1>5. QED
  BY <1>4 DEF first, next, Steps

LEMMA AfterFacts ==
  ASSUME NEW f \in Files, NEW t \in Seq(AllTargets)
  PROVE  /\ OutAfter(f, t) = [n \in 0..Len(t) |-> After(f, t)[n].out[f]]
         /\ After(f, t)[0] = WithFiles(EmptyGraph)
         /\ \A n \in 1..Len(t) :
              After(f, t)[n] = insert_edge_once(After(f, t)[n - 1], f, t[n].d, t[n].line)
<1> DEFINE A == After(f, t)
<1>1. Len(t) \in Nat
  BY LenProperties
<1>2. \E a : a = Steps(f, t, Len(t), a)
  BY <1>1, AfterFunction
<1>a. A = Steps(f, t, Len(t), A)
  BY <1>2 DEF After
<1>3. A = [i \in 0..Len(t) |-> IF i = 0 THEN WithFiles(EmptyGraph)
                              ELSE insert_edge_once(A[i - 1], f, t[i].d, t[i].line)]
  <2> HIDE DEF A
  <2>1. QED
    BY <1>a DEF Steps
<1>4. OutAfter(f, t) = [n \in 0..Len(t) |-> A[n].out[f]]
  BY DEF OutAfter, After, Steps
<1> HIDE DEF A
<1>5. A[0] = WithFiles(EmptyGraph)
  <2>1. 0 \in 0..Len(t)
    BY <1>1
  <2>2. QED
    BY <1>3, <2>1
<1>6. ASSUME NEW n \in 1..Len(t)
      PROVE  A[n] = insert_edge_once(A[n - 1], f, t[n].d, t[n].line)
  <2>1. n \in 0..Len(t) /\ n # 0
    BY <1>1
  <2>2. QED
    BY <1>3, <2>1
<1>7. QED
  BY <1>4, <1>5, <1>6 DEF A

LEMMA AloneFacts ==
  ASSUME NEW f \in Files, NEW r \in Reports
  PROVE  /\ Alone[f][r][0] = <<>>
         /\ \A n \in 0..Len(Targets[f][r]) : Alone[f][r][n] \in Seq(Edges)
         /\ \A n \in 1..Len(Targets[f][r]) :
              Alone[f][r][n] = Grown(Alone[f][r][n - 1], Targets[f][r][n])
<1> DEFINE t == Targets[f][r]
           g == After(f, t)
           P == {n \in Nat : n <= Len(t) => GraphOK(g[n])}
<1>1. t \in Seq(AllTargets) /\ Len(t) \in Nat
  BY TargetsFacts
<1>2. /\ OutAfter(f, t) = [n \in 0..Len(t) |-> g[n].out[f]]
      /\ g[0] = WithFiles(EmptyGraph)
      /\ \A n \in 1..Len(t) : g[n] = insert_edge_once(g[n - 1], f, t[n].d, t[n].line)
  BY <1>1, AfterFacts
<1>3. Alone[f][r] = OutAfter(f, t)
  BY DEF Alone
<1> HIDE DEF t, g
<1>4. \A n \in 0..Len(t) : Alone[f][r][n] = g[n].out[f]
  BY <1>2, <1>3
<1>5. 0 \in P
  BY <1>2, FirstGraph
<1>6. ASSUME NEW n \in P PROVE n + 1 \in P
  <2> SUFFICES ASSUME n + 1 <= Len(t) PROVE GraphOK(g[n + 1])
    OBVIOUS
  <2>1. n \in Nat /\ n <= Len(t) /\ n + 1 \in 1..Len(t) /\ (n + 1) - 1 = n
    BY <1>1
  <2>2. GraphOK(g[n]) /\ t[n + 1] \in AllTargets
    BY <1>1, <2>1, ElementOfSeq
  <2>3. g[n + 1] = insert_edge_once(g[n], f, t[n + 1].d, t[n + 1].line)
    BY <1>2, <2>1
  <2>4. QED
    BY <2>2, <2>3, InsertOnce
<1>7. P = Nat
  <2>1. P \in SUBSET Nat
    OBVIOUS
  <2> HIDE DEF P
  <2>2. QED
    BY <1>5, <1>6, <2>1, SetInduction
<1>8. \A n \in 0..Len(t) : GraphOK(g[n])
  BY <1>1, <1>7
<1>9. Alone[f][r][0] = <<>>
  <2>1. 0 \in 0..Len(t)
    BY <1>1
  <2>2. QED
    BY <1>2, <1>4, <2>1, FirstGraph
<1>10. ASSUME NEW n \in 0..Len(t) PROVE Alone[f][r][n] \in Seq(Edges)
  <2>1. f \in Labels(g[n]) /\ g[n].out \in [Labels(g[n]) -> Seq(Edges)]
    BY <1>8 DEF GraphOK, IsGraph
  <2>2. QED
    BY <1>4, <2>1
<1>11. ASSUME NEW n \in 1..Len(t)
       PROVE  Alone[f][r][n] = Grown(Alone[f][r][n - 1], t[n])
  <2>1. n \in 0..Len(t) /\ n - 1 \in 0..Len(t)
    BY <1>1
  <2>2. GraphOK(g[n - 1]) /\ t[n] \in AllTargets
    BY <1>1, <1>8, <2>1, ElementOfSeq
  <2>3. g[n] = insert_edge_once(g[n - 1], f, t[n].d, t[n].line)
    BY <1>2
  <2>4. g[n].out[f] = Grown(g[n - 1].out[f], t[n])
    BY <2>2, <2>3, InsertOnce
  <2>5. QED
    BY <1>4, <2>1, <2>4
<1>12. QED
  BY <1>9, <1>10, <1>11 DEF t

Leads(out, dst) == \E x \in 1..Len(out) : out[x].dst = dst

(* NameTaken, for the edges out of a file with the calls t.                *)
Taken(out, t, i) ==
  \E k \in 1..(i - 1) :
    t[k].key = t[i].d.name /\ t[k].key # t[i].key /\ Leads(out, t[k].key)

(* insert_edge has found or added an edge for each of the first n calls.   *)
(* If no item is blank it is one to the vertex that the call leads to, or  *)
(* the name was taken; and each edge is of one of these calls, of the      *)
(* first that leads to its vertex with a name that was not taken.          *)
FirstOf(out, t, n) ==
  /\ \A i \in 1..n : Lands(out, t[i])
  /\ NoBlankName => \A i \in 1..n : Leads(out, t[i].key) \/ Taken(out, t, i)
  /\ NoBlankName => \A e \in 1..Len(out) : \E i \in 1..n :
       /\ out[e] = Edge(t[i].key, t[i].line)
       /\ \A k \in 1..(i - 1) : t[k].key = t[i].key => Taken(out, t, k)

LEMMA FirstOfStep ==
  ASSUME NEW t \in Seq(AllTargets), NEW n \in Nat, n + 1 <= Len(t),
         NEW out \in Seq(Edges), FirstOf(out, t, n),
         NEW h, h = Grown(out, t[n + 1])
  PROVE  FirstOf(h, t, n + 1)
<1>1. Len(t) \in Nat /\ n + 1 \in 1..Len(t) /\ t[n + 1] \in AllTargets
  <2>1. Len(t) \in Nat
    BY LenProperties
  <2>2. QED
    BY <2>1, ElementOfSeq
<1> DEFINE u == t[n + 1]
<1>2. /\ h \in Seq(Edges) /\ Lands(h, u) /\ Len(out) \in Nat /\ Len(out) <= Len(h)
      /\ \A i \in 1..Len(out) : i \in 1..Len(h) /\ h[i] = out[i]
      /\ \A i \in 1..Len(h) :
           i \in 1..Len(out) \/ (h[i] = Edge(u.key, u.line) /\ ~Lands(out, u))
  <2>1. h = Grown(out, u) /\ u \in AllTargets
    BY <1>1
  <2> HIDE DEF u
  <2>2. /\ h \in Seq(Edges) /\ Lands(h, u) /\ Len(out) \in Nat /\ Len(out) <= Len(h)
        /\ \A i \in 1..Len(out) : h[i] = out[i]
        /\ \A i \in 1..Len(h) :
             i \in 1..Len(out) \/ (h[i] = Edge(u.key, u.line) /\ ~Lands(out, u))
    <3> DEFINE g == Grown(out, u)
    <3>1. /\ g \in Seq(Edges) /\ Lands(g, u) /\ Len(out) \in Nat /\ Len(out) <= Len(g)
          /\ \A i \in 1..Len(out) : g[i] = out[i]
          /\ \A i \in 1..Len(g) :
               i \in 1..Len(out) \/ (g[i] = Edge(u.key, u.line) /\ ~Lands(out, u))
      BY <2>1, GrownFacts
    <3>2. g = h
      BY <2>1
    <3> HIDE DEF g
    <3>3. QED
      BY <3>1, <3>2
  <2>3. Len(h) \in Nat
    BY <2>2, LenProperties
  <2>4. \A i \in 1..Len(out) : i \in 1..Len(h)
    BY <2>2, <2>3
  <2>5. QED
    BY <2>2, <2>4
<1>3. ASSUME NEW i \in 1..(n + 1) PROVE Lands(h, t[i])
  <2>1. CASE i = n + 1
    BY <1>2, <2>1
  <2>2. CASE i # n + 1
    <3>1. i \in 1..n
      BY <2>2
    <3>2. Lands(out, t[i])
      BY <3>1 DEF FirstOf
    <3>3. QED
      BY <1>1, <3>2, LandsStays
  <2>3. QED
    BY <2>1, <2>2
<1>4. ASSUME NEW dst, Leads(out, dst) PROVE Leads(h, dst)
  BY <1>2, <1>4 DEF Leads
<1>5. ASSUME NEW i, Taken(out, t, i) PROVE Taken(h, t, i)
  BY <1>4, <1>5 DEF Taken
<1>6. ASSUME NEW e \in 1..Len(out), NoBlankName
      PROVE  \E i \in 1..n :
               /\ out[e] = Edge(t[i].key, t[i].line)
               /\ \A k \in 1..(i - 1) : t[k].key = t[i].key => Taken(out, t, k)
  BY <1>6 DEF FirstOf
<1> HIDE DEF u
<1>7. ASSUME NoBlankName, NEW i \in 1..(n + 1)
      PROVE  Leads(h, t[i].key) \/ Taken(h, t, i)
  <2>1. CASE i \in 1..n
    BY <1>4, <1>5, <1>7, <2>1 DEF FirstOf
  <2>2. CASE i = n + 1 /\ Lands(out, u)
    <3>1. u \in AllTargets
      BY <1>1 DEF u
    <3>2. PICK x \in 1..Len(out) : out[x].dst \in {u.key, u.d.name}
      BY <1>7, <2>2, <3>1, LandsThere
    <3>3. CASE out[x].dst = u.key
      BY <1>4, <2>2, <3>3 DEF Leads, u
    <3>4. CASE out[x].dst = u.d.name /\ u.d.name # u.key
      <4>1. PICK k \in 1..n : out[x] = Edge(t[k].key, t[k].line)
        BY <1>6, <1>7
      <4>2. t[k].key = u.d.name /\ Leads(out, t[k].key)
        BY <3>4, <4>1 DEF Edge, Leads
      <4>3. k \in 1..(i - 1)
        BY <2>2
      <4>4. QED
        BY <1>4, <2>2, <3>4, <4>2, <4>3 DEF Taken, u
    <3>5. QED
      BY <3>2, <3>3, <3>4
  <2>3. CASE i = n + 1 /\ ~Lands(out, u)
    <3>1. PICK y \in 1..Len(h) : h[y].dst \in {u.d.name, u.d.dst_path}
      BY <1>2 DEF Lands
    <3>2. y \notin 1..Len(out)
      BY <1>2, <2>3, <3>1 DEF Lands
    <3>3. h[y].dst = u.key
      BY <1>2, <3>2 DEF Edge
    <3>4. QED
      BY <2>3, <3>3 DEF Leads, u
  <2>4. QED
    BY <2>1, <2>2, <2>3
<1>8. ASSUME NoBlankName, NEW e \in 1..Len(h)
      PROVE  \E i \in 1..(n + 1) :
               /\ h[e] = Edge(t[i].key, t[i].line)
               /\ \A k \in 1..(i - 1) : t[k].key = t[i].key => Taken(h, t, k)
  <2>1. CASE e \in 1..Len(out)
    <3>1. PICK i \in 1..n :
            /\ out[e] = Edge(t[i].key, t[i].line)
            /\ \A k \in 1..(i - 1) : t[k].key = t[i].key => Taken(out, t, k)
      BY <1>6, <1>8, <2>1
    <3>2. i \in 1..(n + 1)
      OBVIOUS
    <3>3. h[e] = Edge(t[i].key, t[i].line)
      BY <1>2, <2>1, <3>1
    <3>4. QED
      BY <1>5, <3>1, <3>2, <3>3
  <2>2. CASE e \notin 1..Len(out)
    <3>1. h[e] = Edge(u.key, u.line) /\ ~Lands(out, u)
      BY <1>2, <2>2
    <3>2. ASSUME NEW k \in 1..n, t[k].key = u.key PROVE Taken(h, t, k)
      <4>1. u.key \in {u.d.name, u.d.dst_path}
        BY <1>1, TargetFacts DEF Key, u
      <4>2. ~Leads(out, t[k].key)
        BY <3>1, <3>2, <4>1 DEF Lands, Leads
      <4>3. QED
        BY <1>5, <1>8, <4>2 DEF FirstOf
    <3>3. (n + 1) - 1 = n /\ n + 1 \in 1..(n + 1)
      OBVIOUS
    <3>4. QED
      BY <3>1, <3>2, <3>3 DEF u
  <2>3. QED
    BY <2>1, <2>2
<1>9. QED
  BY <1>3, <1>7, <1>8 DEF FirstOf

LEMMA AloneIsFirst ==
  ASSUME NEW f \in Files, NEW r \in Reports, NEW n \in 0..Len(Targets[f][r])
  PROVE  FirstOf(Alone[f][r][n], Targets[f][r], n)
<1> DEFINE t == Targets[f][r]
           A == Alone[f][r]
           P == {m \in Nat : m <= Len(t) => FirstOf(A[m], t, m)}
<1>1. t \in Seq(AllTargets) /\ Len(t) \in Nat
  BY TargetsFacts
<1>2. /\ A[0] = <<>>
      /\ \A m \in 0..Len(t) : A[m] \in Seq(Edges)
      /\ \A m \in 1..Len(t) : A[m] = Grown(A[m - 1], t[m])
  BY AloneFacts
<1> HIDE DEF t, A
<1>3. 0 \in P
  <2>1. Len(A[0]) = 0
    BY <1>2
  <2>2. QED
    BY <2>1 DEF FirstOf
<1>4. ASSUME NEW m \in P PROVE m + 1 \in P
  <2> SUFFICES ASSUME m + 1 <= Len(t) PROVE FirstOf(A[m + 1], t, m + 1)
    OBVIOUS
  <2>1. m \in Nat /\ m \in 0..Len(t) /\ m + 1 \in 1..Len(t) /\ (m + 1) - 1 = m /\ m <= Len(t)
    BY <1>1
  <2>2. A[m] \in Seq(Edges) /\ A[m + 1] = Grown(A[m], t[m + 1]) /\ FirstOf(A[m], t, m)
    BY <1>2, <2>1
  <2>3. QED
    BY <1>1, <2>1, <2>2, FirstOfStep
<1>5. P = Nat
  <2>1. P \in SUBSET Nat
    OBVIOUS
  <2> HIDE DEF P
  <2>2. QED
    BY <1>3, <1>4, <2>1, SetInduction
<1>6. n \in Nat /\ n <= Len(t)
  BY <1>1 DEF t
<1>7. QED
  BY <1>5, <1>6 DEF t, A

-----------------------------------------------------------------------------
(* Work: what the workers have in hand.                                    *)

(* q is the end of t.                                                      *)
IsEnd(q, t) ==
  Len(q) <= Len(t) /\ \A i \in 1..Len(q) : q[i] = t[Len(t) - Len(q) + i]

LEMMA EndFacts ==
  ASSUME NEW S, NEW t \in Seq(S)
  PROVE  /\ IsEnd(t, t) /\ IsEnd(<<>>, t)
         /\ \A c \in S, q \in Seq(S) : IsEnd(<<c>> \o q, t) =>
              /\ Len(q) < Len(t) /\ IsEnd(q, t)
              /\ Len(t) - Len(q) \in 1..Len(t) /\ t[Len(t) - Len(q)] = c
              /\ Len(<<c>> \o q) = Len(q) + 1
<1>1. Len(t) \in Nat /\ Len(<<>>) = 0
  BY LenProperties
<1>2. IsEnd(t, t)
  <2>1. \A i \in 1..Len(t) : Len(t) - Len(t) + i = i
    BY <1>1
  <2>2. QED
    BY <1>1, <2>1 DEF IsEnd
<1>3. IsEnd(<<>>, t)
  BY <1>1 DEF IsEnd
<1>4. ASSUME NEW c \in S, NEW q \in Seq(S), IsEnd(<<c>> \o q, t)
      PROVE  /\ Len(q) < Len(t) /\ IsEnd(q, t)
             /\ Len(t) - Len(q) \in 1..Len(t) /\ t[Len(t) - Len(q)] = c
             /\ Len(<<c>> \o q) = Len(q) + 1
  <2> DEFINE u == <<c>> \o q
             n == Len(q)
             m == Len(t)
  <2>1. /\ n \in Nat /\ m \in Nat /\ Len(u) = n + 1 /\ u[1] = c
        /\ \A i \in 1..n : u[i + 1] = q[i]
    <3>1. <<c>> \in Seq(S) /\ Len(<<c>>) = 1 /\ <<c>>[1] = c
      OBVIOUS
    <3>2. n \in Nat
      BY LenProperties
    <3>3. QED
      BY <1>1, <3>1, <3>2, ConcatProperties
  <2>2. Len(u) <= m /\ \A i \in 1..Len(u) : u[i] = t[m - Len(u) + i]
    BY <1>4 DEF IsEnd
  <2> HIDE DEF u, n, m
  <2>3. n < m /\ n <= m /\ m - n \in 1..m /\ m - (n + 1) + 1 = m - n /\ 1 \in 1..(n + 1)
    BY <2>1, <2>2
  <2>4. t[m - n] = c
    BY <2>1, <2>2, <2>3
  <2>5. ASSUME NEW i \in 1..n PROVE q[i] = t[m - n + i]
    <3>1. i + 1 \in 1..(n + 1) /\ m - (n + 1) + (i + 1) = m - n + i
      BY <2>1
    <3>2. u[i + 1] = t[m - (n + 1) + (i + 1)]
      BY <2>1, <2>2, <3>1
    <3>3. QED
      BY <2>1, <3>1, <3>2
  <2>6. QED
    BY <2>1, <2>3, <2>4, <2>5 DEF IsEnd, u, n, m
<1>5. QED
  BY <1>2, <1>3, <1>4

(* A worker without a job has nothing to do; one with a job has taken it,  *)
(* alone, and has still to make the last of the calls that it is for.      *)
WorkOK(rep, td, jb, pd) ==
  /\ rep \in [Files -> Reports] /\ td \in SUBSET Jobs
  /\ jb \in [Workers -> Jobs \cup {NoJob}] /\ pd \in [Workers -> Seq(Calls)]
  /\ \A w \in Workers : jb[w] = NoJob => pd[w] = <<>>
  /\ \A w \in Workers : jb[w] # NoJob =>
       jb[w] \notin td /\ IsEnd(Leaves(pd[w]), Leaves(CallsOf(rep[job_file[jb[w]]])))
  /\ \A v, w \in Workers : jb[v] = jb[w] /\ jb[v] # NoJob => v = w

(* Made and Progress, of any values of the variables.                      *)
CallsIn(f, rep) == Len(Targets[f][rep[f]])
LeftIn(j, jb, pd) ==
  IF {w \in Workers : jb[w] = j} = {} THEN <<>>
  ELSE pd[CHOOSE w \in {w \in Workers : jb[w] = j} : TRUE]
MadeIn(j, rep, td, jb, pd) ==
  IF j \in td THEN 0
  ELSE CallsIn(job_file[j], rep) - Len(Leaves(LeftIn(j, jb, pd)))
Most(made) == CHOOSE n \in made : \A k \in made : k <= n
MostIn(src, rep, td, jb, pd) == Most({MadeIn(j, rep, td, jb, pd) : j \in JobsOf(src)})

LEMMA MadeIs ==
  ASSUME NEW j
  PROVE  /\ Made(j) = MadeIn(j, report, todo, job, pending)
         /\ Made(j)' = MadeIn(j, report', todo', job', pending')
<1>1. /\ CallsLeft(j) = LeftIn(j, job, pending)
      /\ CallsLeft(j)' = LeftIn(j, job', pending')
  BY DEF CallsLeft, Holder, LeftIn
<1>2. QED
  BY <1>1 DEF Made, MadeIn, TargetsOf, CallsIn

LEMMA ProgressIs ==
  ASSUME NEW src
  PROVE  /\ Progress(src) = Most({Made(j) : j \in JobsOf(src)})
         /\ Progress(src)' = Most({Made(j)' : j \in JobsOf(src)})
         /\ Progress(src) = MostIn(src, report, todo, job, pending)
         /\ Progress(src)' = MostIn(src, report', todo', job', pending')
<1>1. Progress(src) = Most({Made(j) : j \in JobsOf(src)})
  BY DEF Progress, Most
<1>2. Progress(src)' = Most({Made(j)' : j \in JobsOf(src)})
  BY DEF Progress, Most, JobsOf
<1>3. /\ {Made(j) : j \in JobsOf(src)}
           = {MadeIn(j, report, todo, job, pending) : j \in JobsOf(src)}
      /\ {Made(j)' : j \in JobsOf(src)}
           = {MadeIn(j, report', todo', job', pending') : j \in JobsOf(src)}
  BY MadeIs
<1>4. QED
  BY <1>1, <1>2, <1>3 DEF MostIn

LEMMA JobFacts ==
  /\ NoJob \notin Jobs
  /\ \A j \in Jobs : job_file[j] \in Files
  /\ \A src \in Files : JobsOf(src) # {} /\ JobsOf(src) \subseteq Jobs
<1>1. Len(job_file) \in Nat
  BY PyAssumption, LenProperties
<1>2. \A j \in Jobs : job_file[j] \in Files
  BY PyAssumption, ElementOfSeq DEF Jobs
<1>3. QED
  BY <1>1, <1>2, PyAssumption DEF Jobs, NoJob, JobsOf

LEMMA MadeCases ==
  ASSUME NEW rep, NEW td, NEW jb, NEW pd, WorkOK(rep, td, jb, pd), NEW j \in Jobs
  PROVE  /\ CallsIn(job_file[j], rep) \in Nat
         /\ MadeIn(j, rep, td, jb, pd) \in 0..CallsIn(job_file[j], rep)
         /\ j \in td => MadeIn(j, rep, td, jb, pd) = 0
         /\ \A w \in Workers : jb[w] = j =>
              MadeIn(j, rep, td, jb, pd) = CallsIn(job_file[j], rep) - Len(Leaves(pd[w]))
         /\ j \notin td /\ (\A w \in Workers : jb[w] # j) =>
              MadeIn(j, rep, td, jb, pd) = CallsIn(job_file[j], rep)
<1> DEFINE f == job_file[j]
           n == CallsIn(f, rep)
           m == MadeIn(j, rep, td, jb, pd)
           H == {w \in Workers : jb[w] = j}
<1>1. f \in Files /\ rep[f] \in Reports /\ j # NoJob
  BY JobFacts DEF WorkOK
<1>2. n \in Nat /\ n = Len(Leaves(CallsOf(rep[f])))
  BY <1>1, TargetsFacts DEF CallsIn
<1> HIDE DEF n
<1>3. CASE j \in td
  <2>1. m = 0
    BY <1>3 DEF MadeIn
  <2>2. \A w \in Workers : jb[w] # j
    BY <1>1, <1>3 DEF WorkOK
  <2> HIDE DEF m
  <2>3. QED
    BY <1>2, <1>3, <2>1, <2>2 DEF n, m
<1>4. CASE j \notin td /\ H = {}
  <2>1. LeftIn(j, jb, pd) = <<>>
    BY <1>4 DEF LeftIn
  <2>2. m = n - Len(<<>>)
    BY <1>4, <2>1, LeavesOfNone DEF MadeIn, n, CallsIn
  <2>3. m = n
    BY <1>2, <2>2
  <2>4. \A w \in Workers : jb[w] # j
    BY <1>4
  <2> HIDE DEF m, H
  <2>5. QED
    BY <1>2, <1>4, <2>3, <2>4 DEF n, m
<1>5. CASE j \notin td /\ H # {}
  <2>1. PICK w \in Workers : jb[w] = j
    BY <1>5
  <2>2. \A v \in Workers : jb[v] = j => v = w
    BY <1>1, <2>1 DEF WorkOK
  <2>3. H = {w}
    BY <2>1, <2>2
  <2>4. LeftIn(j, jb, pd) = pd[w]
    <3>1. (CHOOSE v \in H : TRUE) = w
      BY <2>3
    <3>2. QED
      BY <1>5, <3>1 DEF LeftIn
  <2> DEFINE k == Len(Leaves(pd[w]))
  <2>5. k \in Nat /\ k <= n
    <3>1. pd[w] \in Seq(Calls) /\ IsEnd(Leaves(pd[w]), Leaves(CallsOf(rep[f])))
      BY <1>1, <2>1 DEF WorkOK
    <3>2. Leaves(pd[w]) \in Seq(LeafCalls)
      BY <3>1, LeavesType
    <3>3. QED
      BY <1>2, <3>1, <3>2, LenProperties DEF IsEnd
  <2>6. m = n - k
    BY <1>5, <2>4 DEF MadeIn, n, CallsIn
  <2>7. \A v \in Workers : jb[v] = j => Len(Leaves(pd[v])) = k
    BY <2>2
  <2> HIDE DEF m, H, k
  <2>8. m \in 0..n
    BY <1>2, <2>5, <2>6
  <2>9. QED
    BY <1>2, <1>5, <2>1, <2>6, <2>7, <2>8 DEF n, m
<1>6. QED
  BY <1>3, <1>4, <1>5

LEMMA SameMade ==
  ASSUME NEW rep, NEW td, NEW jb, NEW pd, WorkOK(rep, td, jb, pd),
         NEW td2, NEW jb2, NEW pd2, WorkOK(rep, td2, jb2, pd2),
         NEW j \in Jobs, j \in td <=> j \in td2,
         \A w \in Workers : jb[w] = j <=> jb2[w] = j,
         \A w \in Workers : jb[w] = j => Leaves(pd[w]) = Leaves(pd2[w])
  PROVE  MadeIn(j, rep, td2, jb2, pd2) = MadeIn(j, rep, td, jb, pd)
<1>1. CASE \E w \in Workers : jb[w] = j
  <2>1. PICK w \in Workers : jb[w] = j
    BY <1>1
  <2>2. jb2[w] = j /\ Leaves(pd[w]) = Leaves(pd2[w])
    BY <2>1
  <2>3. QED
    BY <2>1, <2>2, MadeCases
<1>2. CASE ~(\E w \in Workers : jb[w] = j)
  BY <1>2, MadeCases
<1>3. QED
  BY <1>1, <1>2

(* A bounded set of numbers has a largest.                                 *)
LEMMA LargestNumber ==
  ASSUME NEW n \in Nat, NEW S \in SUBSET (0..n), S # {}
  PROVE  Most(S) \in S /\ \A k \in S : k <= Most(S)
<1> DEFINE U == {n - k : k \in S}
           P(x) == \A k \in S : k <= x
<1>1. U \in SUBSET Nat /\ U # {}
  <2>1. \A k \in S : k \in 0..n
    OBVIOUS
  <2>2. \A k \in S : n - k \in Nat
    BY <2>1
  <2>3. QED
    BY <2>2
<1> HIDE DEF U
<1>2. Min(U) \in U /\ \A u \in U : Min(U) <= u
  BY <1>1, LeastNumber
<1>3. PICK x \in S : Min(U) = n - x
  BY <1>2 DEF U
<1>4. P(x)
  <2> TAKE k \in S
  <2>1. n - k \in U
    BY DEF U
  <2>2. n - x <= n - k
    BY <1>2, <1>3, <2>1
  <2>3. k \in Nat /\ x \in Nat
    OBVIOUS
  <2>4. QED
    BY <2>2, <2>3
<1> HIDE DEF P
<1>5. (CHOOSE y \in S : P(y)) \in S /\ P(CHOOSE y \in S : P(y))
  BY <1>4
<1>6. QED
  BY <1>5 DEF Most, P

LEMMA MostFacts ==
  ASSUME NEW rep, NEW td, NEW jb, NEW pd, WorkOK(rep, td, jb, pd), NEW src \in Files
  PROVE  /\ \E j \in JobsOf(src) :
              MostIn(src, rep, td, jb, pd) = MadeIn(j, rep, td, jb, pd)
         /\ \A j \in JobsOf(src) :
              MadeIn(j, rep, td, jb, pd) <= MostIn(src, rep, td, jb, pd)
         /\ MostIn(src, rep, td, jb, pd) \in 0..CallsIn(src, rep)
<1> DEFINE S == {MadeIn(j, rep, td, jb, pd) : j \in JobsOf(src)}
           n == CallsIn(src, rep)
<1>1. rep[src] \in Reports
  BY DEF WorkOK
<1>2. n \in Nat
  BY <1>1, TargetsFacts DEF CallsIn
<1>3. JobsOf(src) # {} /\ \A j \in JobsOf(src) : j \in Jobs /\ job_file[j] = src
  BY JobFacts DEF JobsOf
<1>4. \A j \in JobsOf(src) : MadeIn(j, rep, td, jb, pd) \in 0..n
  BY <1>3, MadeCases
<1> HIDE DEF n
<1>5. S \in SUBSET (0..n) /\ S # {}
  BY <1>3, <1>4
<1>6. Most(S) \in S /\ \A k \in S : k <= Most(S)
  <2> HIDE DEF S
  <2>1. QED
    BY <1>2, <1>5, LargestNumber
<1>7. MostIn(src, rep, td, jb, pd) = Most(S)
  BY DEF MostIn
<1> DEFINE x == Most(S)
<1> HIDE DEF x
<1>8. x \in S /\ \A k \in S : k <= x
  BY <1>6 DEF x
<1>9. QED
  BY <1>5, <1>7, <1>8 DEF x, n

-----------------------------------------------------------------------------
(* The inductive invariant: what is in hand; that one worker at most holds *)
(* graph_mutex, which has a statement without a list to add an edge for;   *)
(* and a graph whose edges lead to vertexes, each under its own key.       *)
WorkInv ==
  /\ WorkOK(report, todo, job, pending)
  /\ graph_mutex \subseteq Workers /\ \A v, w \in graph_mutex : v = w
  /\ \A w \in graph_mutex : pending[w] # <<>> /\ ~IsSplit(Head(pending[w]))
  /\ GraphOK(graph)

(* A step either adds the edge of a job's next call, or leaves the graph   *)
(* and what the jobs have come to as they are.                             *)
Still ==
  /\ graph' = graph /\ report' = report
  /\ \A j \in Jobs : Made(j)' = Made(j)
Moved(j) ==
  /\ report' = report
  /\ Made(j) + 1 \in 1..Len(TargetsOf(job_file[j])) /\ Made(j)' = Made(j) + 1
  /\ \A k \in Jobs \ {j} : Made(k)' = Made(k)
  /\ LET t == TargetsOf(job_file[j])[Made(j) + 1]
     IN  graph' = insert_edge_once(graph, job_file[j], t.d, t.line)

(* A step that takes nothing out of the leaves of what is to be done.      *)
LEMMA StillStep ==
  ASSUME WorkInv, report' = report, graph' = graph, WorkOK(report', todo', job', pending'),
         NEW g, g \in Jobs \cup {NoJob},
         \A j \in Jobs \ {g} :
            /\ j \in todo <=> j \in todo'
            /\ \A v \in Workers : job[v] = j <=> job'[v] = j
            /\ \A v \in Workers : job[v] = j => Leaves(pending[v]) = Leaves(pending'[v]),
         g # NoJob => Made(g)' = Made(g)
  PROVE  Still
<1>1. WorkOK(report, todo, job, pending) /\ WorkOK(report, todo', job', pending')
  BY DEF WorkInv
<1>2. ASSUME NEW j \in Jobs, j # g PROVE Made(j)' = Made(j)
  <2>1. MadeIn(j, report, todo', job', pending') = MadeIn(j, report, todo, job, pending)
    BY <1>1, <1>2, SameMade
  <2>2. QED
    BY <2>1, MadeIs
<1>3. \A j \in Jobs : j = g => g # NoJob
  BY JobFacts
<1>4. QED
  BY <1>2, <1>3 DEF Still

LEMMA TakeFileStep ==
  ASSUME WorkInv, NEW w \in Workers, TakeFile(w)
  PROVE  WorkInv' /\ Still
<1>0. WorkOK(report, todo, job, pending)
  BY DEF WorkInv
<1>1. PICK j \in todo :
        /\ todo' = todo \ {j}
        /\ job' = [job EXCEPT ![w] = j]
        /\ pending' = [pending EXCEPT ![w] = CallsOf(report[job_file[j]])]
  BY DEF TakeFile
<1>2. job[w] = NoJob /\ graph' = graph /\ graph_mutex' = graph_mutex /\ report' = report
  BY DEF TakeFile
<1> DEFINE f == job_file[j]
           c == CallsOf(report[f])
<1>3. j \in Jobs /\ j # NoJob /\ f \in Files /\ report[f] \in Reports
  BY <1>0, JobFacts DEF WorkOK
<1>4. c \in Seq(Calls) /\ Leaves(c) \in Seq(LeafCalls)
      /\ CallsIn(f, report) = Len(Leaves(c)) /\ CallsIn(f, report) \in Nat
  <2>1. c \in Seq(Calls)
    BY <1>3, CallsOfFacts, SeqMonotonic DEF Calls
  <2>2. QED
    BY <1>3, <2>1, TargetsFacts DEF CallsIn
<1>5. pending[w] = <<>> /\ \A v \in Workers : job[v] # j
  BY <1>0, <1>2, <1>3, <1>1 DEF WorkOK
<1>6. /\ job' \in [Workers -> Jobs \cup {NoJob}] /\ job'[w] = j
      /\ \A v \in Workers \ {w} : job'[v] = job[v]
      /\ pending' \in [Workers -> Seq(Calls)] /\ pending'[w] = c
      /\ \A v \in Workers \ {w} : pending'[v] = pending[v]
  <2> HIDE DEF c
  <2>1. pending' = [pending EXCEPT ![w] = c]
    BY <1>1 DEF c
  <2>2. QED
    BY <1>0, <1>1, <1>3, <1>4, <2>1 DEF WorkOK
<1> HIDE DEF c
<1>7. IsEnd(Leaves(c), Leaves(c))
  BY <1>4, EndFacts
<1>8. WorkOK(report', todo', job', pending')
  <2>1. todo' \in SUBSET Jobs
    BY <1>0, <1>1 DEF WorkOK
  <2>2. ASSUME NEW v \in Workers, job'[v] = NoJob PROVE pending'[v] = <<>>
    BY <1>0, <1>3, <1>6, <2>2 DEF WorkOK
  <2>3. ASSUME NEW v \in Workers, job'[v] # NoJob
        PROVE  job'[v] \notin todo' /\
               IsEnd(Leaves(pending'[v]), Leaves(CallsOf(report[job_file[job'[v]]])))
    <3>1. CASE v = w
      BY <1>1, <1>6, <1>7, <3>1 DEF c
    <3>2. CASE v # w
      BY <1>0, <1>1, <1>6, <2>3, <3>2 DEF WorkOK
    <3>3. QED
      BY <3>1, <3>2
  <2>4. ASSUME NEW u \in Workers, NEW v \in Workers, job'[u] = job'[v], job'[u] # NoJob
        PROVE  u = v
    BY <1>0, <1>5, <1>6, <2>4 DEF WorkOK
  <2>5. QED
    BY <1>0, <1>2, <1>6, <2>1, <2>2, <2>3, <2>4 DEF WorkOK
<1>9. Made(j)' = Made(j)
  <2>1. MadeIn(j, report, todo, job, pending) = 0
    BY <1>0, <1>3, MadeCases
  <2>2. WorkOK(report, todo', job', pending')
    BY <1>2, <1>8
  <2>3. MadeIn(j, report, todo', job', pending') = CallsIn(f, report) - Len(Leaves(pending'[w]))
    BY <1>3, <1>6, <2>2, MadeCases
  <2>4. MadeIn(j, report, todo', job', pending') = 0
    BY <1>4, <1>6, <2>3
  <2>5. QED
    BY <1>2, <2>1, <2>4, MadeIs
<1>10. Still
  <2>1. \A k \in Jobs \ {j} :
            /\ k \in todo <=> k \in todo'
            /\ \A v \in Workers : job[v] = k <=> job'[v] = k
            /\ \A v \in Workers : job[v] = k => Leaves(pending[v]) = Leaves(pending'[v])
    <3>1. \A k \in Jobs : k # NoJob
      BY JobFacts
    <3>2. QED
      BY <1>1, <1>2, <1>6, <3>1
  <2>2. QED
    BY <1>2, <1>3, <1>8, <1>9, <2>1, StillStep
<1>11. QED
  <2>2. \A v \in graph_mutex' : pending'[v] # <<>> /\ ~IsSplit(Head(pending'[v]))
    BY <1>2, <1>5, <1>6 DEF WorkInv
  <2>3. GraphOK(graph')
    BY <1>2 DEF WorkInv
  <2>4. QED
    BY <1>2, <1>8, <1>10, <2>2, <2>3 DEF WorkInv

LEMMA FileDoneStep ==
  ASSUME WorkInv, NEW w \in Workers, FileDone(w)
  PROVE  WorkInv' /\ Still
<1>0. WorkOK(report, todo, job, pending)
  BY DEF WorkInv
<1>1. /\ job[w] # NoJob /\ pending[w] = <<>> /\ job' = [job EXCEPT ![w] = NoJob]
      /\ graph' = graph /\ graph_mutex' = graph_mutex /\ report' = report
      /\ todo' = todo /\ pending' = pending
  BY DEF FileDone
<1>2. PICK j \in Jobs : j = job[w] /\ j \notin todo
  BY <1>0, <1>1 DEF WorkOK
<1>3. /\ job' \in [Workers -> Jobs \cup {NoJob}] /\ job'[w] = NoJob
      /\ \A v \in Workers \ {w} : job'[v] = job[v]
  BY <1>0, <1>1 DEF WorkOK
<1>4. \A v \in Workers \ {w} : job[v] # j
  BY <1>0, <1>1, <1>2 DEF WorkOK
<1>5. WorkOK(report', todo', job', pending')
  BY <1>0, <1>1, <1>3 DEF WorkOK
<1>6. Made(j)' = Made(j)
  <2>1. Leaves(pending[w]) = <<>>
    BY <1>1, LeavesOfNone
  <2>2. CallsIn(job_file[j], report) \in Nat
    BY <1>0, <1>2, MadeCases
  <2>3. MadeIn(j, report, todo, job, pending) = CallsIn(job_file[j], report) - Len(Leaves(pending[w]))
    BY <1>0, <1>2, MadeCases
  <2>4. MadeIn(j, report, todo, job, pending) = CallsIn(job_file[j], report)
    BY <2>1, <2>2, <2>3
  <2>5. j # NoJob /\ \A v \in Workers : job'[v] # j
    BY <1>2, <1>3, <1>4, JobFacts
  <2>6. WorkOK(report, todo', job', pending') /\ j \notin todo'
    BY <1>1, <1>2, <1>5
  <2>7. MadeIn(j, report, todo', job', pending') = CallsIn(job_file[j], report)
    BY <2>5, <2>6, MadeCases
  <2>8. QED
    BY <1>1, <2>4, <2>7, MadeIs
<1>7. Still
  <2>1. \A k \in Jobs \ {j} :
            /\ k \in todo <=> k \in todo'
            /\ \A v \in Workers : job[v] = k <=> job'[v] = k
            /\ \A v \in Workers : job[v] = k => Leaves(pending[v]) = Leaves(pending'[v])
    <3>1. \A k \in Jobs : k # NoJob
      BY JobFacts
    <3>2. QED
      BY <1>1, <1>2, <1>3, <3>1
  <2>2. QED
    BY <1>1, <1>2, <1>5, <1>6, <2>1, StillStep
<1>8. QED
  <2>1. GraphOK(graph')
    BY <1>1 DEF WorkInv
  <2>2. QED
    BY <1>1, <1>5, <1>7, <2>1 DEF WorkInv

LEMMA SplitStep ==
  ASSUME WorkInv, NEW w \in Workers, Split(w)
  PROVE  WorkInv' /\ Still
<1>0. WorkOK(report, todo, job, pending)
  BY DEF WorkInv
<1> DEFINE p == pending[w]
           c == Head(p)
           q == Tail(p)
           r == Expansion[c] \o q
<1>1. /\ p # <<>> /\ IsSplit(c) /\ pending' = [pending EXCEPT ![w] = r]
      /\ graph' = graph /\ graph_mutex' = graph_mutex /\ report' = report
      /\ todo' = todo /\ job' = job
  BY DEF Split
<1>2. p \in Seq(Calls)
  BY <1>0 DEF WorkOK
<1>3. c \in Calls /\ q \in Seq(Calls) /\ p = <<c>> \o q
  BY <1>1, <1>2, HeadAndTail
<1> HIDE DEF p, c, q
<1>4. c \in Reported /\ LeavesOf(c) = Expansion[c] /\ Expansion[c] \in Seq(LeafCalls)
  BY <1>1, <1>3, LeavesOfFacts, ExpansionFacts
<1>5. r \in Seq(Calls) /\ Leaves(r) = Leaves(p)
  <2>1. Leaves(p) = Expansion[c] \o Leaves(q)
    BY <1>3, <1>4, LeavesFirst
  <2>2. QED
    BY <1>3, <1>4, <2>1, LeavesOfChildren
<1> HIDE DEF r
<1>6. /\ pending' \in [Workers -> Seq(Calls)] /\ pending'[w] = r
      /\ \A v \in Workers \ {w} : pending'[v] = pending[v]
  BY <1>0, <1>1, <1>5 DEF WorkOK
<1>7. \A v \in Workers : Leaves(pending'[v]) = Leaves(pending[v])
  BY <1>5, <1>6 DEF p
<1>8. WorkOK(report', todo', job', pending')
  <2>1. job[w] # NoJob
    BY <1>0, <1>1 DEF WorkOK, p
  <2>2. QED
    BY <1>0, <1>1, <1>6, <1>7, <2>1 DEF WorkOK
<1>9. Still
  BY <1>1, <1>7, <1>8, StillStep
<1>10. QED
  <2>1. w \notin graph_mutex
    BY <1>1 DEF WorkInv, p, c
  <2>2. \A v \in graph_mutex' : pending'[v] # <<>> /\ ~IsSplit(Head(pending'[v]))
    BY <1>1, <1>6, <2>1 DEF WorkInv
  <2>3. GraphOK(graph')
    BY <1>1 DEF WorkInv
  <2>4. QED
    BY <1>1, <1>8, <1>9, <2>2, <2>3 DEF WorkInv

LEMMA LockStep ==
  ASSUME WorkInv, NEW w \in Workers, AddEdgeLock(w)
  PROVE  WorkInv' /\ Still
<1>0. WorkOK(report, todo, job, pending)
  BY DEF WorkInv
<1>1. /\ pending[w] # <<>> /\ ~IsSplit(Head(pending[w])) /\ graph_mutex' = {w}
      /\ graph' = graph /\ report' = report /\ todo' = todo /\ job' = job
      /\ pending' = pending
  BY DEF AddEdgeLock
<1>2. WorkOK(report', todo', job', pending') /\ GraphOK(graph')
  BY <1>0, <1>1 DEF WorkInv
<1>3. Still
  BY <1>1, <1>2, StillStep
<1>4. QED
  BY <1>1, <1>2, <1>3 DEF WorkInv

LEMMA AddEdgeStep ==
  ASSUME WorkInv, NEW w \in Workers, AddEdge(w)
  PROVE  WorkInv' /\ \E j \in Jobs : Moved(j)
<1>0. WorkOK(report, todo, job, pending) /\ GraphOK(graph)
  BY DEF WorkInv
<1> DEFINE p == pending[w]
           c == Head(p)
           q == Tail(p)
<1>a. job[w] \in Jobs
  <2>1. p # <<>>
    BY DEF AddEdge, WorkInv
  <2>2. QED
    BY <1>0, <2>1 DEF WorkOK
<1>b. PICK j \in Jobs : j = job[w]
  BY <1>a
<1> DEFINE f == job_file[j]
           L == Leaves(CallsOf(report[f]))
           T == Targets[f][report[f]]
           m == Len(L) - Len(Leaves(q))
<1>1. /\ graph_mutex = {w} /\ graph_mutex' = {}
      /\ graph' = insert_edge_once(graph, f, Destination[f][c], c.line_no)
      /\ pending' = [pending EXCEPT ![w] = q]
      /\ report' = report /\ todo' = todo /\ job' = job
  <2>1. graph_mutex = {w}
    BY DEF AddEdge, WorkInv
  <2>2. QED
    BY <1>b, <2>1 DEF AddEdge
<1>2. p # <<>> /\ ~IsSplit(c)
  BY <1>1 DEF WorkInv
<1>3. p \in Seq(Calls) /\ j \in Jobs /\ j # NoJob /\ IsEnd(Leaves(p), L)
  BY <1>0, <1>2, <1>b DEF WorkOK
<1>4. c \in Calls /\ q \in Seq(Calls) /\ p = <<c>> \o q
  BY <1>2, <1>3, HeadAndTail
<1>5. f \in Files /\ report[f] \in Reports
  BY <1>0, <1>3, JobFacts DEF WorkOK
<1>6. /\ L \in Seq(LeafCalls) /\ T \in Seq(AllTargets)
      /\ Len(T) = Len(L) /\ Len(T) \in Nat
      /\ \A i \in 1..Len(T) :
           L[i] \in LeafCalls /\ T[i] = Target(Destination[f][L[i]], L[i].line_no)
  BY <1>5, TargetsFacts
<1> HIDE DEF L, T, p, c, q
<1>7. /\ c \in LeafCalls /\ Leaves(q) \in Seq(LeafCalls)
      /\ Leaves(p) = <<c>> \o Leaves(q)
  BY <1>2, <1>4, LeavesFirst, LeavesOfFacts, LeavesType
<1>8. /\ Len(Leaves(q)) < Len(L) /\ IsEnd(Leaves(q), L)
      /\ m \in 1..Len(L) /\ L[m] = c
      /\ Len(Leaves(p)) = Len(Leaves(q)) + 1 /\ Len(Leaves(q)) \in Nat
  BY <1>3, <1>6, <1>7, EndFacts, LenProperties
<1>9. /\ pending' \in [Workers -> Seq(Calls)] /\ pending'[w] = q
      /\ \A v \in Workers \ {w} : pending'[v] = pending[v]
  BY <1>0, <1>1, <1>4 DEF WorkOK
<1>10. WorkOK(report', todo', job', pending')
  <2>1. ASSUME NEW v \in Workers, job[v] # NoJob
        PROVE  IsEnd(Leaves(pending'[v]), Leaves(CallsOf(report[job_file[job[v]]])))
    <3>1. CASE v = w
      BY <1>8, <1>9, <1>b, <3>1 DEF L
    <3>2. CASE v # w
      BY <1>0, <1>9, <2>1, <3>2 DEF WorkOK
    <3>3. QED
      BY <3>1, <3>2
  <2>2. \A v \in Workers : job[v] = NoJob => pending'[v] = <<>>
    BY <1>0, <1>3, <1>9, <1>b DEF WorkOK
  <2>3. QED
    BY <1>0, <1>1, <1>9, <2>1, <2>2 DEF WorkOK
<1>11. WorkOK(report, todo', job', pending')
  BY <1>1, <1>10
<1> DEFINE t == T[m]
<1>12. /\ t \in AllTargets /\ t.d = Destination[f][c] /\ t.line = c.line_no
  <2>1. t = Target(Destination[f][c], c.line_no)
    BY <1>6, <1>8
  <2>2. t \in AllTargets
    BY <1>6, <1>8, ElementOfSeq
  <2>3. QED
    BY <2>1, <2>2 DEF Target
<1> HIDE DEF t, m
<1>13. Made(j) + 1 = m /\ Made(j)' = m
  <2>1. CallsIn(f, report) = Len(L)
    BY <1>6 DEF CallsIn, T
  <2>2. MadeIn(j, report, todo, job, pending) = Len(L) - Len(Leaves(p))
    BY <1>0, <1>3, <1>b, <2>1, MadeCases DEF p
  <2>3. MadeIn(j, report, todo', job', pending') = Len(L) - Len(Leaves(q))
    <3>1. job'[w] = j
      BY <1>1, <1>b
    <3>2. MadeIn(j, report, todo', job', pending') = CallsIn(f, report) - Len(Leaves(pending'[w]))
      BY <1>11, <3>1, MadeCases
    <3>3. QED
      BY <1>9, <2>1, <3>2
  <2>4. Len(L) \in Nat
    BY <1>6
  <2>5. Made(j) = Len(L) - Len(Leaves(p)) /\ Made(j)' = Len(L) - Len(Leaves(q))
    BY <1>1, <2>2, <2>3, MadeIs
  <2>6. QED
    BY <1>8, <2>4, <2>5 DEF m
<1>14. ASSUME NEW k \in Jobs \ {j} PROVE Made(k)' = Made(k)
  <2>1. /\ \A v \in Workers : job[v] = k <=> job'[v] = k
        /\ \A v \in Workers : job[v] = k => Leaves(pending[v]) = Leaves(pending'[v])
        /\ k \in todo <=> k \in todo'
    BY <1>1, <1>9, <1>b
  <2>2. MadeIn(k, report, todo', job', pending') = MadeIn(k, report, todo, job, pending)
    BY <1>0, <1>11, <2>1, SameMade
  <2>3. QED
    BY <1>1, <2>2, MadeIs
<1>15. Moved(j)
  <2>1. TargetsOf(f) = T
    BY DEF TargetsOf, T
  <2>2. graph' = insert_edge_once(graph, f, t.d, t.line)
    BY <1>1, <1>12
  <2> HIDE DEF f
  <2>3. QED
    BY <1>1, <1>6, <1>8, <1>13, <1>14, <2>1, <2>2 DEF Moved, t, f
<1>16. GraphOK(graph')
  BY <1>0, <1>1, <1>5, <1>12, InsertOnce
<1>17. QED
  BY <1>1, <1>3, <1>10, <1>15, <1>16 DEF WorkInv

LEMMA StepFacts ==
  ASSUME WorkInv, [Next]_vars
  PROVE  WorkInv' /\ (Still \/ \E j \in Jobs : Moved(j))
<1>1. ASSUME NEW w \in Workers, WorkerStep(w)
      PROVE  WorkInv' /\ (Still \/ \E j \in Jobs : Moved(j))
  <2>1. CASE TakeFile(w)
    BY <2>1, TakeFileStep
  <2>2. CASE FileDone(w)
    BY <2>2, FileDoneStep
  <2>3. CASE Split(w)
    BY <2>3, SplitStep
  <2>4. CASE AddEdgeLock(w)
    BY <2>4, LockStep
  <2>5. CASE AddEdge(w)
    BY <2>5, AddEdgeStep
  <2>6. QED
    BY <1>1, <2>1, <2>2, <2>3, <2>4, <2>5 DEF WorkerStep
<1>2. CASE UNCHANGED vars
  <2>1. /\ graph' = graph /\ graph_mutex' = graph_mutex /\ report' = report
        /\ todo' = todo /\ job' = job /\ pending' = pending
    BY <1>2 DEF vars
  <2>2. WorkOK(report', todo', job', pending') /\ GraphOK(graph')
    BY <2>1 DEF WorkInv
  <2>3. Still
    BY <2>1, <2>2, StillStep
  <2>4. QED
    BY <2>1, <2>2, <2>3 DEF WorkInv
<1>3. QED
  BY <1>1, <1>2 DEF Next

-----------------------------------------------------------------------------
(* The edges of a file, whoever added them.                                *)

LEMMA MadeRange ==
  ASSUME WorkInv, NEW j \in Jobs
  PROVE  /\ job_file[j] \in Files /\ report[job_file[j]] \in Reports
         /\ Made(j) \in 0..Len(TargetsOf(job_file[j]))
         /\ Len(TargetsOf(job_file[j])) \in Nat
         /\ Made(j) <= Progress(job_file[j])
<1>1. WorkOK(report, todo, job, pending)
  BY DEF WorkInv
<1> DEFINE f == job_file[j]
<1>2. f \in Files /\ report[f] \in Reports /\ j \in JobsOf(f)
  BY <1>1, JobFacts DEF WorkOK, JobsOf
<1>3. CallsIn(f, report) = Len(TargetsOf(f))
  BY DEF CallsIn, TargetsOf
<1>4. MadeIn(j, report, todo, job, pending) \in 0..CallsIn(f, report)
      /\ CallsIn(f, report) \in Nat
  BY <1>1, MadeCases
<1>5. MadeIn(j, report, todo, job, pending) <= MostIn(f, report, todo, job, pending)
  BY <1>1, <1>2, MostFacts
<1>6. QED
  BY <1>2, <1>3, <1>4, <1>5, MadeIs, ProgressIs

LEMMA ProgressRange ==
  ASSUME WorkInv, NEW src \in Files
  PROVE  /\ report[src] \in Reports
         /\ Progress(src) \in 0..Len(TargetsOf(src)) /\ Len(TargetsOf(src)) \in Nat
         /\ \E j \in JobsOf(src) : Progress(src) = Made(j)
<1>1. WorkOK(report, todo, job, pending)
  BY DEF WorkInv
<1>2. report[src] \in Reports
  BY <1>1 DEF WorkOK
<1>3. CallsIn(src, report) = Len(TargetsOf(src)) /\ Len(TargetsOf(src)) \in Nat
  BY <1>2, TargetsFacts DEF CallsIn, TargetsOf
<1>4. /\ MostIn(src, report, todo, job, pending) \in 0..CallsIn(src, report)
      /\ \E j \in JobsOf(src) :
           MostIn(src, report, todo, job, pending) = MadeIn(j, report, todo, job, pending)
  BY <1>1, MostFacts
<1>5. QED
  BY <1>2, <1>3, <1>4, MadeIs, ProgressIs

LEMMA SameProgress ==
  ASSUME NEW src, \A k \in JobsOf(src) : Made(k)' = Made(k)
  PROVE  Progress(src)' = Progress(src)
<1>1. {Made(k)' : k \in JobsOf(src)} = {Made(k) : k \in JobsOf(src)}
  OBVIOUS
<1>2. QED
  BY <1>1, ProgressIs

(* The job that is ahead decides.                                          *)
LEMMA MovedProgress ==
  ASSUME WorkInv, WorkInv', NEW j \in Jobs, Moved(j), NEW src, src = job_file[j]
  PROVE  /\ Made(j) + 1 <= Progress(src) => Progress(src)' = Progress(src)
         /\ ~(Made(j) + 1 <= Progress(src)) =>
              Progress(src) = Made(j) /\ Progress(src)' = Made(j) + 1
<1>1. src \in Files /\ j \in JobsOf(src)
  BY JobFacts DEF JobsOf
<1>2. /\ report' = report /\ Made(j)' = Made(j) + 1
      /\ \A k \in Jobs \ {j} : Made(k)' = Made(k)
  BY DEF Moved
<1>3. WorkOK(report, todo, job, pending) /\ WorkOK(report', todo', job', pending')
  BY DEF WorkInv
<1>4. \A k \in JobsOf(src) : k \in Jobs /\ Made(k) \in Nat /\ Made(k) <= Progress(src)
  <2>1. \A k \in JobsOf(src) : k \in Jobs /\ job_file[k] = src
    BY DEF JobsOf
  <2>2. QED
    BY <2>1, MadeRange
<1>5. \A k \in JobsOf(src) : Made(k)' <= Progress(src)'
  <2>1. \A k \in JobsOf(src) :
          MadeIn(k, report', todo', job', pending') <= MostIn(src, report', todo', job', pending')
    BY <1>1, <1>3, MostFacts
  <2>2. QED
    BY <2>1, MadeIs, ProgressIs
<1>6. PICK k \in JobsOf(src) : Progress(src) = Made(k)
  BY <1>1, ProgressRange
<1>7. PICK i \in JobsOf(src) : Progress(src)' = Made(i)'
  <2>1. \E i \in JobsOf(src) :
          MostIn(src, report', todo', job', pending') = MadeIn(i, report', todo', job', pending')
    BY <1>1, <1>3, MostFacts
  <2>2. QED
    BY <2>1, MadeIs, ProgressIs
<1> DEFINE P == Progress(src)
           Q == Progress(src)'
           m == Made(j)
<1>8. P \in Nat /\ m \in Nat /\ m <= P /\ m + 1 <= Q
  BY <1>1, <1>2, <1>4, <1>5, <1>6
<1>9. Q = m + 1 \/ (Q \in Nat /\ Q <= P)
  <2>1. CASE i = j
    BY <1>2, <1>7, <2>1
  <2>2. CASE i # j
    <3>1. Made(i)' = Made(i)
      BY <1>2, <1>4, <2>2
    <3>2. QED
      BY <1>4, <1>7, <3>1
  <2>3. QED
    BY <2>1, <2>2
<1>10. P <= Q
  <2>0. Q \in Nat
    BY <1>8, <1>9
  <2>1. CASE k = j
    <3>1. P = m
      BY <1>6, <2>1
    <3> HIDE DEF P, Q, m
    <3>2. QED
      BY <1>8, <2>0, <3>1
  <2>2. CASE k # j
    <3>1. Made(k)' = Made(k)
      BY <1>2, <1>4, <2>2
    <3>2. QED
      BY <1>5, <1>6, <3>1
  <2>3. QED
    BY <2>1, <2>2
<1> HIDE DEF P, Q, m
<1>11. /\ m + 1 <= P => Q = P
       /\ ~(m + 1 <= P) => P = m /\ Q = m + 1
  BY <1>8, <1>9, <1>10
<1>12. QED
  BY <1>11 DEF P, Q, m

LEMMA TwiceStep ==
  ASSUME WorkInv, TwiceIsOnce, [Next]_vars
  PROVE  TwiceIsOnce'
<1>1. WorkInv' /\ (Still \/ \E j \in Jobs : Moved(j))
  BY StepFacts
<1>2. CASE Still
  <2>1. \A src \in Files : \A k \in JobsOf(src) : Made(k)' = Made(k)
    BY <1>2, JobFacts DEF Still
  <2>2. \A src \in Files : Progress(src)' = Progress(src)
    BY <2>1, SameProgress
  <2>3. graph' = graph /\ report' = report
    BY <1>2 DEF Still
  <2>4. QED
    BY <2>2, <2>3 DEF TwiceIsOnce
<1>3. ASSUME NEW j \in Jobs, Moved(j) PROVE TwiceIsOnce'
  <2> DEFINE f == job_file[j]
             T == Targets[f][report[f]]
             A == Alone[f][report[f]]
             m == Made(j)
             t == T[m + 1]
             P == Progress(f)
  <2>1. /\ report' = report /\ m + 1 \in 1..Len(T)
        /\ graph' = insert_edge_once(graph, f, t.d, t.line)
        /\ \A k \in Jobs \ {j} : Made(k)' = Made(k)
    BY <1>3 DEF Moved, TargetsOf
  <2>2. /\ f \in Files /\ report[f] \in Reports /\ m \in Nat /\ GraphOK(graph)
    BY MadeRange DEF WorkInv
  <2>3. t \in AllTargets
    BY <2>1, <2>2, TargetsFacts, ElementOfSeq
  <2>4. /\ graph'.out[f] = Grown(graph.out[f], t)
        /\ \A g \in Files \ {f} : graph'.out[g] = graph.out[g]
    <3> HIDE DEF f, t
    <3>1. QED
      BY <2>1, <2>2, <2>3, InsertOnce
  <2>5. graph.out[f] = A[P] /\ P \in 0..Len(T)
    BY <2>2, ProgressRange DEF TwiceIsOnce, TargetsOf
  <2>6. graph'.out[f] = A[Progress(f)']
    <3>1. CASE m + 1 <= P
      <4>1. Progress(f)' = P
        BY <1>1, <1>3, <3>1, MovedProgress
      <4>2. FirstOf(A[P], T, P)
        BY <2>2, <2>5, AloneIsFirst
      <4>3. Lands(A[P], t)
        <5>1. m + 1 \in 1..P
          BY <2>1, <2>2, <2>5, <3>1
        <5> HIDE DEF A, T, P, m
        <5>2. QED
          BY <4>2, <5>1 DEF FirstOf
      <4>4. QED
        BY <2>4, <2>5, <4>1, <4>3 DEF Grown
    <3>2. CASE ~(m + 1 <= P)
      <4>1. P = m /\ Progress(f)' = m + 1
        BY <1>1, <1>3, <3>2, MovedProgress
      <4>2. A[m + 1] = Grown(A[(m + 1) - 1], t)
        BY <2>1, <2>2, AloneFacts
      <4>3. (m + 1) - 1 = m
        BY <2>2
      <4>4. QED
        BY <2>4, <2>5, <4>1, <4>2, <4>3
    <3>3. QED
      BY <3>1, <3>2
  <2>7. ASSUME NEW src \in Files, src # f
        PROVE  graph'.out[src] = Alone[src][report[src]][Progress(src)']
    <3>1. \A k \in JobsOf(src) : k \in Jobs \ {j}
      BY <2>7 DEF JobsOf
    <3>2. Progress(src)' = Progress(src)
      BY <2>1, <3>1, SameProgress
    <3>3. QED
      BY <2>4, <2>7, <3>2 DEF TwiceIsOnce
  <2>8. QED
    BY <2>1, <2>6, <2>7 DEF TwiceIsOnce
<1>4. QED
  BY <1>1, <1>2, <1>3

LEMMA WorkInit ==
  ASSUME Init
  PROVE  WorkInv /\ TwiceIsOnce
<1>1. /\ graph = WithFiles(EmptyGraph) /\ graph_mutex = {}
      /\ report \in [Files -> Reports] /\ todo = Jobs
      /\ job = [w \in Workers |-> NoJob] /\ pending = [w \in Workers |-> <<>>]
  BY DEF Init
<1>2. WorkOK(report, todo, job, pending)
  <2>1. <<>> \in Seq(Calls)
    BY EmptySeq
  <2>2. QED
    BY <1>1, <2>1 DEF WorkOK
<1>3. WorkInv
  BY <1>1, <1>2, FirstGraph DEF WorkInv
<1>4. ASSUME NEW src \in Files
      PROVE  graph.out[src] = Alone[src][report[src]][Progress(src)]
  <2>1. PICK j \in JobsOf(src) : Progress(src) = Made(j)
    BY <1>3, ProgressRange
  <2>2. Made(j) = 0
    BY <1>1, <2>1, JobFacts DEF Made
  <2>3. Alone[src][report[src]][0] = <<>>
    BY <1>3, ProgressRange, AloneFacts
  <2>4. QED
    BY <1>1, <2>1, <2>2, <2>3, FirstGraph
<1>5. QED
  BY <1>3, <1>4 DEF TwiceIsOnce

LEMMA WorkAlways == Spec => [](WorkInv /\ TwiceIsOnce)
<1>1. Init => WorkInv /\ TwiceIsOnce
  BY WorkInit
<1>2. WorkInv /\ TwiceIsOnce /\ [Next]_vars => (WorkInv /\ TwiceIsOnce)'
  BY StepFacts, TwiceStep
<1>3. QED
  BY <1>1, <1>2, PTL DEF Spec

(* Whoever adds the edges, and with another worker on the same file or     *)
(* not: they are those that one worker would have given the file, as far   *)
(* as the faster one has come.                                             *)
THEOREM TwiceAsOnce == Spec => []TwiceIsOnce
BY WorkAlways, PTL

(* Every variable has its type, no vertex is labelled with the empty path  *)
(* if no item of a list is blank, and whoever holds graph_mutex has a call *)
(* to make.                                                                *)
THEOREM TypeCorrect ==
  ASSUME NoBlankName
  PROVE  Spec => []TypeOK
<1>1. WorkInv => TypeOK
  BY DEF WorkInv, WorkOK, GraphOK, IsGraph, TypeOK
<1>2. QED
  BY <1>1, WorkAlways, PTL

(* The edges of a file, when all of its calls up to its progress are made. *)
LEMMA EdgesAreFirst ==
  ASSUME WorkInv, TwiceIsOnce, NEW src \in Files
  PROVE  /\ FirstOf(graph.out[src], TargetsOf(src), Progress(src))
         /\ Progress(src) \in 0..Len(TargetsOf(src)) /\ Len(TargetsOf(src)) \in Nat
<1>1. /\ report[src] \in Reports
      /\ Progress(src) \in 0..Len(TargetsOf(src)) /\ Len(TargetsOf(src)) \in Nat
      /\ graph.out[src] = Alone[src][report[src]][Progress(src)]
  BY ProgressRange DEF TwiceIsOnce
<1>2. QED
  BY <1>1, AloneIsFirst DEF TargetsOf

LEMMA TakenIs ==
  ASSUME NEW src, NEW i
  PROVE  /\ Taken(graph.out[src], TargetsOf(src), i) <=> NameTaken(src, i)
         /\ \A dst : Leads(graph.out[src], dst) <=> HasEdge(graph, src, dst)
BY DEF Taken, Leads, HasEdge, NameTaken

(* Each call that has been made has left an edge to the very vertex it     *)
(* leads to, unless an earlier line of the file has an edge to another     *)
(* vertex that is labelled with its name; if no item of a list is blank.   *)
THEOREM NothingIsLost ==
  ASSUME NoBlankName
  PROVE  Spec => []NothingLost
<1>1. ASSUME WorkInv, TwiceIsOnce, NEW j \in Jobs, NEW i \in 1..Made(j)
      PROVE  \/ HasEdge(graph, job_file[j], TargetsOf(job_file[j])[i].key)
             \/ NameTaken(job_file[j], i)
  <2> DEFINE f == job_file[j]
  <2>1. f \in Files /\ i \in 1..Progress(f)
    <3>1. f \in Files /\ Made(j) \in Nat /\ Made(j) <= Progress(f)
      BY <1>1, MadeRange
    <3>2. Progress(f) \in Nat
      BY <1>1, <3>1, ProgressRange
    <3>3. QED
      BY <1>1, <3>1, <3>2
  <2>2. FirstOf(graph.out[f], TargetsOf(f), Progress(f))
    BY <1>1, <2>1, EdgesAreFirst
  <2> HIDE DEF f
  <2>3. \/ Leads(graph.out[f], TargetsOf(f)[i].key)
        \/ Taken(graph.out[f], TargetsOf(f), i)
    BY <2>1, <2>2 DEF FirstOf
  <2>4. QED
    BY <2>3, TakenIs DEF f
<1>2. WorkInv /\ TwiceIsOnce => NothingLost
  BY <1>1 DEF NothingLost
<1>3. QED
  BY <1>2, WorkAlways, PTL

(* An edge has the number of the first line of its file that leads there,  *)
(* of those whose name was not taken by an earlier line; if no item of a   *)
(* list is blank.                                                          *)
THEOREM FirstLineKept ==
  ASSUME NoBlankName
  PROVE  Spec => []FirstLineWins
<1>1. ASSUME WorkInv, TwiceIsOnce, NEW src \in Files, NEW e \in 1..Len(graph.out[src])
      PROVE  LET t == TargetsOf(src)
             IN  \E i \in 1..Len(t) :
                   /\ graph.out[src][e] = Edge(t[i].key, t[i].line)
                   /\ \A k \in 1..(i - 1) : t[k].key = t[i].key => NameTaken(src, k)
  <2> DEFINE t == TargetsOf(src)
             P == Progress(src)
  <2>1. /\ FirstOf(graph.out[src], t, P) /\ P \in 0..Len(t) /\ Len(t) \in Nat
    BY <1>1, EdgesAreFirst
  <2>2. \A k : Taken(graph.out[src], t, k) <=> NameTaken(src, k)
    BY TakenIs
  <2> HIDE DEF t, P
  <2>3. PICK i \in 1..P :
          /\ graph.out[src][e] = Edge(t[i].key, t[i].line)
          /\ \A k \in 1..(i - 1) : t[k].key = t[i].key => Taken(graph.out[src], t, k)
    BY <1>1, <2>1 DEF FirstOf
  <2>4. i \in 1..Len(t)
    BY <2>1
  <2>5. QED
    BY <2>2, <2>3, <2>4 DEF t
<1>2. WorkInv /\ TwiceIsOnce => FirstLineWins
  BY <1>1 DEF FirstLineWins
<1>3. QED
  BY <1>2, WorkAlways, PTL

-----------------------------------------------------------------------------
(* What is made of a text: for each item of an import statement that is    *)
(* not one of the mistaken lists, and that names a file of the project,    *)
(* one of the calls for the file leads to such a file.                     *)
TextRule ==
  \A src \in Files, r \in Reports : \A i \in 1..Len(r) :
    \/ Mistaken(r[i].import)
    \/ \A item \in Elements(Meant(r[i].import)) :
         \/ MayMean(src, item) = {}
         \/ \E n \in 1..Len(Targets[src][r]) : Targets[src][r][n].key \in MayMean(src, item)

LEMMA AllMade ==
  ASSUME WorkInv, NEW src \in Files, FileIsDone(src)
  PROVE  Progress(src) = Len(TargetsOf(src))
<1>1. PICK j \in JobsOf(src) : Progress(src) = Made(j)
  BY ProgressRange
<1>2. j \in Jobs /\ job_file[j] = src /\ j \notin todo
      /\ \A w \in Workers : job[w] # j
  BY <1>1 DEF FileIsDone, Holder, JobsOf
<1>3. WorkOK(report, todo, job, pending)
  BY DEF WorkInv
<1>4. MadeIn(j, report, todo, job, pending) = CallsIn(src, report)
  BY <1>2, <1>3, MadeCases
<1>5. QED
  BY <1>1, <1>4, MadeIs DEF CallsIn, TargetsOf

(* Where the text work leads to the files that an import means, the graph  *)
(* does too: whatever the order the workers took the calls in, and         *)
(* whatever was in the graph before, a file that has been processed has an *)
(* edge to such a file for each item that names one, unless the name of    *)
(* the call was taken by an earlier line; if no item is blank.             *)
THEOREM ImportsFollow ==
  ASSUME NoBlankName, TextRule
  PROVE  Spec => []ImportsAsMeant
<1>1. ASSUME WorkInv, TwiceIsOnce, NEW src \in Files, FileIsDone(src),
             NEW n \in 1..Len(TargetsOf(src))
      PROVE  HasEdge(graph, src, TargetsOf(src)[n].key) \/ NameTaken(src, n)
  <2>1. FirstOf(graph.out[src], TargetsOf(src), Len(TargetsOf(src)))
    BY <1>1, AllMade, EdgesAreFirst
  <2>2. \/ Leads(graph.out[src], TargetsOf(src)[n].key)
        \/ Taken(graph.out[src], TargetsOf(src), n)
    BY <1>1, <2>1 DEF FirstOf
  <2>3. QED
    BY <2>2, TakenIs
<1>2. ASSUME WorkInv, TwiceIsOnce PROVE ImportsAsMeant
  <2> SUFFICES ASSUME NEW src \in Files, FileIsDone(src), NEW i \in 1..Len(report[src]),
                      ~Mistaken(report[src][i].import),
                      NEW item \in Elements(Meant(report[src][i].import)),
                      MayMean(src, item) # {}
               PROVE  \/ \E dst \in MayMean(src, item) : HasEdge(graph, src, dst)
                      \/ \E n \in 1..Len(TargetsOf(src)) :
                           TargetsOf(src)[n].key \in MayMean(src, item) /\ NameTaken(src, n)
    BY DEF ImportsAsMeant, Imported
  <2>1. report[src] \in Reports
    BY <1>2, ProgressRange
  <2>2. PICK n \in 1..Len(TargetsOf(src)) : TargetsOf(src)[n].key \in MayMean(src, item)
    BY <2>1 DEF TextRule, TargetsOf
  <2>3. HasEdge(graph, src, TargetsOf(src)[n].key) \/ NameTaken(src, n)
    BY <1>1, <1>2
  <2>4. QED
    BY <2>2, <2>3
<1>3. WorkInv /\ TwiceIsOnce => ImportsAsMeant
  BY <1>2
<1>4. QED
  BY <1>3, WorkAlways, PTL
=============================================================================
