------------------------- MODULE File_Detector_Proofs -------------------------
(***************************************************************************)
(* Proofs about File_Detector, for every file system whose directories are *)
(* a forest apart from links.                                              *)
(***************************************************************************)
EXTENDS File_Detector, Solver_Proofs, FiniteSetTheorems, NaturalsInduction,
        WellFoundedInduction

-----------------------------------------------------------------------------
(* Induction, for a set of numbers.                                        *)
LEMMA SetInduction ==
  ASSUME NEW S \in SUBSET Nat, 0 \in S, \A n \in S : n + 1 \in S
  PROVE  S = Nat
<1> DEFINE R == OpToRel(<, Nat)
           T == Nat \ S
<1>1. IsWellFoundedOn(R, Nat)
  BY NatLessThanWellFounded
<1>2. \A x, y \in Nat : x < y => <<x, y>> \in R
  BY DEF OpToRel
<1> HIDE DEF R
<1>3. CASE T # {}
  <2>1. T \in SUBSET Nat
    OBVIOUS
  <2>2. PICK n \in T : \A m \in T : ~(<<m, n>> \in R)
    <3> HIDE DEF T
    <3>1. QED
      BY <1>1, <1>3, <2>1, WFMin
  <2>3. n \in Nat /\ n # 0 /\ n - 1 \in Nat /\ n - 1 < n
    OBVIOUS
  <2>4. n - 1 \in S
    BY <1>2, <2>2, <2>3
  <2>5. (n - 1) + 1 \in S
    BY <2>4
  <2>6. QED
    BY <2>3, <2>5
<1>4. QED
  BY <1>3

-----------------------------------------------------------------------------
(* The directories, level by level.                                        *)

LEMMA DepthType == MaxDepth \in Nat /\ Cardinality(Dirs) \in Nat /\ MaxLinks \in Nat
<1>1. Cardinality(Dirs) \in Nat /\ MaxLinks \in Nat
  BY FS_CardinalityType, DetectorFilesAssumption
<1>2. \A a, b \in Nat : a * (b + 1) \in Nat
  OBVIOUS
<1>3. QED
  BY <1>1, <1>2 DEF MaxDepth

(* Level n, from the level above it.                                       *)
LevelBelow(n, above) ==
  IF n = 0 THEN RootDirs
  ELSE IF recursive_limit # -1 /\ n > recursive_limit THEN {}
  ELSE UNION {SubDirs(d) : d \in above}

LEMMA LevelsExist ==
  ASSUME NEW m \in Nat
  PROVE  \E f : f = [n \in 0..m |-> LevelBelow(n, f[n - 1])]
<1> DEFINE S == {k \in Nat : \E f : f = [n \in 0..k |-> LevelBelow(n, f[n - 1])]}
<1>1. 0 \in S
  <2> DEFINE f == [n \in 0..0 |-> LevelBelow(0, {})]
  <2>1. \A x : LevelBelow(0, x) = LevelBelow(0, {})
    BY DEF LevelBelow
  <2>2. f = [n \in 0..0 |-> LevelBelow(n, f[n - 1])]
    BY <2>1
  <2>3. QED
    BY <2>2
<1>2. ASSUME NEW k \in S PROVE k + 1 \in S
  <2>1. PICK f : f = [n \in 0..k |-> LevelBelow(n, f[n - 1])]
    OBVIOUS
  <2> DEFINE g == [n \in 0..(k + 1) |-> IF n = k + 1 THEN LevelBelow(k + 1, f[k]) ELSE f[n]]
  <2>2. k \in Nat
    OBVIOUS
  <2>3. \A n \in 0..(k + 1) : g[n] = LevelBelow(n, g[n - 1])
    <3> TAKE n \in 0..(k + 1)
    <3>1. CASE n = k + 1
      BY <2>2, <3>1
    <3>2. CASE n = 0
      BY <2>1, <2>2, <3>2 DEF LevelBelow
    <3>3. CASE n # 0 /\ n # k + 1
      <4>1. n \in 0..k /\ n - 1 \in 0..(k + 1) /\ n - 1 # k + 1
        BY <2>2, <3>3
      <4>2. g[n] = f[n] /\ g[n - 1] = f[n - 1] /\ f[n] = LevelBelow(n, f[n - 1])
        BY <2>1, <3>3, <4>1
      <4>3. QED
        BY <4>2
    <3>4. QED
      BY <3>1, <3>2, <3>3
  <2>4. g = [n \in 0..(k + 1) |-> LevelBelow(n, g[n - 1])]
    BY <2>3
  <2>5. k + 1 \in Nat
    BY <2>2
  <2> HIDE DEF g
  <2>6. QED
    BY <2>4, <2>5
<1>3. S = Nat
  <2>1. S \in SUBSET Nat
    OBVIOUS
  <2> HIDE DEF S
  <2>2. QED
    BY <1>1, <1>2, <2>1, SetInduction
<1>4. QED
  BY <1>3

LEMMA DirsAtLevels ==
  \A n \in 0..MaxDepth : DirsAt[n] = LevelBelow(n, DirsAt[n - 1])
<1>1. PICK f : f = [n \in 0..MaxDepth |-> LevelBelow(n, f[n - 1])]
  BY DepthType, LevelsExist
<1>2. DirsAt = CHOOSE g : g = [n \in 0..MaxDepth |-> LevelBelow(n, g[n - 1])]
  BY DEF DirsAt, LevelBelow
<1>3. DirsAt = [n \in 0..MaxDepth |-> LevelBelow(n, DirsAt[n - 1])]
  BY <1>1, <1>2
<1>4. QED
  BY <1>3

LEMMA SameLevels ==
  ASSUME UNCHANGED config
  PROVE  DirsAt' = DirsAt
BY DEF config, DirsAt, RootDirs, SubDirs, InDir, EntryAt, LinksTo, Readable

-----------------------------------------------------------------------------
(* The order of a depth-first walk.                                        *)

LEMMA Least ==
  ASSUME NEW S \in SUBSET Nat, S # {}
  PROVE  \E n \in S : \A m \in S : n <= m
<1> DEFINE T == {n \in Nat : \A m \in 0..n : m \notin S}
<1>1. CASE ~\E n \in S : \A m \in S : n <= m
  <2>1. 0 \in T
    BY <1>1
  <2>2. ASSUME NEW n \in T PROVE n + 1 \in T
    <3>1. \A m \in S : n + 1 <= m
      OBVIOUS
    <3>2. n + 1 \notin S
      BY <1>1, <3>1
    <3>3. QED
      BY <3>2
  <2>3. T = Nat
    <3>1. T \in SUBSET Nat
      OBVIOUS
    <3> HIDE DEF T
    <3>2. QED
      BY <2>1, <2>2, <3>1, SetInduction
  <2>4. PICK s : s \in S
    OBVIOUS
  <2>5. s \in T /\ s \in Nat
    BY <2>3, <2>4
  <2>6. QED
    BY <2>4, <2>5
<1>2. QED
  BY <1>1

Ways == Seq(Nat \ {0})

LEMMA WayType ==
  ASSUME NEW v \in Ways
  PROVE  Len(v) \in Nat /\ \A i \in 1..Len(v) : v[i] \in Nat \ {0}
BY LenProperties, ElementOfSeq DEF Ways

LEMMA SameWay ==
  ASSUME NEW v \in Ways, NEW w \in Ways, Len(v) = Len(w),
         \A j \in 1..Len(v) : v[j] = w[j]
  PROVE  v = w
BY SeqEqual DEF Ways

LEMMA SameStep ==
  ASSUME NEW v \in Ways, NEW w \in Ways, NEW i \in Nat \ {0}, NEW j \in Nat \ {0},
         Append(v, i) = Append(w, j)
  PROVE  v = w /\ i = j
BY AppendInjective DEF Ways

(* v goes on where w ends.                                                 *)
Continues(v, w) == Len(w) <= Len(v) /\ \A i \in 1..Len(w) : v[i] = w[i]

LEMMA SoonerAsymmetric ==
  ASSUME NEW v \in Ways, NEW w \in Ways, Sooner(v, w)
  PROVE  ~Sooner(w, v) /\ v # w
<1>1. PICK k \in 1..Len(v) : k <= Len(w) /\ v[k] < w[k] /\ \A i \in 1..(k - 1) : v[i] = w[i]
  BY DEF Sooner
<1>2. /\ Len(v) \in Nat /\ Len(w) \in Nat
      /\ \A i \in 1..Len(v) : v[i] \in Nat
      /\ \A i \in 1..Len(w) : w[i] \in Nat
  BY WayType
<1>3. v # w
  BY <1>1, <1>2
<1>4. ASSUME Sooner(w, v) PROVE FALSE
  <2>1. PICK j \in 1..Len(w) : j <= Len(v) /\ w[j] < v[j] /\ \A i \in 1..(j - 1) : w[i] = v[i]
    BY <1>4 DEF Sooner
  <2>2. j \in Nat /\ k \in Nat /\ k \in 1..Len(w) /\ j \in 1..Len(v)
    BY <1>1, <1>2, <2>1
  <2>3. CASE j < k
    <3>1. j \in 1..(k - 1)
      BY <2>2, <2>3
    <3>2. QED
      BY <1>1, <1>2, <2>1, <2>2, <3>1
  <2>4. CASE k < j
    <3>1. k \in 1..(j - 1)
      BY <2>2, <2>4
    <3>2. QED
      BY <1>1, <1>2, <2>1, <2>2, <3>1
  <2>5. CASE j = k
    BY <1>1, <1>2, <2>1, <2>2, <2>5
  <2>6. QED
    BY <2>2, <2>3, <2>4, <2>5
<1>5. QED
  BY <1>3, <1>4

(* The next entry, or the next process path.                               *)
IsNext(u, w) ==
  /\ Len(w) # 0 /\ Len(u) = Len(w) /\ u[Len(w)] = w[Len(w)] + 1
  /\ \A i \in 1..(Len(w) - 1) : u[i] = w[i]

LEMMA SoonerThanNext ==
  ASSUME NEW v \in Ways, NEW w \in Ways, NEW u \in Ways, IsNext(u, w)
  PROVE  Sooner(v, u) <=> Sooner(v, w) \/ Continues(v, w)
<1> DEFINE n == Len(w)
<1>1. /\ Len(v) \in Nat /\ n \in Nat \ {0} /\ Len(u) = n
      /\ \A i \in 1..Len(v) : v[i] \in Nat
      /\ \A i \in 1..n : w[i] \in Nat
      /\ u[n] = w[n] + 1 /\ \A i \in 1..(n - 1) : u[i] = w[i]
  BY WayType DEF IsNext
<1> HIDE DEF n
<1>2. ASSUME Sooner(v, u) PROVE Sooner(v, w) \/ Continues(v, w)
  <2>1. PICK k \in 1..Len(v) : k <= n /\ v[k] < u[k] /\ \A i \in 1..(k - 1) : v[i] = u[i]
    BY <1>1, <1>2 DEF Sooner
  <2>2. \A i \in 1..(k - 1) : v[i] = w[i]
    BY <1>1, <2>1
  <2>3. CASE v[k] < w[k]
    BY <2>1, <2>2, <2>3 DEF Sooner, n
  <2>4. CASE ~(v[k] < w[k])
    <3>1. k = n
      BY <1>1, <2>1, <2>4
    <3>2. v[n] = w[n]
      BY <1>1, <2>1, <2>4, <3>1
    <3>3. \A i \in 1..n : v[i] = w[i]
      BY <1>1, <2>2, <3>1, <3>2
    <3>4. n <= Len(v)
      BY <1>1, <2>1, <3>1
    <3>5. QED
      BY <3>3, <3>4 DEF Continues, n
  <2>5. QED
    BY <2>3, <2>4
<1>3. ASSUME Sooner(v, w) PROVE Sooner(v, u)
  <2>1. PICK k \in 1..Len(v) : k <= n /\ v[k] < w[k] /\ \A i \in 1..(k - 1) : v[i] = w[i]
    BY <1>3 DEF Sooner, n
  <2>2. v[k] < u[k]
    <3>1. CASE k = n
      BY <1>1, <2>1, <3>1
    <3>2. CASE k # n
      BY <1>1, <2>1, <3>2
    <3>3. QED
      BY <3>1, <3>2
  <2>3. \A i \in 1..(k - 1) : v[i] = u[i]
    BY <1>1, <2>1
  <2>4. QED
    BY <1>1, <2>1, <2>2, <2>3 DEF Sooner
<1>4. ASSUME Continues(v, w) PROVE Sooner(v, u)
  <2>1. n <= Len(v) /\ \A i \in 1..n : v[i] = w[i]
    BY <1>4 DEF Continues, n
  <2>2. n \in 1..Len(v) /\ v[n] < u[n] /\ \A i \in 1..(n - 1) : v[i] = u[i]
    BY <1>1, <2>1
  <2>3. QED
    BY <1>1, <2>2 DEF Sooner
<1>5. QED
  BY <1>2, <1>3, <1>4

(* The first entry of a directory.                                         *)
LEMMA SoonerThanFirst ==
  ASSUME NEW v \in Ways, NEW w \in Ways, NEW u \in Ways, u = Append(w, 1)
  PROVE  Sooner(v, u) <=> Sooner(v, w)
<1> DEFINE n == Len(w)
<1>1. /\ Len(v) \in Nat /\ n \in Nat /\ Len(u) = n + 1 /\ u[n + 1] = 1
      /\ \A i \in 1..n : u[i] = w[i]
      /\ \A i \in 1..Len(v) : v[i] \in Nat \ {0}
  BY WayType, AppendProperties DEF Ways
<1> HIDE DEF n
<1>2. ASSUME Sooner(v, u) PROVE Sooner(v, w)
  <2>1. PICK k \in 1..Len(v) : k <= n + 1 /\ v[k] < u[k] /\ \A i \in 1..(k - 1) : v[i] = u[i]
    BY <1>1, <1>2 DEF Sooner
  <2>2. k # n + 1
    BY <1>1, <2>1
  <2>3. k <= n /\ u[k] = w[k] /\ \A i \in 1..(k - 1) : v[i] = w[i]
    BY <1>1, <2>1, <2>2
  <2>4. QED
    BY <2>1, <2>3 DEF Sooner, n
<1>3. ASSUME Sooner(v, w) PROVE Sooner(v, u)
  <2>1. PICK k \in 1..Len(v) : k <= n /\ v[k] < w[k] /\ \A i \in 1..(k - 1) : v[i] = w[i]
    BY <1>3 DEF Sooner, n
  <2>2. k <= n + 1 /\ u[k] = w[k] /\ \A i \in 1..(k - 1) : v[i] = u[i]
    BY <1>1, <2>1
  <2>3. QED
    BY <1>1, <2>1, <2>2 DEF Sooner
<1>4. QED
  BY <1>2, <1>3

(* Behind the last entry of a directory: the directory is past.            *)
LEMMA SoonerThanEnd ==
  ASSUME NEW v \in Ways, NEW w \in Ways, NEW i \in Nat \ {0},
         NEW u, u = Append(w, i)
  PROVE  /\ Sooner(v, u) => Sooner(v, w) \/ Continues(v, w)
         /\ Sooner(v, w) => Sooner(v, u)
         /\ Continues(v, w) /\ Len(v) > Len(w) /\ v[Len(w) + 1] < i => Sooner(v, u)
<1> DEFINE n == Len(w)
<1>1. /\ Len(v) \in Nat /\ n \in Nat /\ Len(u) = n + 1 /\ u[n + 1] = i
      /\ \A k \in 1..n : u[k] = w[k]
  BY WayType, AppendProperties DEF Ways
<1> HIDE DEF n
<1>2. ASSUME Sooner(v, u) PROVE Sooner(v, w) \/ Continues(v, w)
  <2>1. PICK k \in 1..Len(v) : k <= n + 1 /\ v[k] < u[k] /\ \A j \in 1..(k - 1) : v[j] = u[j]
    BY <1>1, <1>2 DEF Sooner
  <2>2. CASE k = n + 1
    <3>1. n <= Len(v) /\ \A j \in 1..n : v[j] = w[j]
      BY <1>1, <2>1, <2>2
    <3>2. QED
      BY <3>1 DEF Continues, n
  <2>3. CASE k # n + 1
    <3>1. k <= n /\ u[k] = w[k] /\ \A j \in 1..(k - 1) : v[j] = w[j]
      BY <1>1, <2>1, <2>3
    <3>2. QED
      BY <2>1, <3>1 DEF Sooner, n
  <2>4. QED
    BY <2>2, <2>3
<1>3. ASSUME Sooner(v, w) PROVE Sooner(v, u)
  <2>1. PICK k \in 1..Len(v) : k <= n /\ v[k] < w[k] /\ \A j \in 1..(k - 1) : v[j] = w[j]
    BY <1>3 DEF Sooner, n
  <2>2. k <= n + 1 /\ u[k] = w[k] /\ \A j \in 1..(k - 1) : v[j] = u[j]
    BY <1>1, <2>1
  <2>3. QED
    BY <1>1, <2>1, <2>2 DEF Sooner
<1>4. ASSUME Continues(v, w), Len(v) > Len(w), v[Len(w) + 1] < i PROVE Sooner(v, u)
  <2>1. n + 1 \in 1..Len(v) /\ v[n + 1] < u[n + 1] /\ \A j \in 1..((n + 1) - 1) : v[j] = u[j]
    BY <1>1, <1>4 DEF Continues, n
  <2>2. QED
    BY <1>1, <2>1 DEF Sooner
<1>5. QED
  BY <1>2, <1>3, <1>4

(* Two entries on different sides of a third.                              *)
LEMMA SoonerBetween ==
  ASSUME NEW v \in Ways, NEW w \in Ways, NEW x \in Ways,
         Sooner(v, w), ~Sooner(x, w)
  PROVE  Sooner(v, x) \/ (Continues(w, x) /\ Len(x) < Len(w))
<1>1. PICK k \in 1..Len(v) : k <= Len(w) /\ v[k] < w[k] /\ \A i \in 1..(k - 1) : v[i] = w[i]
  BY DEF Sooner
<1>2. /\ Len(v) \in Nat /\ Len(w) \in Nat /\ Len(x) \in Nat
      /\ \A i \in 1..Len(v) : v[i] \in Nat
      /\ \A i \in 1..Len(w) : w[i] \in Nat
      /\ \A i \in 1..Len(x) : x[i] \in Nat
  BY WayType
<1> DEFINE D == {j \in 1..k : j <= Len(x) /\ x[j] # w[j]}
<1>3. CASE D # {}
  <2>1. D \in SUBSET Nat
    OBVIOUS
  <2>2. PICK j \in D : \A m \in D : j <= m
    <3> HIDE DEF D
    <3>1. QED
      BY <1>3, <2>1, Least
  <2>3. /\ j \in 1..k /\ j <= Len(x) /\ x[j] # w[j] /\ j <= Len(v) /\ j <= Len(w)
        /\ x[j] \in Nat /\ w[j] \in Nat /\ v[j] \in Nat
    BY <1>1, <1>2, <2>2
  <2>4. \A m \in 1..(j - 1) : x[m] = w[m]
    BY <1>1, <1>2, <2>2
  <2>5. ~(x[j] < w[j])
    BY <2>3, <2>4 DEF Sooner
  <2>6. v[j] <= w[j]
    <3>1. CASE j = k
      BY <1>1, <2>3, <3>1
    <3>2. CASE j # k
      BY <1>1, <2>3, <3>2
    <3>3. QED
      BY <3>1, <3>2
  <2>7. j \in 1..Len(v) /\ v[j] < x[j] /\ \A m \in 1..(j - 1) : v[m] = x[m]
    BY <1>1, <2>3, <2>4, <2>5, <2>6
  <2>8. QED
    BY <2>3, <2>7 DEF Sooner
<1>4. CASE D = {}
  <2>1. \A j \in 1..k : j <= Len(x) => x[j] = w[j]
    BY <1>4
  <2>2. CASE k <= Len(x)
    <3>1. v[k] < x[k] /\ \A i \in 1..(k - 1) : v[i] = x[i]
      BY <1>1, <1>2, <2>1, <2>2
    <3>2. QED
      BY <2>2, <3>1 DEF Sooner
  <2>3. CASE ~(k <= Len(x))
    <3>1. Len(x) < k /\ Len(x) < Len(w) /\ \A i \in 1..Len(x) : w[i] = x[i]
      BY <1>1, <1>2, <2>1, <2>3
    <3>2. QED
      BY <1>2, <3>1 DEF Continues
  <2>4. QED
    BY <2>2, <2>3
<1>5. QED
  BY <1>3, <1>4

-----------------------------------------------------------------------------
(* What the levels hold.                                                   *)

Config ==
  fs \in FileSystems /\ process_paths \in ProcessPaths /\ recursive_limit \in Limits

LEMMA ConfigType ==
  ASSUME Config
  PROVE  /\ process_paths \in Seq(Dirs \cup {NoDir}) /\ Len(process_paths) \in Nat
         /\ recursive_limit \in Int
         /\ \A d \in Dirs : fs[d] \in Seq(Entry) /\ Len(fs[d]) \in Nat
BY DetectorFilesAssumption, LenProperties DEF Config

LEMMA EntryType ==
  ASSUME Config, NEW d \in Dirs, NEW i \in 1..Len(fs[d])
  PROVE  /\ fs[d][i].kind = "dir" => fs[d][i].target \in Dirs
         /\ fs[d][i].kind = "file" => fs[d][i].target \in Paths
         /\ fs[d][i].kind \in {"dir", "locked", "file", "other", "dangling"}
         /\ fs[d][i].name \in Names
<1>1. fs[d] \in Seq(Entry)
  BY ConfigType
<1>2. fs[d][i] \in Entry
  <2> HIDE DEF Entry
  <2>1. QED
    BY <1>1, ElementOfSeq
<1>3. QED
  BY <1>2 DEF Entry

DirRecords == [way : Ways, dir : Dirs, links : 0..MaxLinks, sub_path : Seq(Names)]

Within(n) == recursive_limit = -1 \/ n <= recursive_limit

(* c is the directory that entry i of d leads to.                          *)
IsChild(c, d, i) ==
  /\ EntryAt(d, i).kind = "dir" /\ Readable(d, i)
  /\ c = [way |-> Append(d.way, i), dir |-> EntryAt(d, i).target,
          links |-> LinksTo(d, i), sub_path |-> Append(d.sub_path, EntryAt(d, i).name)]

LEMMA RootLevel ==
  ASSUME NEW d
  PROVE  d \in DirsAt[0] <=>
           \E p \in 1..Len(process_paths) :
             /\ process_paths[p] # NoDir
             /\ d = [way |-> <<p>>, dir |-> process_paths[p], links |-> 0, sub_path |-> <<>>]
<1>1. 0 \in 0..MaxDepth
  BY DepthType
<1>2. DirsAt[0] = RootDirs
  BY <1>1, DirsAtLevels DEF LevelBelow
<1>3. QED
  BY <1>2 DEF RootDirs

LEMMA LowerLevel ==
  ASSUME Config, NEW n \in 1..MaxDepth, NEW c
  PROVE  c \in DirsAt[n] <=>
           Within(n) /\ \E d \in DirsAt[n - 1] : \E i \in InDir(d) : IsChild(c, d, i)
<1>1. n \in 0..MaxDepth /\ n # 0 /\ n \in Nat
  BY DepthType
<1>2. recursive_limit \in Int
  BY ConfigType
<1>3. DirsAt[n] = IF recursive_limit # -1 /\ n > recursive_limit THEN {}
                  ELSE UNION {SubDirs(d) : d \in DirsAt[n - 1]}
  BY <1>1, DirsAtLevels DEF LevelBelow
<1>4. DirsAt[n] = IF ~Within(n) THEN {} ELSE UNION {SubDirs(d) : d \in DirsAt[n - 1]}
  BY <1>1, <1>2, <1>3 DEF Within
<1>5. \A d : c \in SubDirs(d) <=> \E i \in InDir(d) : IsChild(c, d, i)
  BY DEF SubDirs, IsChild
<1>6. QED
  BY <1>4, <1>5

LEMMA ChildType ==
  ASSUME Config, NEW d \in DirRecords, NEW i \in InDir(d), NEW c, IsChild(c, d, i)
  PROVE  c \in DirRecords /\ Len(c.way) = Len(d.way) + 1
<1>1. d.dir \in Dirs /\ d.way \in Ways /\ d.sub_path \in Seq(Names) /\ d.links \in 0..MaxLinks
  BY DEF DirRecords
<1>2. i \in 1..Len(fs[d.dir]) /\ i \in Nat \ {0}
  BY <1>1, ConfigType DEF InDir
<1>3. EntryAt(d, i).target \in Dirs /\ EntryAt(d, i).name \in Names
  BY <1>1, <1>2, EntryType DEF IsChild, EntryAt
<1>4. LinksTo(d, i) \in 0..MaxLinks
  BY <1>1, DepthType DEF IsChild, Readable, LinksTo
<1>5. /\ Append(d.way, i) \in Ways /\ Len(Append(d.way, i)) = Len(d.way) + 1
      /\ Append(d.sub_path, EntryAt(d, i).name) \in Seq(Names)
  BY <1>1, <1>2, <1>3, AppendProperties DEF Ways
<1>6. QED
  BY <1>3, <1>4, <1>5 DEF IsChild, DirRecords

LEMMA LevelType ==
  ASSUME Config, NEW n \in 0..MaxDepth
  PROVE  \A d \in DirsAt[n] : d \in DirRecords /\ Len(d.way) = n + 1
<1> DEFINE S == {k \in Nat : k \in 0..MaxDepth =>
                   \A d \in DirsAt[k] : d \in DirRecords /\ Len(d.way) = k + 1}
<1>1. 0 \in S
  <2>1. ASSUME NEW d \in DirsAt[0] PROVE d \in DirRecords /\ Len(d.way) = 0 + 1
    <3>1. PICK p \in 1..Len(process_paths) :
            /\ process_paths[p] # NoDir
            /\ d = [way |-> <<p>>, dir |-> process_paths[p], links |-> 0, sub_path |-> <<>>]
      BY RootLevel
    <3>2. process_paths[p] \in Dirs
      BY <3>1, ConfigType, ElementOfSeq
    <3>3. p \in Nat \ {0}
      BY ConfigType
    <3>4. <<p>> \in Ways /\ Len(<<p>>) = 1 /\ <<>> \in Seq(Names) /\ 0 \in 0..MaxLinks
      BY <3>3, EmptySeq, DepthType DEF Ways
    <3>5. QED
      BY <3>1, <3>2, <3>4 DEF DirRecords
  <2>2. QED
    BY <2>1
<1>2. ASSUME NEW k \in S PROVE k + 1 \in S
  <2>1. k \in Nat /\ MaxDepth \in Nat
    BY DepthType
  <2>2. ASSUME k + 1 \in 0..MaxDepth, NEW c \in DirsAt[k + 1]
        PROVE  c \in DirRecords /\ Len(c.way) = (k + 1) + 1
    <3>1. k + 1 \in 1..MaxDepth /\ k \in 0..MaxDepth /\ (k + 1) - 1 = k
      BY <2>1, <2>2
    <3>2. PICK d \in DirsAt[k] : \E i \in InDir(d) : IsChild(c, d, i)
      BY <3>1, LowerLevel
    <3>3. d \in DirRecords /\ Len(d.way) = k + 1
      BY <3>1
    <3>4. QED
      BY <3>2, <3>3, ChildType
  <2>3. QED
    BY <2>1, <2>2
<1>3. S = Nat
  <2>1. S \in SUBSET Nat
    OBVIOUS
  <2> HIDE DEF S
  <2>2. QED
    BY <1>1, <1>2, <2>1, SetInduction
<1>4. n \in Nat
  OBVIOUS
<1>5. QED
  BY <1>3, <1>4

(* A way leads to one directory.                                           *)
LEMMA OneDirPerWay ==
  ASSUME Config, NEW n \in 0..MaxDepth, NEW a \in DirsAt[n], NEW b \in DirsAt[n],
         a.way = b.way
  PROVE  a = b
<1> DEFINE S == {k \in Nat : k \in 0..MaxDepth =>
                   \A c, d \in DirsAt[k] : c.way = d.way => c = d}
<1>1. 0 \in S
  <2>1. ASSUME NEW c \in DirsAt[0], NEW d \in DirsAt[0], c.way = d.way PROVE c = d
    <3>1. PICK p \in 1..Len(process_paths) :
            c = [way |-> <<p>>, dir |-> process_paths[p], links |-> 0, sub_path |-> <<>>]
      BY RootLevel
    <3>2. PICK q \in 1..Len(process_paths) :
            d = [way |-> <<q>>, dir |-> process_paths[q], links |-> 0, sub_path |-> <<>>]
      BY RootLevel
    <3>3. <<p>> = <<q>>
      BY <2>1, <3>1, <3>2
    <3>4. p = q
      BY <3>3
    <3>5. QED
      BY <3>1, <3>2, <3>4
  <2>2. QED
    BY <2>1
<1>2. ASSUME NEW k \in S PROVE k + 1 \in S
  <2>1. k \in Nat /\ MaxDepth \in Nat
    BY DepthType
  <2>2. ASSUME k + 1 \in 0..MaxDepth, NEW c \in DirsAt[k + 1], NEW d \in DirsAt[k + 1],
               c.way = d.way
        PROVE  c = d
    <3>1. k + 1 \in 1..MaxDepth /\ k \in 0..MaxDepth /\ (k + 1) - 1 = k
      BY <2>1, <2>2
    <3>2. PICK p \in DirsAt[k] : \E i \in InDir(p) : IsChild(c, p, i)
      BY <3>1, LowerLevel
    <3>3. PICK i \in InDir(p) : IsChild(c, p, i)
      BY <3>2
    <3>4. PICK q \in DirsAt[k] : \E j \in InDir(q) : IsChild(d, q, j)
      BY <3>1, LowerLevel
    <3>5. PICK j \in InDir(q) : IsChild(d, q, j)
      BY <3>4
    <3>6. p.way \in Ways /\ q.way \in Ways
      BY <3>1, LevelType DEF DirRecords
    <3>7. i \in Nat \ {0} /\ j \in Nat \ {0}
      <4>1. p.dir \in Dirs /\ q.dir \in Dirs
        BY <3>1, LevelType DEF DirRecords
      <4>2. QED
        BY <4>1, ConfigType DEF InDir
    <3>8. Append(p.way, i) = Append(q.way, j)
      BY <2>2, <3>3, <3>5 DEF IsChild
    <3>9. p.way = q.way /\ i = j
      <4> DEFINE v == p.way
                 w == q.way
      <4>1. v \in Ways /\ w \in Ways /\ Append(v, i) = Append(w, j)
        BY <3>6, <3>8
      <4> HIDE DEF v, w
      <4>2. v = w /\ i = j
        BY <3>7, <4>1, SameStep
      <4>3. QED
        BY <4>2 DEF v, w
    <3>10. p = q
      BY <3>1, <3>9
    <3>11. QED
      BY <3>3, <3>5, <3>9, <3>10 DEF IsChild
  <2>3. QED
    BY <2>1, <2>2
<1>3. S = Nat
  <2>1. S \in SUBSET Nat
    OBVIOUS
  <2> HIDE DEF S
  <2>2. QED
    BY <1>1, <1>2, <2>1, SetInduction
<1>4. n \in Nat
  OBVIOUS
<1>5. QED
  BY <1>3, <1>4

-----------------------------------------------------------------------------
(* The way to an entry leads through directories that are on their levels. *)

(* Entry i of d is a directory that is walked, if the limit allows level n.*)
LeadsOn(d, i, n) ==
  i \in InDir(d) /\ EntryAt(d, i).kind = "dir" /\ Readable(d, i) /\ Within(n)

Through(p, way, m) ==
  /\ Continues(way, p.way)
  /\ m + 1 < Len(way) => LeadsOn(p, way[m + 2], m + 1)

LEMMA WaysThroughLevels ==
  ASSUME Config, NEW n \in 0..MaxDepth, NEW d \in DirsAt[n], NEW m \in 0..n
  PROVE  \E p \in DirsAt[m] : Through(p, d.way, m)
<1> DEFINE S == {k \in Nat : k \in 0..MaxDepth =>
                   \A c \in DirsAt[k] : \A l \in 0..k :
                     \E p \in DirsAt[l] : Through(p, c.way, l)}
<1>1. ASSUME NEW k \in 0..MaxDepth, NEW c \in DirsAt[k] PROVE Through(c, c.way, k)
  <2>1. Len(c.way) = k + 1 /\ k \in Nat
    BY <1>1, LevelType
  <2>2. QED
    BY <2>1 DEF Through, Continues
<1>2. 0 \in S
  BY <1>1
<1>3. ASSUME NEW k \in S PROVE k + 1 \in S
  <2>1. k \in Nat /\ MaxDepth \in Nat
    BY DepthType
  <2>2. ASSUME k + 1 \in 0..MaxDepth, NEW c \in DirsAt[k + 1], NEW l \in 0..(k + 1)
        PROVE  \E p \in DirsAt[l] : Through(p, c.way, l)
    <3>1. k + 1 \in 1..MaxDepth /\ k \in 0..MaxDepth /\ (k + 1) - 1 = k
      BY <2>1, <2>2
    <3>2. CASE l = k + 1
      BY <1>1, <2>2, <3>2
    <3>3. CASE l # k + 1
      <4>1. l \in 0..k /\ l \in Nat
        BY <2>1, <3>3
      <4>2. PICK q \in DirsAt[k] : \E i \in InDir(q) : IsChild(c, q, i)
        BY <3>1, LowerLevel
      <4>3. PICK i \in InDir(q) : IsChild(c, q, i)
        BY <4>2
      <4>4. Within(k + 1)
        BY <3>1, LowerLevel
      <4>5. /\ q \in DirRecords /\ Len(q.way) = k + 1
            /\ c \in DirRecords /\ Len(c.way) = k + 2 /\ c.way = Append(q.way, i)
        BY <2>2, <3>1, <4>3, LevelType DEF IsChild
      <4>6. c.way[k + 2] = i /\ \A j \in 1..(k + 1) : c.way[j] = q.way[j]
        BY <4>5, AppendProperties DEF DirRecords, Ways
      <4>7. CASE l = k
        <5>1. Continues(c.way, q.way)
          BY <2>1, <4>5, <4>6 DEF Continues
        <5>2. LeadsOn(q, c.way[l + 2], l + 1)
          BY <4>3, <4>4, <4>6, <4>7 DEF LeadsOn, IsChild
        <5>3. QED
          BY <4>7, <5>1, <5>2 DEF Through
      <4>8. CASE l # k
        <5>1. PICK p \in DirsAt[l] : Through(p, q.way, l)
          BY <3>1, <4>1
        <5>2. Len(p.way) = l + 1
          <6>1. l \in 0..MaxDepth
            BY <2>1, <3>1, <4>1
          <6>2. QED
            BY <6>1, LevelType
        <5>3. Continues(c.way, p.way)
          BY <2>1, <4>1, <4>5, <4>6, <5>1, <5>2 DEF Through, Continues
        <5>4. LeadsOn(p, c.way[l + 2], l + 1)
          <6>1. l + 1 < Len(q.way) /\ l + 2 \in 1..(k + 1)
            BY <2>1, <4>1, <4>5, <4>8
          <6>2. QED
            BY <4>6, <5>1, <6>1 DEF Through
        <5>5. QED
          BY <5>3, <5>4 DEF Through
      <4>9. QED
        BY <4>7, <4>8
    <3>4. QED
      BY <3>2, <3>3
  <2>3. QED
    BY <2>1, <2>2
<1>4. S = Nat
  <2>1. S \in SUBSET Nat
    OBVIOUS
  <2> HIDE DEF S
  <2>2. QED
    BY <1>2, <1>3, <2>1, SetInduction
<1>5. n \in Nat
  OBVIOUS
<1>6. QED
  BY <1>4, <1>5

LEMMA AllEntriesAre ==
  ASSUME NEW e
  PROVE  e \in AllEntries <=>
           \E n \in 0..MaxDepth : \E d \in DirsAt[n] : \E i \in InDir(d) : e = <<d, i>>
BY DEF AllEntries

LEMMA EntryWay ==
  ASSUME Config, NEW n \in 0..MaxDepth, NEW d \in DirsAt[n], NEW i \in InDir(d)
  PROVE  /\ Way(<<d, i>>) \in Ways /\ Len(Way(<<d, i>>)) = n + 2
         /\ Way(<<d, i>>)[n + 2] = i
         /\ \A j \in 1..(n + 1) : Way(<<d, i>>)[j] = d.way[j]
         /\ i \in Nat \ {0}
<1>1. d \in DirRecords /\ Len(d.way) = n + 1
  BY LevelType
<1>2. d.dir \in Dirs /\ d.way \in Seq(Nat \ {0})
  BY <1>1 DEF DirRecords, Ways
<1>3. i \in Nat \ {0}
  BY <1>2, ConfigType DEF InDir
<1> DEFINE v == d.way
<1>4. Way(<<d, i>>) = Append(v, i) /\ v \in Seq(Nat \ {0}) /\ Len(v) = n + 1 /\ n \in Nat
  BY <1>1, <1>2 DEF Way
<1> HIDE DEF v
<1>5. /\ Append(v, i) \in Seq(Nat \ {0}) /\ Len(Append(v, i)) = n + 2
      /\ Append(v, i)[n + 2] = i /\ \A j \in 1..(n + 1) : Append(v, i)[j] = v[j]
  BY <1>3, <1>4, AppendProperties
<1>6. QED
  BY <1>3, <1>4, <1>5 DEF Ways, v

(* The way of an entry goes through p, when it begins as p's does.         *)
LEMMA EntryThrough ==
  ASSUME Config, NEW n \in 0..MaxDepth, NEW d \in DirsAt[n], NEW i \in InDir(d),
         NEW m \in 0..MaxDepth, NEW p \in DirsAt[m],
         Continues(Way(<<d, i>>), p.way)
  PROVE  \/ m = n /\ p = d
         \/ m < n /\ LeadsOn(p, Way(<<d, i>>)[m + 2], m + 1)
         \/ m = n + 1 /\ p.way = Way(<<d, i>>) /\ IsChild(p, d, i)
<1> DEFINE w == Way(<<d, i>>)
<1>1. /\ w \in Ways /\ Len(w) = n + 2 /\ w[n + 2] = i
      /\ \A j \in 1..(n + 1) : w[j] = d.way[j]
      /\ i \in Nat \ {0}
  BY EntryWay
<1>2. p \in DirRecords /\ Len(p.way) = m + 1 /\ d \in DirRecords /\ Len(d.way) = n + 1
  BY LevelType
<1>3. m \in Nat /\ n \in Nat /\ m <= n + 1 /\ \A j \in 1..(m + 1) : w[j] = p.way[j]
  BY <1>1, <1>2 DEF Continues
<1> HIDE DEF w
<1>4. CASE m <= n
  <2>1. m \in 0..n
    BY <1>3, <1>4
  <2>2. PICK q \in DirsAt[m] : Through(q, d.way, m)
    BY <2>1, WaysThroughLevels
  <2>3. q \in DirRecords /\ Len(q.way) = m + 1
    BY LevelType
  <2>4. q.way = p.way
    <3>1. q.way \in Ways /\ p.way \in Ways
      BY <1>2, <2>3 DEF DirRecords
    <3>2. \A j \in 1..(m + 1) : q.way[j] = p.way[j]
      BY <1>1, <1>2, <1>3, <1>4, <2>2, <2>3 DEF Through, Continues
    <3>3. QED
      BY <1>2, <2>3, <3>1, <3>2, SameWay
  <2>5. q = p
    BY <2>4, OneDirPerWay
  <2>6. CASE m = n
    <3>1. d.way = p.way
      <4>1. d.way \in Ways /\ p.way \in Ways
        BY <1>2 DEF DirRecords
      <4>2. \A j \in 1..(m + 1) : d.way[j] = p.way[j]
        BY <1>1, <1>3, <2>6
      <4>3. QED
        BY <1>2, <2>6, <4>1, <4>2, SameWay
    <3>2. QED
      BY <2>6, <3>1, OneDirPerWay
  <2>7. CASE m < n
    <3>1. LeadsOn(p, d.way[m + 2], m + 1)
      BY <1>2, <1>3, <2>2, <2>5, <2>7 DEF Through
    <3>2. m + 2 \in 1..(n + 1)
      BY <1>3, <2>7
    <3>3. QED
      BY <1>1, <2>7, <3>1, <3>2 DEF w
  <2>8. QED
    BY <1>3, <1>4, <2>6, <2>7
<1>5. CASE m = n + 1
  <2>1. m \in 1..MaxDepth /\ m - 1 = n
    BY <1>3, <1>5
  <2>2. PICK q \in DirsAt[n] : \E j \in InDir(q) : IsChild(p, q, j)
    BY <2>1, LowerLevel
  <2>3. PICK j \in InDir(q) : IsChild(p, q, j)
    BY <2>2
  <2>4. q \in DirRecords /\ Len(q.way) = n + 1 /\ j \in Nat \ {0}
    BY LevelType, EntryWay
  <2>5. p.way = w
    <3>1. p.way \in Ways
      BY <1>2 DEF DirRecords
    <3>2. QED
      BY <1>1, <1>2, <1>3, <1>5, <3>1, SameWay
  <2>6. q.way = d.way /\ i = j
    <3>1. q.way \in Ways /\ d.way \in Ways /\ Append(q.way, j) = Append(d.way, i)
      BY <1>2, <2>3, <2>4, <2>5 DEF DirRecords, IsChild, w, Way
    <3> DEFINE v == q.way
               u == d.way
    <3>2. v \in Ways /\ u \in Ways /\ Append(v, j) = Append(u, i)
      BY <3>1
    <3> HIDE DEF v, u
    <3>3. v = u /\ i = j
      BY <1>1, <2>4, <3>2, SameStep
    <3>4. QED
      BY <3>3 DEF v, u
  <2>7. q = d
    BY <2>6, OneDirPerWay
  <2>8. QED
    BY <1>5, <2>3, <2>5, <2>6, <2>7 DEF w
<1>6. QED
  BY <1>3, <1>4, <1>5

-----------------------------------------------------------------------------
(* How deep the walk may be.                                               *)

NumDirs == Cardinality(Dirs)

LowersHeight(height) ==
  \A d \in Dirs : \A i \in 1..Len(fs[d]) :
    LET e == fs[d][i]
    IN  e.kind = "dir" /\ ~e.link => height[e.target] < height[d]
Height == CHOOSE height \in [Dirs -> Heights] : LowersHeight(height)

LEMMA HeightFacts ==
  ASSUME Config
  PROVE  Height \in [Dirs -> Heights] /\ LowersHeight(Height)
<1>1. IsForest(fs)
  BY DetectorFilesAssumption DEF Config
<1>2. \E height \in [Dirs -> Heights] : LowersHeight(height)
  BY <1>1 DEF IsForest, LowersHeight
<1>3. QED
  BY <1>2 DEF Height

(* So many steps may lead to a directory: every link, and between them     *)
(* every descent without a link.                                           *)
Room(links_to, dir) == links_to * NumDirs + (NumDirs - Height[dir])

LEMMA RoomFacts ==
  ASSUME Config, NEW links_to \in 0..MaxLinks, NEW d \in Dirs
  PROVE  /\ Room(links_to, d) \in 1..MaxDepth
         /\ \A c \in Dirs : links_to + 1 <= MaxLinks =>
              Room(links_to + 1, c) > Room(links_to, d)
         /\ \A c \in Dirs : Height[c] < Height[d] => Room(links_to, c) > Room(links_to, d)
<1>1. NumDirs \in Nat /\ MaxLinks \in Nat /\ \A c \in Dirs : Height[c] \in 0..(NumDirs - 1)
  BY HeightFacts, DepthType DEF NumDirs, Heights
<1>2. MaxDepth = NumDirs * (MaxLinks + 1)
  BY DEF MaxDepth, NumDirs
<1>3. \A a, b, m \in Nat : a <= m => a * b \in Nat /\ a * b <= m * b
  OBVIOUS
<1>4. \A a, b \in Nat : (a + 1) * b = a * b + b /\ b * (a + 1) = a * b + b
  OBVIOUS
<1> DEFINE r == links_to * NumDirs
           x == MaxLinks * NumDirs
<1>5. links_to \in Nat /\ r \in Nat /\ x \in Nat /\ r <= x
  BY <1>1, <1>3
<1>6. (links_to + 1) * NumDirs = r + NumDirs /\ MaxDepth = x + NumDirs
  BY <1>1, <1>2, <1>4, <1>5
<1>7. /\ \A c \in Dirs : Room(links_to, c) = r + (NumDirs - Height[c])
      /\ \A c \in Dirs : Room(links_to + 1, c) = r + NumDirs + (NumDirs - Height[c])
  BY <1>6 DEF Room
<1> HIDE DEF r, x
<1>8. QED
  BY <1>1, <1>5, <1>6, <1>7

-----------------------------------------------------------------------------
(* The calls of walk_tree.                                                 *)

Frames == [dir : Dirs, sub_path : Seq(Names), cnt : Nat, links : 0..MaxLinks,
           pos : Nat \ {0}]

(* The directory of call i, as the levels have it: the iterators of the    *)
(* calls before are one entry ahead already.                               *)
WayOf(i) == [k \in 1..i |-> IF k = 1 THEN next_path - 1 ELSE stack[k - 1].pos - 1]
Here(i)  == [way |-> WayOf(i), dir |-> stack[i].dir, links |-> stack[i].links,
             sub_path |-> stack[i].sub_path]

CallInv(i) ==
  /\ stack[i].cnt = i - 1 /\ Len(stack[i].sub_path) = i - 1
  /\ stack[i].pos <= Len(fs[stack[i].dir]) + 1
  /\ i <= Room(stack[i].links, stack[i].dir)
  /\ Here(i) \in DirsAt[i - 1]

StatusInv ==
  /\ status \in {"running", "done", "failed"}
  /\ status = "done" => stack = <<>> /\ next_path > Len(process_paths)
  /\ status = "failed" => stack # <<>> /\ top.pos <= Len(fs[top.dir]) /\ Unreadable

WalkInv ==
  /\ Config
  /\ next_path \in 1..(Len(process_paths) + 1)
  /\ stack \in Seq(Frames)
  /\ \A i \in 1..Len(stack) : CallInv(i)
  /\ StatusInv

LEMMA CallDepth ==
  ASSUME WalkInv, NEW i \in 1..Len(stack)
  PROVE  /\ stack[i] \in Frames
         /\ i \in 1..MaxDepth /\ i - 1 \in 0..MaxDepth
         /\ stack[i].pos \in 1..(Len(fs[stack[i].dir]) + 1)
         /\ Here(i) \in DirsAt[i - 1] /\ Here(i) \in DirRecords
<1>1. stack[i] \in Frames
  BY ElementOfSeq DEF WalkInv
<1>2. /\ stack[i].links \in 0..MaxLinks /\ stack[i].dir \in Dirs /\ stack[i].pos \in Nat \ {0}
      /\ Len(fs[stack[i].dir]) \in Nat
  BY <1>1, ConfigType DEF Frames, WalkInv
<1>3. CallInv(i) /\ Config
  BY DEF WalkInv
<1>4. i \in 1..MaxDepth
  <2>1. Room(stack[i].links, stack[i].dir) \in 1..MaxDepth
    BY <1>2, <1>3, RoomFacts
  <2>2. i <= Room(stack[i].links, stack[i].dir)
    BY <1>3 DEF CallInv
  <2>3. MaxDepth \in Nat
    BY DepthType
  <2>4. QED
    BY <2>1, <2>2, <2>3
<1>5. i - 1 \in 0..MaxDepth
  BY <1>4, DepthType
<1>6. QED
  BY <1>1, <1>2, <1>3, <1>4, <1>5, LevelType DEF CallInv

(* A call stays as it is when the iterators before it do.                  *)
LEMMA CallKept ==
  ASSUME WalkInv, UNCHANGED <<config, next_path>>, NEW i \in 1..Len(stack),
         \A k \in 1..(i - 1) : stack'[k].pos = stack[k].pos,
         stack'[i].dir = stack[i].dir, stack'[i].links = stack[i].links,
         stack'[i].cnt = stack[i].cnt, stack'[i].sub_path = stack[i].sub_path,
         stack'[i].pos <= Len(fs[stack[i].dir]) + 1
  PROVE  CallInv(i)' /\ Here(i)' = Here(i)
<1>1. UNCHANGED <<fs, process_paths, recursive_limit, next_path>>
  BY DEF config
<1>2. DirsAt' = DirsAt
  BY SameLevels
<1>3. Height' = Height
  BY <1>1 DEF Height, LowersHeight
<1>4. WayOf(i)' = WayOf(i)
  <2>1. Len(stack) \in Nat
    BY LenProperties DEF WalkInv
  <2>2. \A k \in 1..i : k # 1 => k - 1 \in 1..(i - 1)
    BY <2>1
  <2>3. QED
    BY <1>1, <2>2 DEF WayOf
<1>5. Here(i)' = Here(i)
  BY <1>4 DEF Here
<1>6. QED
  BY <1>1, <1>2, <1>3, <1>5 DEF WalkInv, CallInv, Room

(* The iterator of the innermost call is at an entry.                      *)
Inside == stack # <<>> /\ top.pos <= Len(fs[top.dir])

(* The iterator of the innermost call goes on.                             *)
LEMMA Advanced ==
  ASSUME WalkInv, Inside, NEW s, s = [stack EXCEPT ![Len(stack)].pos = @ + 1]
  PROVE  /\ Len(stack) \in Nat /\ Len(stack) \in 1..Len(stack)
         /\ s \in Seq(Frames) /\ Len(s) = Len(stack)
         /\ \A k \in 1..Len(stack) :
              /\ s[k].dir = stack[k].dir /\ s[k].sub_path = stack[k].sub_path
              /\ s[k].cnt = stack[k].cnt /\ s[k].links = stack[k].links
              /\ s[k].pos = IF k = Len(stack) THEN top.pos + 1 ELSE stack[k].pos
         /\ top.pos \in InDir(Here(Len(stack)))
<1> DEFINE n == Len(stack)
           f == [top EXCEPT !.pos = @ + 1]
<1>1. stack \in Seq(Frames) /\ stack # <<>> /\ top.pos <= Len(fs[top.dir])
  BY DEF WalkInv, Inside
<1>2. n \in Nat /\ n \in 1..n
  BY <1>1, EmptySeq, LenProperties, SeqEqual
<1>3. top \in Frames
  BY <1>1, <1>2, ElementOfSeq DEF top
<1>4. /\ f \in Frames /\ f.dir = top.dir /\ f.sub_path = top.sub_path /\ f.cnt = top.cnt
      /\ f.links = top.links /\ f.pos = top.pos + 1
  BY <1>3 DEF Frames
<1>5. s = [stack EXCEPT ![n] = f]
  BY DEF top
<1> HIDE DEF f, n
<1>6. /\ s \in Seq(Frames) /\ Len(s) = n
      /\ \A k \in 1..n : s[k] = IF k = n THEN f ELSE stack[k]
  <2>1. n \in 1..Len(stack) /\ f \in Frames
    BY <1>2, <1>4 DEF n
  <2>2. /\ [stack EXCEPT ![n] = f] \in Seq(Frames)
        /\ Len([stack EXCEPT ![n] = f]) = Len(stack)
        /\ \A k \in 1..Len(stack) : [stack EXCEPT ![n] = f][k] = IF k = n THEN f ELSE stack[k]
    BY <1>1, <2>1, ExceptSeq
  <2>3. QED
    BY <1>5, <2>2 DEF n
<1>7. \A k \in 1..n :
        /\ s[k].dir = stack[k].dir /\ s[k].sub_path = stack[k].sub_path
        /\ s[k].cnt = stack[k].cnt /\ s[k].links = stack[k].links
        /\ s[k].pos = IF k = n THEN top.pos + 1 ELSE stack[k].pos
  BY <1>2, <1>4, <1>6 DEF top, n
<1>8. top.pos \in InDir(Here(n))
  <2>1. top.pos \in Nat \ {0} /\ top.dir \in Dirs
    BY <1>3 DEF Frames
  <2>2. Here(n).dir = top.dir
    BY DEF Here, top, n
  <2>3. Len(fs[top.dir]) \in Nat
    BY <2>1, ConfigType DEF WalkInv
  <2>4. QED
    BY <1>1, <2>1, <2>2, <2>3 DEF InDir
<1>9. QED
  BY <1>2, <1>6, <1>7, <1>8 DEF n

LEMMA WalkInit == Init => WalkInv
<1> SUFFICES ASSUME Init PROVE WalkInv
  OBVIOUS
<1>1. Config
  BY DEF Init, Config
<1>2. stack = <<>> /\ next_path = 1 /\ status = "running"
  BY DEF Init
<1>3. stack \in Seq(Frames) /\ Len(stack) = 0
  BY <1>2, EmptySeq
<1>4. next_path \in 1..(Len(process_paths) + 1)
  BY <1>1, <1>2, ConfigType
<1>5. \A i \in 1..Len(stack) : CallInv(i)
  BY <1>3
<1>6. StatusInv
  BY <1>2 DEF StatusInv
<1>7. QED
  BY <1>1, <1>3, <1>4, <1>5, <1>6 DEF WalkInv

(* A recursive call: its directory is a child of the one above.            *)
LEMMA Descent ==
  ASSUME WalkInv, Directory, NEW n, n = Len(stack), may_recurse(top.cnt)
  PROVE  /\ n \in Nat \ {0} /\ stack' \in Seq(Frames) /\ Len(stack') = n + 1
         /\ \A k \in 1..n :
              /\ stack'[k].dir = stack[k].dir /\ stack'[k].sub_path = stack[k].sub_path
              /\ stack'[k].cnt = stack[k].cnt /\ stack'[k].links = stack[k].links
              /\ stack'[k].pos = IF k = n THEN top.pos + 1 ELSE stack[k].pos
         /\ stack'[n + 1] = Frame(entry.target, name, top.cnt + 1, links)
         /\ WayOf(n + 1)' = Append(WayOf(n), top.pos)
         /\ top.pos \in InDir(Here(n)) /\ IsChild(Here(n + 1)', Here(n), top.pos)
         /\ Within(n)
<1> DEFINE s == [stack EXCEPT ![Len(stack)].pos = @ + 1]
           f == Frame(entry.target, name, top.cnt + 1, links)
<1>1. /\ Inside /\ entry.kind = "dir" /\ ~Unreadable
      /\ stack' = Append(s, f) /\ UNCHANGED <<fs, process_paths, recursive_limit, next_path>>
  BY DEF Directory, config, AtEntry, Inside, Unreadable
<1>2. /\ n \in Nat /\ n \in 1..n /\ s \in Seq(Frames) /\ Len(s) = n
      /\ \A k \in 1..n :
           /\ s[k].dir = stack[k].dir /\ s[k].sub_path = stack[k].sub_path
           /\ s[k].cnt = stack[k].cnt /\ s[k].links = stack[k].links
           /\ s[k].pos = IF k = n THEN top.pos + 1 ELSE stack[k].pos
      /\ top.pos \in InDir(Here(n))
  <2>1. s = [stack EXCEPT ![Len(stack)].pos = @ + 1]
    OBVIOUS
  <2> HIDE DEF s
  <2>2. /\ Len(stack) \in Nat /\ Len(stack) \in 1..Len(stack)
        /\ s \in Seq(Frames) /\ Len(s) = Len(stack)
        /\ \A k \in 1..Len(stack) :
             /\ s[k].dir = stack[k].dir /\ s[k].sub_path = stack[k].sub_path
             /\ s[k].cnt = stack[k].cnt /\ s[k].links = stack[k].links
             /\ s[k].pos = IF k = Len(stack) THEN top.pos + 1 ELSE stack[k].pos
        /\ top.pos \in InDir(Here(Len(stack)))
    BY <1>1, <2>1, Advanced
  <2>3. QED
    BY <2>2
<1>3. /\ top \in Frames /\ n \in 1..MaxDepth /\ Here(n) \in DirsAt[n - 1]
      /\ Here(n) \in DirRecords /\ CallInv(n) /\ Config
  BY <1>2, CallDepth DEF top, WalkInv
<1>4. /\ Here(n) = [way |-> WayOf(n), dir |-> top.dir, links |-> top.links,
                    sub_path |-> top.sub_path]
      /\ WayOf(n) \in Ways /\ Len(WayOf(n)) = n
  <2>1. Here(n) = [way |-> WayOf(n), dir |-> top.dir, links |-> top.links,
                   sub_path |-> top.sub_path]
    BY DEF Here, top
  <2>2. Here(n).way = WayOf(n)
    BY <2>1
  <2>3. Len(Here(n).way) = n
    <3>1. n - 1 \in 0..MaxDepth /\ (n - 1) + 1 = n
      BY <1>2, <1>3, DepthType
    <3>2. QED
      BY <1>3, <3>1, LevelType
  <2>4. Here(n).way \in Ways
    BY <1>3 DEF DirRecords
  <2>5. QED
    BY <2>1, <2>2, <2>3, <2>4
<1>5. /\ EntryAt(Here(n), top.pos) = entry /\ LinksTo(Here(n), top.pos) = links
      /\ Readable(Here(n), top.pos)
  <2>1. EntryAt(Here(n), top.pos) = entry
    BY <1>4 DEF EntryAt, entry
  <2>2. LinksTo(Here(n), top.pos) = links
    BY <1>4, <2>1 DEF LinksTo, links
  <2>3. links \in Int /\ MaxLinks \in Int
    BY <1>3, DepthType DEF links, Frames
  <2>4. QED
    BY <1>1, <2>1, <2>2, <2>3 DEF Readable, Unreadable
<1>6. f \in Frames
  <2>1. entry.target \in Dirs /\ entry.name \in Names
    <3>1. top.dir \in Dirs /\ top.pos \in 1..Len(fs[top.dir])
      BY <1>2, <1>3, <1>4 DEF Frames, InDir
    <3>2. QED
      BY <1>1, <1>3, <3>1, EntryType DEF entry
  <2>2. links \in 0..MaxLinks
    BY <1>3, <1>5, DepthType DEF links, Frames, Readable
  <2>3. name \in Seq(Names) /\ top.cnt + 1 \in Nat
    BY <1>3, <2>1, AppendProperties DEF name, Frames
  <2>4. QED
    BY <2>1, <2>2, <2>3 DEF Frame, Frames
<1>7. /\ stack' \in Seq(Frames) /\ Len(stack') = n + 1
      /\ stack'[n + 1] = f /\ \A k \in 1..n : stack'[k] = s[k]
  <2> HIDE DEF s, f
  <2>1. QED
    BY <1>1, <1>2, <1>6, AppendProperties
<1>8. WayOf(n + 1)' = Append(WayOf(n), top.pos)
  <2> DEFINE w == WayOf(n)
             p == top.pos
  <2>1. w \in Seq(Nat \ {0}) /\ Len(w) = n /\ p \in Nat \ {0}
    BY <1>3, <1>4 DEF Ways, Frames
  <2>2. \A k \in 1..n : w[k] = IF k = 1 THEN next_path - 1 ELSE stack[k - 1].pos - 1
    BY DEF WayOf
  <2> HIDE DEF s
  <2>3. WayOf(n + 1)' = [k \in 1..(n + 1) |-> IF k = 1 THEN next_path - 1 ELSE stack'[k - 1].pos - 1]
    BY <1>1 DEF WayOf
  <2>4. \A k \in 1..n : stack'[k].pos = IF k = n THEN p + 1 ELSE stack[k].pos
    BY <1>2, <1>7
  <2> HIDE DEF w, p
  <2>5. /\ Append(w, p) \in Seq(Nat \ {0}) /\ Len(Append(w, p)) = n + 1
        /\ Append(w, p)[n + 1] = p /\ \A k \in 1..n : Append(w, p)[k] = w[k]
    BY <2>1, AppendProperties
  <2>6. Append(w, p) = [k \in 1..(n + 1) |-> Append(w, p)[k]]
    BY <2>5, LenProperties
  <2>7. ASSUME NEW k \in 1..(n + 1)
        PROVE  Append(w, p)[k] = IF k = 1 THEN next_path - 1 ELSE stack'[k - 1].pos - 1
    <3>1. CASE k = 1
      BY <1>2, <2>2, <2>5, <3>1
    <3>2. CASE k = n + 1
      <4>1. k # 1 /\ k - 1 = n
        BY <1>2, <3>2
      <4>2. stack'[k - 1].pos - 1 = p
        <5>1. stack'[n].pos = p + 1
          BY <1>2, <2>4
        <5>2. stack'[k - 1] = stack'[n]
          BY <4>1
        <5>3. stack'[k - 1].pos = p + 1
          BY <5>1, <5>2
        <5>4. p \in Nat
          BY <2>1
        <5>5. QED
          BY <5>3, <5>4
      <4>3. QED
        BY <2>5, <3>2, <4>1, <4>2
    <3>3. CASE k # 1 /\ k # n + 1
      <4>1. k - 1 \in 1..n /\ k - 1 # n /\ k \in 1..n
        BY <1>2, <3>3
      <4>2. QED
        BY <2>2, <2>4, <2>5, <3>3, <4>1
    <3>4. QED
      BY <3>1, <3>2, <3>3
  <2>8. Append(w, p) = WayOf(n + 1)'
    BY <2>3, <2>6, <2>7
  <2>9. QED
    BY <2>8 DEF w, p
<1>9. IsChild(Here(n + 1)', Here(n), top.pos)
  <2>1. /\ f.dir = entry.target /\ f.links = links /\ f.sub_path = name
    BY DEF Frame
  <2>2. Here(n + 1)' = [way |-> Append(WayOf(n), top.pos), dir |-> entry.target,
                        links |-> links, sub_path |-> name]
    <3> HIDE DEF f
    <3>1. QED
      BY <1>7, <1>8, <2>1 DEF Here
  <2>3. name = Append(Here(n).sub_path, EntryAt(Here(n), top.pos).name)
    BY <1>4, <1>5 DEF name
  <2>4. Here(n).way = WayOf(n)
    BY <1>4
  <2>5. QED
    BY <1>1, <1>5, <2>2, <2>3, <2>4 DEF IsChild
<1>10. Within(n)
  <2>1. recursive_limit \in Int
    BY <1>3, ConfigType
  <2>2. recursive_limit = -1 \/ n - 1 < recursive_limit
    BY <1>3 DEF may_recurse, CallInv, top
  <2>3. QED
    BY <1>2, <2>1, <2>2 DEF Within
<1>11. QED
  <2> HIDE DEF s
  <2>1. \A k \in 1..n : stack'[k] = s[k]
    BY <1>7
  <2>2. QED
    BY <1>2, <1>7, <1>8, <1>9, <1>10, <2>1

LEMMA Returned ==
  ASSUME WalkInv, Return, NEW n, n = Len(stack)
  PROVE  /\ n \in Nat \ {0} /\ stack' \in Seq(Frames) /\ Len(stack') = n - 1
         /\ \A k \in 1..(n - 1) : stack'[k] = stack[k]
<1>1. stack \in Seq(Frames) /\ stack # <<>> /\ stack' = SubSeq(stack, 1, n - 1)
  BY DEF WalkInv, Return
<1>2. n \in Nat \ {0}
  BY <1>1, EmptySeq
<1>3. \A k \in 1..(n - 1) : stack[k] \in Frames
  BY <1>1, <1>2, ElementOfSeq
<1>4. n - 1 \in Int /\ 1 \in Int
  BY <1>2
<1>5. /\ stack' \in Seq(Frames)
      /\ Len(stack') = IF 1 <= n - 1 THEN (n - 1) - 1 + 1 ELSE 0
      /\ \A k \in 1..((n - 1) - 1 + 1) : stack'[k] = stack[1 + k - 1]
  BY <1>1, <1>3, <1>4, SubSeqProperties
<1>6. Len(stack') = n - 1
  BY <1>2, <1>5
<1>7. ASSUME NEW k \in 1..(n - 1) PROVE stack'[k] = stack[k]
  <2>1. k \in 1..((n - 1) - 1 + 1) /\ 1 + k - 1 = k
    BY <1>2
  <2>2. QED
    BY <1>5, <2>1
<1>8. QED
  BY <1>2, <1>5, <1>6, <1>7

(* The first call for a process path.                                      *)
LEMMA Started ==
  ASSUME WalkInv, NextProcessPath, process_paths[next_path] # NoDir
  PROVE  /\ stack' \in Seq(Frames) /\ Len(stack') = 1
         /\ stack'[1] = Frame(process_paths[next_path], <<>>, 0, 0)
         /\ next_path \in 1..Len(process_paths) /\ next_path \in Nat \ {0}
         /\ WayOf(1)' = <<next_path>>
         /\ Here(1)' = [way |-> <<next_path>>, dir |-> process_paths[next_path],
                        links |-> 0, sub_path |-> <<>>]
         /\ Here(1)' \in DirsAt[0]
<1> DEFINE f == Frame(process_paths[next_path], <<>>, 0, 0)
<1>1. /\ stack' = <<f>> /\ next_path' = next_path + 1 /\ next_path <= Len(process_paths)
      /\ next_path \in 1..(Len(process_paths) + 1) /\ Config
  BY DEF NextProcessPath, WalkInv
<1>2. /\ process_paths \in Seq(Dirs \cup {NoDir}) /\ Len(process_paths) \in Nat
      /\ MaxLinks \in Nat
  BY <1>1, ConfigType, DepthType
<1>3. next_path \in 1..Len(process_paths) /\ next_path \in Nat \ {0}
  BY <1>1, <1>2
<1>4. process_paths[next_path] \in Dirs
  <2>1. process_paths[next_path] \in Dirs \cup {NoDir}
    BY <1>2, <1>3, ElementOfSeq
  <2>2. QED
    BY <2>1
<1>5. f \in Frames /\ f.dir = process_paths[next_path] /\ f.links = 0 /\ f.sub_path = <<>>
  <2>1. <<>> \in Seq(Names)
    BY EmptySeq
  <2>2. QED
    BY <1>2, <1>4, <2>1 DEF Frame, Frames
<1> HIDE DEF f
<1>6. stack' \in Seq(Frames) /\ Len(stack') = 1 /\ stack'[1] = f
  BY <1>1, <1>5
<1>7. WayOf(1)' = <<next_path>>
  <2>1. WayOf(1)' = [k \in 1..1 |-> IF k = 1 THEN next_path' - 1 ELSE stack'[k - 1].pos - 1]
    BY DEF WayOf
  <2>2. next_path' - 1 = next_path
    BY <1>1, <1>3
  <2>3. WayOf(1)' = [k \in 1..1 |-> next_path]
    BY <2>1, <2>2
  <2>4. [k \in 1..1 |-> next_path] = <<next_path>>
    OBVIOUS
  <2>5. QED
    BY <2>3, <2>4
<1>8. Here(1)' = [way |-> <<next_path>>, dir |-> process_paths[next_path],
                  links |-> 0, sub_path |-> <<>>]
  BY <1>5, <1>6, <1>7 DEF Here
<1>9. Here(1)' \in DirsAt[0]
  BY <1>3, <1>8, RootLevel
<1>10. QED
  BY <1>3, <1>6, <1>7, <1>8, <1>9 DEF f

LEMMA WalkStep == WalkInv /\ [Next]_vars => WalkInv'
<1> SUFFICES ASSUME WalkInv, [Next]_vars PROVE WalkInv'
  OBVIOUS
<1>a. /\ Config /\ stack \in Seq(Frames) /\ Len(stack) \in Nat
      /\ next_path \in 1..(Len(process_paths) + 1)
      /\ \A i \in 1..Len(stack) : CallInv(i)
      /\ Len(process_paths) \in Nat
  BY LenProperties, ConfigType DEF WalkInv
<1>b. ASSUME UNCHANGED config PROVE /\ Config' /\ DirsAt' = DirsAt
                                    /\ UNCHANGED <<fs, process_paths, recursive_limit>>
                                    /\ \A l, d : Room(l, d)' = Room(l, d)
  <2>1. UNCHANGED <<fs, process_paths, recursive_limit>>
    BY <1>b DEF config
  <2>2. Height' = Height
    BY <2>1 DEF Height, LowersHeight
  <2>3. QED
    BY <1>a, <1>b, <2>1, <2>2, SameLevels DEF Config, Room
<1>c. ASSUME Inside, status = "running", UNCHANGED <<config, next_path, status>>, Advance
      PROVE  WalkInv'
  <2>1. stack' = [stack EXCEPT ![Len(stack)].pos = @ + 1]
    BY <1>c DEF Advance
  <2>2. /\ stack' \in Seq(Frames) /\ Len(stack') = Len(stack)
        /\ \A k \in 1..Len(stack) :
             /\ stack'[k].dir = stack[k].dir /\ stack'[k].sub_path = stack[k].sub_path
             /\ stack'[k].cnt = stack[k].cnt /\ stack'[k].links = stack[k].links
             /\ stack'[k].pos = IF k = Len(stack) THEN top.pos + 1 ELSE stack[k].pos
        /\ top.pos \in InDir(Here(Len(stack)))
    BY <1>c, <2>1, Advanced
  <2>3. ASSUME NEW i \in 1..Len(stack) PROVE CallInv(i)'
    <3>1. \A k \in 1..(i - 1) : stack'[k].pos = stack[k].pos
      BY <1>a, <2>2
    <3>2. stack'[i].pos <= Len(fs[stack[i].dir]) + 1
      <4>1. CASE i = Len(stack)
        <5>1. top = stack[i] /\ top.pos \in 1..Len(fs[top.dir])
          BY <2>2, <4>1 DEF top, InDir, Here
        <5>2. stack'[i].pos = top.pos + 1
          BY <2>2, <4>1
        <5>3. Len(fs[top.dir]) \in Nat
          <6>1. top \in Frames
            BY <1>a, <5>1, ElementOfSeq
          <6>2. top.dir \in Dirs
            BY <6>1 DEF Frames
          <6>3. QED
            BY <1>a, <6>2, ConfigType
        <5>4. QED
          BY <5>1, <5>2, <5>3
      <4>2. CASE i # Len(stack)
        BY <1>a, <2>2, <4>2 DEF CallInv
      <4>3. QED
        BY <4>1, <4>2
    <3>3. QED
      BY <1>c, <2>2, <3>1, <3>2, CallKept
  <2>4. StatusInv'
    BY <1>c DEF StatusInv
  <2>5. QED
    BY <1>a, <1>b, <1>c, <2>2, <2>3, <2>4 DEF WalkInv
<1>1. CASE NextProcessPath
  <2>1. /\ UNCHANGED config /\ UNCHANGED status /\ status = "running"
        /\ next_path' = next_path + 1 /\ next_path <= Len(process_paths)
    BY <1>1 DEF NextProcessPath, Running
  <2>2. next_path' \in 1..(Len(process_paths') + 1) /\ Config'
    BY <1>a, <1>b, <2>1
  <2>3. StatusInv'
    BY <2>1 DEF StatusInv
  <2>4. CASE process_paths[next_path] = NoDir
    <3>1. stack' = <<>>
      BY <1>1, <2>4 DEF NextProcessPath
    <3>2. stack' \in Seq(Frames) /\ Len(stack') = 0
      BY <3>1, EmptySeq
    <3>3. \A i \in 1..Len(stack') : CallInv(i)'
      BY <3>2
    <3>4. QED
      BY <2>2, <2>3, <3>2, <3>3 DEF WalkInv
  <2>5. CASE process_paths[next_path] # NoDir
    <3>1. /\ stack' \in Seq(Frames) /\ Len(stack') = 1
          /\ stack'[1] = Frame(process_paths[next_path], <<>>, 0, 0)
          /\ Here(1)' \in DirsAt[0]
      BY <1>1, <2>5, Started
    <3>2. /\ stack'[1] \in Frames /\ stack'[1].cnt = 0 /\ Len(stack'[1].sub_path) = 0
          /\ stack'[1].pos = 1 /\ stack'[1].dir \in Dirs
      <4>1. stack'[1] \in Frames
        BY <3>1, ElementOfSeq
      <4>2. QED
        BY <3>1, <4>1, EmptySeq DEF Frame, Frames
    <3>3. Len(fs[stack'[1].dir]) \in Nat /\ stack'[1].links \in 0..MaxLinks
      BY <1>a, <3>2, ConfigType DEF Frames
    <3>4. Room(stack'[1].links, stack'[1].dir) \in 1..MaxDepth
      BY <1>a, <3>2, <3>3, RoomFacts
    <3>5. CallInv(1)'
      BY <1>b, <2>1, <3>1, <3>2, <3>3, <3>4 DEF CallInv
    <3>6. \A i \in 1..Len(stack') : CallInv(i)'
      BY <3>1, <3>5
    <3>7. QED
      BY <2>2, <2>3, <3>1, <3>6 DEF WalkInv
  <2>6. QED
    BY <2>4, <2>5
<1>2. CASE EntryFails
  <2>1. /\ UNCHANGED <<config, next_path, stack>> /\ status' = "failed" /\ Unreadable
        /\ stack # <<>> /\ top.pos <= Len(fs[top.dir])
    BY <1>2 DEF EntryFails, AtEntry
  <2>2. StatusInv'
    BY <1>b, <2>1 DEF StatusInv, top, Unreadable, entry, links, may_recurse, config
  <2>3. \A i \in 1..Len(stack) : CallInv(i)'
    BY <1>a, <2>1, CallKept DEF CallInv
  <2>4. QED
    BY <1>a, <1>b, <2>1, <2>2, <2>3 DEF WalkInv
<1>3. CASE Directory
  <2>1. /\ Inside /\ UNCHANGED <<config, next_path, status>>
        /\ status = "running"
    BY <1>3 DEF Directory, AtEntry, Inside, Running
  <2>2. CASE ~may_recurse(top.cnt)
    <3>1. Advance
      BY <1>3, <2>2 DEF Directory, Advance
    <3>2. QED
      BY <1>c, <2>1, <3>1
  <2>3. CASE may_recurse(top.cnt)
    <3> DEFINE n == Len(stack)
    <3>1. /\ n \in Nat \ {0} /\ stack' \in Seq(Frames) /\ Len(stack') = n + 1
          /\ \A k \in 1..n :
               /\ stack'[k].dir = stack[k].dir /\ stack'[k].sub_path = stack[k].sub_path
               /\ stack'[k].cnt = stack[k].cnt /\ stack'[k].links = stack[k].links
               /\ stack'[k].pos = IF k = n THEN top.pos + 1 ELSE stack[k].pos
          /\ stack'[n + 1] = Frame(entry.target, name, top.cnt + 1, links)
          /\ top.pos \in InDir(Here(n))
      BY <1>3, <2>3, Descent
    <3>2. /\ n \in 1..n /\ top \in Frames /\ CallInv(n) /\ top = stack[n]
          /\ n \in 1..MaxDepth /\ Here(n) \in DirsAt[n - 1] /\ Len(fs[top.dir]) \in Nat
      <4>1. n \in 1..n
        BY <3>1
      <4>2. QED
        BY <1>a, <4>1, CallDepth, ConfigType DEF top, Frames
    <3>3. ASSUME NEW i \in 1..n PROVE CallInv(i)'
      <4>1. \A k \in 1..(i - 1) : stack'[k].pos = stack[k].pos
        BY <1>a, <3>1
      <4>2. stack'[i].pos <= Len(fs[stack[i].dir]) + 1
        <5>1. CASE i = n
          <6>1. top.pos \in 1..Len(fs[top.dir]) /\ stack'[i].pos = top.pos + 1
            BY <3>1, <3>2, <5>1 DEF InDir, Here
          <6>2. QED
            BY <3>2, <5>1, <6>1
        <5>2. CASE i # n
          BY <1>a, <3>1, <5>2 DEF CallInv
        <5>3. QED
          BY <5>1, <5>2
      <4>3. QED
        BY <2>1, <3>1, <4>1, <4>2, CallKept
    <3>4. ASSUME NEW m, m = n PROVE CallInv(m + 1)'
      <4>1. IsChild(Here(m + 1)', Here(m), top.pos) /\ Within(m)
        BY <1>3, <2>3, <3>4, Descent
      <4>2. m \in 1..MaxDepth /\ Here(m) \in DirsAt[m - 1] /\ m \in Nat
        BY <3>2, <3>4, DepthType
      <4>3. Here(m + 1)' \in DirsAt[m]
        BY <1>a, <3>1, <3>4, <4>1, <4>2, LowerLevel
      <4>4. /\ stack'[m + 1] \in Frames /\ stack'[m + 1].pos = 1
            /\ stack'[m + 1].cnt = (m + 1) - 1 /\ Len(stack'[m + 1].sub_path) = (m + 1) - 1
            /\ stack'[m + 1].dir = entry.target /\ stack'[m + 1].links = links
        <5>1. stack'[m + 1] \in Frames
          BY <3>1, <3>4, <4>2, ElementOfSeq
        <5>2. top.cnt + 1 = (m + 1) - 1
          BY <3>2, <3>4, <4>2 DEF CallInv
        <5>3. Len(name) = (m + 1) - 1
          <6>1. top.sub_path \in Seq(Names) /\ Len(top.sub_path) = m - 1
            BY <3>2, <3>4 DEF CallInv, Frames
          <6>2. entry.name \in Names
            <7>1. top.dir \in Dirs /\ top.pos \in 1..Len(fs[top.dir])
              BY <3>1, <3>2 DEF InDir, Here, Frames
            <7>2. QED
              BY <1>a, <7>1, EntryType DEF entry
          <6>3. QED
            BY <4>2, <6>1, <6>2, AppendProperties DEF name
        <5>4. QED
          BY <3>1, <3>4, <5>1, <5>2, <5>3 DEF Frame
      <4>5. m + 1 <= Room(links, entry.target)
        <5>1. m <= Room(top.links, top.dir)
          BY <3>2, <3>4 DEF CallInv
        <5>2. /\ top.links \in 0..MaxLinks /\ top.dir \in Dirs /\ entry.target \in Dirs
              /\ links \in 0..MaxLinks
          BY <3>2, <4>4 DEF Frames
        <5>3. Room(links, entry.target) > Room(top.links, top.dir)
          <6>1. CASE entry.link
            <7>1. links = top.links + 1
              BY <6>1 DEF links
            <7>2. QED
              BY <1>a, <5>2, <7>1, RoomFacts
          <6>2. CASE ~entry.link
            <7>1. links = top.links
              BY <5>2, <6>2 DEF links
            <7>2. Height[entry.target] < Height[top.dir]
              <8>1. top.pos \in 1..Len(fs[top.dir]) /\ entry.kind = "dir"
                BY <1>3, <2>3, <3>1, <3>2 DEF InDir, Here, Directory, Unreadable
              <8>2. QED
                BY <1>a, <5>2, <6>2, <8>1, HeightFacts DEF LowersHeight, entry
            <7>3. QED
              BY <1>a, <5>2, <7>1, <7>2, RoomFacts
          <6>3. QED
            BY <6>1, <6>2
        <5>4. Room(links, entry.target) \in Int /\ Room(top.links, top.dir) \in Int
          BY <1>a, <5>2, RoomFacts
        <5>5. QED
          BY <4>2, <5>1, <5>3, <5>4
      <4>6. Len(fs[stack'[m + 1].dir]) \in Nat
        BY <1>a, <4>4, ConfigType DEF Frames
      <4>7. (m + 1) - 1 = m
        BY <4>2
      <4>8. QED
        BY <1>b, <2>1, <4>3, <4>4, <4>5, <4>6, <4>7 DEF CallInv
    <3>5. \A i \in 1..Len(stack') : CallInv(i)'
      <4>1. SUFFICES ASSUME NEW i \in 1..Len(stack') PROVE CallInv(i)'
        OBVIOUS
      <4>2. CASE i = n + 1
        <5>1. CallInv(i - 1 + 1)'
          <6>1. i - 1 = n
            BY <3>1, <4>2
          <6>2. QED
            BY <3>4, <6>1
        <5>2. i - 1 + 1 = i
          BY <3>1, <4>2
        <5>3. QED
          BY <5>1, <5>2
      <4>3. CASE i # n + 1
        BY <3>1, <3>3, <4>3
      <4>4. QED
        BY <4>2, <4>3
    <3>6. StatusInv'
      BY <2>1 DEF StatusInv
    <3>7. QED
      BY <1>a, <1>b, <2>1, <3>1, <3>5, <3>6 DEF WalkInv
  <2>4. QED
    BY <2>2, <2>3
<1>4. CASE RegularFile
  BY <1>4, <1>c DEF RegularFile, AtEntry, Inside, Running
<1>5. CASE OtherEntry
  BY <1>5, <1>c DEF OtherEntry, AtEntry, Inside, Running
<1>6. CASE Return
  <2> DEFINE n == Len(stack)
  <2>1. /\ n \in Nat \ {0} /\ stack' \in Seq(Frames) /\ Len(stack') = n - 1
        /\ \A k \in 1..(n - 1) : stack'[k] = stack[k]
    BY <1>6, Returned
  <2>2. UNCHANGED <<config, next_path, status>> /\ status = "running"
    BY <1>6 DEF Return, Running
  <2>3. ASSUME NEW i \in 1..Len(stack') PROVE CallInv(i)'
    <3>1. i \in 1..n /\ stack'[i] = stack[i] /\ \A k \in 1..(i - 1) : stack'[k] = stack[k]
      BY <2>1
    <3>2. stack'[i].pos <= Len(fs[stack[i].dir]) + 1
      BY <1>a, <3>1 DEF CallInv
    <3>3. QED
      BY <2>2, <3>1, <3>2, CallKept
  <2>4. StatusInv'
    BY <2>2 DEF StatusInv
  <2>5. QED
    BY <1>a, <1>b, <2>1, <2>2, <2>3, <2>4 DEF WalkInv
<1>7. CASE Done
  <2>1. /\ UNCHANGED <<config, next_path, stack>> /\ status' = "done"
        /\ stack = <<>> /\ next_path > Len(process_paths)
    BY <1>7 DEF Done
  <2>2. StatusInv'
    BY <1>b, <2>1 DEF StatusInv
  <2>3. \A i \in 1..Len(stack) : CallInv(i)'
    BY <1>a, <2>1, CallKept DEF CallInv
  <2>4. QED
    BY <1>a, <1>b, <2>1, <2>2, <2>3 DEF WalkInv
<1>8. CASE UNCHANGED vars
  <2>1. UNCHANGED <<config, next_path, stack, status>>
    BY <1>8 DEF vars, config
  <2>2. StatusInv'
    BY <1>b, <2>1 DEF WalkInv, StatusInv, top, Unreadable, entry, links, may_recurse, config
  <2>3. \A i \in 1..Len(stack) : CallInv(i)'
    BY <1>a, <2>1, CallKept DEF CallInv
  <2>4. QED
    BY <1>a, <1>b, <2>1, <2>2, <2>3 DEF WalkInv
<1>9. QED
  BY <1>1, <1>2, <1>3, <1>4, <1>5, <1>6, <1>7, <1>8 DEF Next

-----------------------------------------------------------------------------
(* The list and the graph.                                                 *)

Vertexes == [name : Seq(Names), abs_path : Paths]
Listed   == {files[i] : i \in 1..Len(files)}

ListInv ==
  /\ files \in Seq(Paths)
  /\ IsGraph(graph, Vertexes, {})
  /\ Labels(graph) = Listed

(* The entry of the walk is one of the levels.                             *)
LEMMA AtEntryOf ==
  ASSUME WalkInv, Inside, NEW n, n = Len(stack)
  PROVE  /\ n \in Nat \ {0} /\ n \in 1..MaxDepth /\ n - 1 \in 0..MaxDepth
         /\ top \in Frames /\ Here(n) \in DirsAt[n - 1] /\ top.pos \in InDir(Here(n))
         /\ Here(n).dir = top.dir /\ Here(n).sub_path = top.sub_path
         /\ EntryAt(Here(n), top.pos) = entry
         /\ Readable(Here(n), top.pos) <=> ~Unreadable
         /\ entry.kind = "file" => entry.target \in Paths
         /\ name \in Seq(Names)
<1>1. /\ n \in 1..n /\ n \in Nat /\ top.pos \in InDir(Here(n))
      /\ Config /\ stack \in Seq(Frames)
  <2> DEFINE s == [stack EXCEPT ![Len(stack)].pos = @ + 1]
  <2>1. s = [stack EXCEPT ![Len(stack)].pos = @ + 1]
    OBVIOUS
  <2> HIDE DEF s
  <2>2. QED
    BY <2>1, Advanced DEF WalkInv
<1>2. /\ top \in Frames /\ n \in 1..MaxDepth /\ n - 1 \in 0..MaxDepth
      /\ Here(n) \in DirsAt[n - 1]
  BY <1>1, CallDepth DEF top
<1>3. /\ Here(n).dir = top.dir /\ Here(n).links = top.links
      /\ Here(n).sub_path = top.sub_path
  BY DEF Here, top
<1>4. EntryAt(Here(n), top.pos) = entry /\ LinksTo(Here(n), top.pos) = links
  BY <1>3 DEF EntryAt, entry, LinksTo, links
<1>5. Readable(Here(n), top.pos) <=> ~Unreadable
  <2>1. links \in Int /\ MaxLinks \in Int
    BY <1>2, DepthType DEF links, Frames
  <2>2. may_recurse(top.cnt) <=>
          recursive_limit = -1 \/ Len(Here(n).sub_path) < recursive_limit
    <3>1. CallInv(n) /\ recursive_limit \in Int
      BY <1>1, ConfigType DEF WalkInv
    <3>2. top.cnt = n - 1 /\ Len(Here(n).sub_path) = n - 1 /\ n - 1 \in Nat
      BY <1>1, <1>2, <1>3, <3>1 DEF CallInv, top
    <3>3. QED
      BY <3>1, <3>2 DEF may_recurse
  <2>3. Len(Here(n).sub_path) \in Int /\ recursive_limit \in Int
    BY <1>1, <1>2, <1>3, ConfigType, LenProperties DEF Frames
  <2>4. QED
    BY <1>4, <2>1, <2>2, <2>3 DEF Readable, Unreadable
<1>6. top.dir \in Dirs /\ top.pos \in 1..Len(fs[top.dir])
  BY <1>1, <1>2, <1>3 DEF Frames, InDir
<1>7. entry.name \in Names /\ (entry.kind = "file" => entry.target \in Paths)
  BY <1>1, <1>6, EntryType DEF entry
<1>8. name \in Seq(Names)
  BY <1>2, <1>7, AppendProperties DEF name, Frames
<1>9. QED
  BY <1>1, <1>2, <1>3, <1>4, <1>5, <1>7, <1>8

(* A file that is used gets its vertex, unless it has one, and is listed.  *)
LEMMA FileListed ==
  ASSUME WalkInv, ListInv, RegularFile, use_file(entry.target)
  PROVE  /\ entry.target \in Paths
         /\ files' \in Seq(Paths) /\ Len(files') = Len(files) + 1 /\ Len(files) \in Nat
         /\ files' = Append(files, entry.target)
         /\ \A i \in 1..Len(files) : files'[i] = files[i]
         /\ files'[Len(files) + 1] = entry.target
         /\ Listed' = Listed \cup {entry.target}
         /\ IsGraph(graph', Vertexes, {})
         /\ Labels(graph') = Labels(graph) \cup {entry.target}
         /\ \A k \in Labels(graph) : graph'.vertexes[k] = graph.vertexes[k]
         /\ entry.target \notin Labels(graph) =>
              graph'.vertexes[entry.target] = Vertex(name, entry.target)
<1>1. /\ Inside /\ entry.kind = "file" /\ files' = Append(files, entry.target)
      /\ graph' = add_vertex(graph, name, entry.target)
  BY DEF RegularFile, AtEntry, Inside
<1>2. entry.target \in Paths /\ name \in Seq(Names)
  BY <1>1, AtEntryOf
<1>3. Vertex(name, entry.target) \in Vertexes
  BY <1>2 DEF Vertex, Vertexes
<1>4. Key(name, entry.target) = entry.target
  BY <1>2, DetectorFilesAssumption DEF Key
<1>5. /\ IsGraph(graph', Vertexes, {})
      /\ Labels(graph') = Labels(graph) \cup {entry.target}
      /\ \A k \in Labels(graph) : graph'.vertexes[k] = graph.vertexes[k]
      /\ entry.target \notin Labels(graph) =>
           graph'.vertexes[entry.target] = Vertex(name, entry.target)
  BY <1>1, <1>3, <1>4, AddVertexLemma DEF ListInv
<1>6. /\ files' \in Seq(Paths) /\ Len(files') = Len(files) + 1 /\ Len(files) \in Nat
      /\ \A i \in 1..Len(files) : files'[i] = files[i]
      /\ files'[Len(files) + 1] = entry.target
  BY <1>1, <1>2, AppendProperties, LenProperties DEF ListInv
<1>7. Listed' = Listed \cup {entry.target}
  <2>1. \A i \in 1..(Len(files) + 1) : i \in 1..Len(files) \/ i = Len(files) + 1
    BY <1>6
  <2>2. 1..Len(files) \subseteq 1..Len(files') /\ Len(files) + 1 \in 1..Len(files')
    BY <1>6
  <2>3. QED
    BY <1>6, <2>1, <2>2 DEF Listed
<1>8. QED
  BY <1>1, <1>2, <1>5, <1>6, <1>7

LEMMA ListInit == Init => ListInv
<1> SUFFICES ASSUME Init PROVE ListInv
  OBVIOUS
<1>1. files = <<>> /\ graph = EmptyGraph
  BY DEF Init
<1>2. files \in Seq(Paths) /\ Len(files) = 0
  BY <1>1, EmptySeq
<1>3. Listed = {}
  BY <1>2 DEF Listed
<1>4. QED
  BY <1>1, <1>2, <1>3, EmptyGraphLemma DEF ListInv

LEMMA ListStep == WalkInv /\ ListInv /\ [Next]_vars => ListInv'
<1> SUFFICES ASSUME WalkInv, ListInv, [Next]_vars PROVE ListInv'
  OBVIOUS
<1>1. CASE UNCHANGED <<files, graph>>
  BY <1>1 DEF ListInv, Listed
<1>2. CASE RegularFile /\ use_file(entry.target)
  BY <1>2, FileListed DEF ListInv
<1>3. CASE RegularFile /\ ~use_file(entry.target)
  BY <1>1, <1>3 DEF RegularFile
<1>4. QED
  BY <1>1, <1>2, <1>3 DEF Next, NextProcessPath, EntryFails, Directory, OtherEntry,
     Return, Done, vars

LEMMA TypeFollows == WalkInv /\ ListInv => TypeOK
<1> SUFFICES ASSUME WalkInv, ListInv PROVE TypeOK
  OBVIOUS
<1>1. ASSUME NEW i \in 1..Len(stack)
      PROVE  /\ stack[i].dir \in Dirs
             /\ stack[i].cnt = i - 1 /\ Len(stack[i].sub_path) = i - 1
             /\ stack[i].links \in 0..MaxLinks
             /\ stack[i].pos \in 1..(Len(fs[stack[i].dir]) + 1)
  BY CallDepth DEF WalkInv, CallInv, Frames
<1>2. Labels(graph) \subseteq Paths
  BY ElementOfSeq DEF ListInv, Listed
<1>3. QED
  BY <1>1, <1>2 DEF TypeOK, WalkInv, StatusInv, ListInv

LEMMA WalkAndListInvariant == Spec => [](WalkInv /\ ListInv)
<1>1. Init => WalkInv /\ ListInv
  BY WalkInit, ListInit
<1>2. WalkInv /\ ListInv /\ [Next]_vars => (WalkInv /\ ListInv)'
  BY WalkStep, ListStep
<1>3. QED
  BY <1>1, <1>2, PTL DEF Spec

(* Whatever the file system and the options are, every call of walk_tree   *)
(* is as deep as its recursive_cnt says, and every file on the list is the *)
(* canonical path of a regular file.                                       *)
THEOREM TypeCorrect == Spec => []TypeOK
<1>1. WalkInv /\ ListInv => TypeOK
  BY TypeFollows
<1>2. QED
  BY <1>1, WalkAndListInvariant, PTL

(* The walk does, step by step, what Input_Files allows: each file is put  *)
(* on the list together with its vertex.                                   *)
THEOREM StepsOfInputFiles ==
  Spec => InputFiles!Init /\ [][InputFiles!Next]_InputFiles!vars
<1>1. Init => InputFiles!Init
  BY EmptyGraphLemma DEF Init, InputFiles!Init
<1>2. WalkInv /\ ListInv /\ [Next]_vars => [InputFiles!Next]_InputFiles!vars
  <2> SUFFICES ASSUME WalkInv, ListInv, [Next]_vars
               PROVE  InputFiles!Next \/ UNCHANGED InputFiles!vars
    BY DEF InputFiles!vars
  <2>1. CASE UNCHANGED <<files, graph, status>>
    BY <2>1 DEF InputFiles!vars, Labels
  <2>2. CASE EntryFails
    BY <2>2 DEF EntryFails, AtEntry, Running, InputFiles!Next, InputFiles!Throw, Labels
  <2>3. CASE Done
    BY <2>3 DEF Done, Running, InputFiles!Next, InputFiles!Return, Labels
  <2>4. CASE RegularFile /\ use_file(entry.target)
    <3>1. /\ status = "running" /\ UNCHANGED status
          /\ files' = Append(files, entry.target)
      BY <2>4 DEF RegularFile, AtEntry, Running
    <3>2. entry.target \in Paths /\ Labels(graph') = Labels(graph) \cup {entry.target}
      BY <2>4, FileListed
    <3>3. Labels(graph)' = Labels(graph')
      BY DEF Labels
    <3>4. InputFiles!Put(entry.target)
      BY <3>1, <3>2, <3>3 DEF InputFiles!Put
    <3>5. QED
      BY <3>2, <3>4 DEF InputFiles!Next
  <2>5. CASE RegularFile /\ ~use_file(entry.target)
    BY <2>1, <2>5 DEF RegularFile
  <2>6. QED
    BY <2>1, <2>2, <2>3, <2>4, <2>5 DEF Next, NextProcessPath, Directory, OtherEntry,
       Return, vars
<1>3. QED
  BY <1>1, <1>2, WalkAndListInvariant, PTL DEF Spec

-----------------------------------------------------------------------------
(* How far the walk is.                                                    *)

(* The entry that the walk is at, or the process path that comes next.     *)
Cur == IF stack = <<>> THEN <<next_path>> ELSE Append(WayOf(Len(stack)), top.pos)

LEMMA CurInside ==
  ASSUME WalkInv, stack # <<>>, NEW n, n = Len(stack)
  PROVE  /\ n \in Nat \ {0} /\ n - 1 \in 0..MaxDepth /\ Here(n) \in DirsAt[n - 1]
         /\ Here(n).way = WayOf(n) /\ WayOf(n) \in Ways /\ Len(WayOf(n)) = n
         /\ top.pos \in Nat \ {0} /\ Cur = Append(WayOf(n), top.pos)
         /\ Cur \in Ways /\ Len(Cur) = n + 1 /\ Cur[n + 1] = top.pos
         /\ \A k \in 1..n : Cur[k] = WayOf(n)[k]
<1>1. n \in Nat \ {0} /\ n \in 1..Len(stack)
  BY EmptySeq DEF WalkInv
<1>2. /\ n - 1 \in 0..MaxDepth /\ Here(n) \in DirsAt[n - 1] /\ Here(n) \in DirRecords
      /\ top \in Frames /\ Config
  BY <1>1, CallDepth DEF top, WalkInv
<1>3. Here(n).way = WayOf(n)
  BY DEF Here
<1>4. Len(Here(n).way) = (n - 1) + 1 /\ Here(n).way \in Ways
  BY <1>2, LevelType DEF DirRecords
<1> DEFINE w == WayOf(n)
           p == top.pos
<1>5. w \in Seq(Nat \ {0}) /\ Len(w) = n /\ p \in Nat \ {0}
  BY <1>1, <1>2, <1>3, <1>4 DEF Ways, Frames
<1>6. Cur = Append(w, p)
  BY DEF Cur
<1> HIDE DEF w, p
<1>7. /\ Cur \in Seq(Nat \ {0}) /\ Len(Cur) = n + 1 /\ Cur[n + 1] = p
      /\ \A k \in 1..n : Cur[k] = w[k]
  BY <1>5, <1>6, AppendProperties
<1>8. QED
  BY <1>1, <1>2, <1>3, <1>5, <1>6, <1>7 DEF Ways, w, p

LEMMA CurType == WalkInv => Cur \in Ways
<1> SUFFICES ASSUME WalkInv PROVE Cur \in Ways
  OBVIOUS
<1>1. CASE stack = <<>>
  <2>1. next_path \in Nat \ {0}
    BY ConfigType DEF WalkInv
  <2>2. QED
    BY <1>1, <2>1 DEF Cur, Ways
<1>2. CASE stack # <<>>
  BY <1>2, CurInside
<1>3. QED
  BY <1>1, <1>2

(* An entry, with its level.                                               *)
LEMMA EntryLevel ==
  ASSUME Config, NEW e \in AllEntries
  PROVE  /\ \E n \in 0..MaxDepth : \E d \in DirsAt[n] : \E i \in InDir(d) : e = <<d, i>>
         /\ Way(e) \in Ways /\ Len(Way(e)) \in Nat \ {0, 1}
<1>1. PICK n \in 0..MaxDepth : \E d \in DirsAt[n] : \E i \in InDir(d) : e = <<d, i>>
  BY AllEntriesAre
<1>2. PICK d \in DirsAt[n] : \E i \in InDir(d) : e = <<d, i>>
  BY <1>1
<1>3. PICK i \in InDir(d) : e = <<d, i>>
  BY <1>2
<1>4. Way(<<d, i>>) \in Ways /\ Len(Way(<<d, i>>)) = n + 2 /\ n \in Nat
  BY EntryWay
<1>5. Way(e) \in Ways /\ Len(Way(e)) \in Nat \ {0, 1}
  <2>1. Way(e) = Way(<<d, i>>)
    BY <1>3
  <2>2. Way(e) \in Ways /\ Len(Way(e)) = n + 2
    BY <1>4, <2>1
  <2>3. n + 2 \in Nat \ {0, 1}
    BY <1>4
  <2>4. QED
    BY <2>2, <2>3
<1>6. QED
  BY <1>1, <1>5

(* Only the entry itself goes on as the walk does, unless the walk enters. *)
LEMMA OnlyItself ==
  ASSUME WalkInv, Inside, NEW n, n = Len(stack),
         ~(entry.kind = "dir" /\ ~Unreadable /\ Within(n)),
         NEW e \in AllEntries
  PROVE  Continues(Way(e), Cur) <=> e = <<Here(n), top.pos>>
<1>1. /\ n \in Nat \ {0} /\ n - 1 \in 0..MaxDepth /\ Here(n) \in DirsAt[n - 1]
      /\ top.pos \in InDir(Here(n)) /\ EntryAt(Here(n), top.pos) = entry
      /\ Readable(Here(n), top.pos) <=> ~Unreadable
      /\ Config
  BY AtEntryOf DEF WalkInv
<1>2. /\ Here(n).way = WayOf(n) /\ WayOf(n) \in Ways /\ Len(WayOf(n)) = n
      /\ top.pos \in Nat \ {0} /\ Cur = Append(WayOf(n), top.pos)
      /\ Cur \in Ways /\ Len(Cur) = n + 1 /\ Cur[n + 1] = top.pos
      /\ \A k \in 1..n : Cur[k] = WayOf(n)[k]
  BY CurInside DEF Inside
<1>3. Way(<<Here(n), top.pos>>) = Cur
  BY <1>2 DEF Way
<1>4. ASSUME Continues(Way(e), Cur) PROVE e = <<Here(n), top.pos>>
  <2>1. PICK m \in 0..MaxDepth : \E d \in DirsAt[m] : \E i \in InDir(d) : e = <<d, i>>
    BY <1>1, EntryLevel
  <2>2. PICK d \in DirsAt[m] : \E i \in InDir(d) : e = <<d, i>>
    BY <2>1
  <2>3. PICK i \in InDir(d) : e = <<d, i>>
    BY <2>2
  <2>4. /\ Way(e) \in Ways /\ Len(Way(e)) = m + 2 /\ Way(e)[m + 2] = i /\ m \in Nat
    BY <1>1, <2>3, EntryWay
  <2>5. /\ n + 1 <= m + 2 /\ \A k \in 1..n : Way(e)[k] = WayOf(n)[k]
        /\ Way(e)[n + 1] = top.pos
    BY <1>1, <1>2, <1>4, <2>4 DEF Continues
  <2>6. Continues(Way(e), Here(n).way)
    BY <1>1, <1>2, <2>4, <2>5 DEF Continues
  <2>7. \/ n - 1 = m /\ Here(n) = d
        \/ n - 1 < m /\ LeadsOn(Here(n), Way(e)[(n - 1) + 2], (n - 1) + 1)
        \/ n - 1 = m + 1 /\ Here(n).way = Way(e)
    BY <1>1, <2>3, <2>6, EntryThrough
  <2>8. CASE n - 1 = m /\ Here(n) = d
    <3>1. m + 2 = n + 1
      BY <1>1, <2>4, <2>8
    <3>2. i = top.pos
      BY <2>4, <2>5, <3>1
    <3>3. QED
      BY <2>3, <2>8, <3>2
  <2>9. CASE n - 1 < m /\ LeadsOn(Here(n), Way(e)[(n - 1) + 2], (n - 1) + 1)
    <3>1. (n - 1) + 2 = n + 1 /\ (n - 1) + 1 = n
      BY <1>1
    <3>2. LeadsOn(Here(n), top.pos, n)
      BY <2>5, <2>9, <3>1
    <3>3. QED
      BY <1>1, <3>2 DEF LeadsOn
  <2>10. CASE n - 1 = m + 1
    BY <1>1, <2>4, <2>5, <2>10
  <2>11. QED
    BY <2>7, <2>8, <2>9, <2>10
<1>5. Continues(Cur, Cur)
  BY DEF Continues
<1>6. QED
  BY <1>3, <1>4, <1>5

(* The iterator goes on: the walk is past one more entry.                  *)
LEMMA PastEntry ==
  ASSUME WalkInv, Inside, Advance, UNCHANGED <<config, next_path>>, WalkInv',
         NEW n, n = Len(stack),
         ~(entry.kind = "dir" /\ ~Unreadable /\ Within(n)),
         NEW e \in AllEntries
  PROVE  Sooner(Way(e), Cur') <=> Sooner(Way(e), Cur) \/ e = <<Here(n), top.pos>>
<1>1. /\ n \in Nat /\ n \in 1..n /\ stack' \in Seq(Frames) /\ Len(stack') = n
      /\ \A k \in 1..n :
           /\ stack'[k].dir = stack[k].dir /\ stack'[k].sub_path = stack[k].sub_path
           /\ stack'[k].cnt = stack[k].cnt /\ stack'[k].links = stack[k].links
           /\ stack'[k].pos = IF k = n THEN top.pos + 1 ELSE stack[k].pos
  <2>1. stack' = [stack EXCEPT ![Len(stack)].pos = @ + 1]
    BY DEF Advance
  <2>2. /\ Len(stack) \in Nat /\ Len(stack) \in 1..Len(stack)
        /\ stack' \in Seq(Frames) /\ Len(stack') = Len(stack)
        /\ \A k \in 1..Len(stack) :
             /\ stack'[k].dir = stack[k].dir /\ stack'[k].sub_path = stack[k].sub_path
             /\ stack'[k].cnt = stack[k].cnt /\ stack'[k].links = stack[k].links
             /\ stack'[k].pos = IF k = Len(stack) THEN top.pos + 1 ELSE stack[k].pos
    BY <2>1, Advanced
  <2>3. QED
    BY <2>2
<1>2. /\ WayOf(n) \in Ways /\ Len(WayOf(n)) = n
      /\ top.pos \in Nat \ {0} /\ Cur = Append(WayOf(n), top.pos)
      /\ Cur \in Ways /\ Len(Cur) = n + 1 /\ Cur[n + 1] = top.pos
      /\ \A k \in 1..n : Cur[k] = WayOf(n)[k]
  BY CurInside DEF Inside
<1>3. WayOf(n)' = WayOf(n)
  <2>1. UNCHANGED next_path /\ \A k \in 1..n : k # 1 => k - 1 \in 1..n /\ k - 1 # n
    BY <1>1
  <2>2. \A k \in 1..n : k # 1 => stack'[k - 1].pos = stack[k - 1].pos
    BY <1>1, <2>1
  <2>3. QED
    BY <2>1, <2>2 DEF WayOf
<1>4. Cur' = Append(WayOf(n), top.pos + 1)
  <2>1. stack' # <<>>
    BY <1>1, EmptySeq
  <2>2. top'.pos = top.pos + 1
    BY <1>1 DEF top
  <2>3. Cur' = Append(WayOf(n)', top'.pos)
    BY <1>1, <2>1 DEF Cur, WayOf
  <2>4. QED
    BY <1>3, <2>2, <2>3
<1>5. /\ Cur' \in Ways /\ Len(Cur') = n + 1 /\ Cur'[n + 1] = top.pos + 1
      /\ \A k \in 1..n : Cur'[k] = WayOf(n)[k]
  <2> DEFINE w == WayOf(n)
             p == top.pos + 1
  <2>1. w \in Seq(Nat \ {0}) /\ Len(w) = n /\ p \in Nat \ {0} /\ Cur' = Append(w, p)
    BY <1>2, <1>4 DEF Ways
  <2> HIDE DEF w, p
  <2>2. /\ Cur' \in Seq(Nat \ {0}) /\ Len(Cur') = n + 1 /\ Cur'[n + 1] = p
        /\ \A k \in 1..n : Cur'[k] = w[k]
    BY <2>1, AppendProperties
  <2>3. QED
    BY <2>2 DEF Ways, w, p
<1>6. IsNext(Cur', Cur)
  BY <1>1, <1>2, <1>5 DEF IsNext
<1>7. Way(e) \in Ways
  BY EntryLevel DEF WalkInv
<1>8. Sooner(Way(e), Cur') <=> Sooner(Way(e), Cur) \/ Continues(Way(e), Cur)
  BY <1>2, <1>5, <1>6, <1>7, SoonerThanNext
<1>9. QED
  BY <1>8, OnlyItself

(* A recursive call: the walk is past what it was past.                    *)
LEMMA PastDescent ==
  ASSUME WalkInv, Directory, may_recurse(top.cnt), NEW e \in AllEntries
  PROVE  Sooner(Way(e), Cur') <=> Sooner(Way(e), Cur)
<1>1. \A n : n = Len(stack) =>
        /\ n \in Nat \ {0} /\ stack' \in Seq(Frames) /\ Len(stack') = n + 1
        /\ stack'[n + 1] = Frame(entry.target, name, top.cnt + 1, links)
        /\ WayOf(n + 1)' = Append(WayOf(n), top.pos)
  BY Descent
<1>2. Cur = Append(WayOf(Len(stack)), top.pos) /\ Cur \in Ways
  BY CurInside DEF Directory, AtEntry
<1>3. Cur' = Append(Cur, 1)
  <2>1. stack' # <<>>
    <3>1. stack' \in Seq(Frames) /\ Len(stack') = Len(stack) + 1 /\ Len(stack) \in Nat
      BY <1>1
    <3>2. Len(stack') # 0
      BY <3>1
    <3>3. QED
      BY <3>2, EmptySeq
  <2>2. top'.pos = 1
    BY <1>1 DEF top, Frame
  <2>3. Cur' = Append(WayOf(Len(stack))', 1)
    BY <2>1, <2>2 DEF Cur
  <2>4. \A n : n = Len(stack) => WayOf(Len(stack))' = WayOf(n + 1)'
    BY <1>1 DEF WayOf
  <2>5. WayOf(Len(stack))' = Cur
    BY <1>1, <1>2, <2>4
  <2>6. QED
    BY <2>3, <2>5
<1>4. Cur' \in Ways
  BY <1>2, <1>3, AppendProperties DEF Ways
<1>5. Way(e) \in Ways
  BY EntryLevel DEF WalkInv
<1>6. QED
  BY <1>2, <1>3, <1>4, <1>5, SoonerThanFirst

(* The way to an entry begins at a process path that is a directory.       *)
LEMMA RootOf ==
  ASSUME Config, NEW e \in AllEntries
  PROVE  Way(e)[1] \in 1..Len(process_paths) /\ process_paths[Way(e)[1]] # NoDir
<1>1. PICK n \in 0..MaxDepth : \E d \in DirsAt[n] : \E i \in InDir(d) : e = <<d, i>>
  BY EntryLevel
<1>2. PICK d \in DirsAt[n] : \E i \in InDir(d) : e = <<d, i>>
  BY <1>1
<1>3. PICK i \in InDir(d) : e = <<d, i>>
  BY <1>2
<1>4. 0 \in 0..n /\ n \in Nat /\ 0 \in 0..MaxDepth
  BY DepthType
<1>5. PICK r \in DirsAt[0] : Through(r, d.way, 0)
  BY <1>4, WaysThroughLevels
<1>6. PICK p \in 1..Len(process_paths) :
        /\ process_paths[p] # NoDir
        /\ r = [way |-> <<p>>, dir |-> process_paths[p], links |-> 0, sub_path |-> <<>>]
  BY RootLevel
<1>7. r.way = <<p>> /\ Len(<<p>>) = 1 /\ <<p>>[1] = p
  BY <1>6
<1>8. d.way[1] = p
  BY <1>5, <1>7 DEF Through, Continues
<1>9. Way(e)[1] = d.way[1]
  <2>1. \A j \in 1..(n + 1) : Way(<<d, i>>)[j] = d.way[j]
    BY EntryWay
  <2>2. Way(e) = Way(<<d, i>>) /\ 1 \in 1..(n + 1)
    BY <1>3, <1>4
  <2>3. QED
    BY <2>1, <2>2
<1>10. QED
  BY <1>6, <1>8, <1>9

(* The next process path.                                                  *)
LEMMA PastStart ==
  ASSUME WalkInv, NextProcessPath, NEW e \in AllEntries
  PROVE  Sooner(Way(e), Cur') <=> Sooner(Way(e), Cur)
<1>1. /\ stack = <<>> /\ next_path \in Nat \ {0} /\ next_path' = next_path + 1
      /\ Config
  BY ConfigType DEF NextProcessPath, WalkInv
<1>2. Cur = <<next_path>> /\ Cur \in Ways
  BY <1>1, CurType DEF Cur
<1>3. Way(e) \in Ways
  BY <1>1, EntryLevel
<1>4. CASE process_paths[next_path] = NoDir
  <2>1. Cur' = <<next_path + 1>>
    <3>1. stack' = <<>>
      BY <1>4 DEF NextProcessPath
    <3>2. QED
      BY <1>1, <3>1 DEF Cur
  <2>2. Cur' \in Ways /\ IsNext(Cur', Cur)
    BY <1>1, <1>2, <2>1 DEF Ways, IsNext
  <2>3. Way(e)[1] # next_path
    BY <1>1, <1>4, RootOf
  <2>4. ~Continues(Way(e), Cur)
    BY <1>2, <2>3 DEF Continues
  <2>5. QED
    BY <1>2, <1>3, <2>2, <2>4, SoonerThanNext
<1>5. CASE process_paths[next_path] # NoDir
  <2>1. /\ stack' \in Seq(Frames) /\ Len(stack') = 1
        /\ stack'[1] = Frame(process_paths[next_path], <<>>, 0, 0)
        /\ WayOf(1)' = <<next_path>>
    BY <1>5, Started
  <2>2. Cur' = Append(Cur, 1)
    <3>1. stack' # <<>>
      BY <2>1, EmptySeq
    <3>2. top'.pos = 1
      BY <2>1 DEF top, Frame
    <3>3. Cur' = Append(WayOf(Len(stack))', 1)
      BY <3>1, <3>2 DEF Cur
    <3>4. WayOf(Len(stack))' = WayOf(1)'
      BY <2>1 DEF WayOf
    <3>5. QED
      BY <1>2, <2>1, <3>3, <3>4
  <2>3. Cur' \in Ways
    BY <1>2, <2>2, AppendProperties DEF Ways
  <2>4. QED
    BY <1>2, <1>3, <2>2, <2>3, SoonerThanFirst
<1>6. QED
  BY <1>4, <1>5

(* The end of a directory: the walk is past the entry that led to it.      *)
LEMMA PastReturn ==
  ASSUME WalkInv, Return, NEW e \in AllEntries,
         ~(EntryAt(e[1], e[2]).kind = "dir" /\ Readable(e[1], e[2]))
  PROVE  Sooner(Way(e), Cur') <=> Sooner(Way(e), Cur)
<1> DEFINE n == Len(stack)
           v == Way(e)
           w == WayOf(n)
<1>1. /\ stack # <<>> /\ top.pos > Len(fs[top.dir]) /\ UNCHANGED <<fs, next_path>>
      /\ Config /\ next_path \in 1..(Len(process_paths) + 1)
  BY DEF Return, config, WalkInv
<1>2. /\ n \in Nat \ {0} /\ stack' \in Seq(Frames) /\ Len(stack') = n - 1
      /\ \A k \in 1..(n - 1) : stack'[k] = stack[k]
  BY Returned
<1>3. /\ n - 1 \in 0..MaxDepth /\ Here(n) \in DirsAt[n - 1]
      /\ Here(n).way = w /\ w \in Ways /\ Len(w) = n
      /\ top.pos \in Nat \ {0} /\ Cur = Append(w, top.pos) /\ Cur \in Ways
  BY <1>1, CurInside
<1>4. v \in Ways
  BY <1>1, EntryLevel
<1>5. \A k \in 1..n : w[k] = IF k = 1 THEN next_path - 1 ELSE stack[k - 1].pos - 1
  BY DEF WayOf
<1>6. IsNext(Cur', w) /\ Cur' \in Ways
  <2>1. CASE n = 1
    <3>1. stack' = <<>>
      BY <1>2, <2>1, EmptySeq
    <3>2. Cur' = <<next_path>>
      BY <1>1, <3>1 DEF Cur
    <3>3. next_path \in Nat \ {0}
      BY <1>1, ConfigType
    <3>4. w[1] = next_path - 1 /\ Len(w) = 1
      BY <1>3, <1>5, <2>1
    <3> HIDE DEF w
    <3>5. QED
      BY <3>2, <3>3, <3>4 DEF IsNext, Ways
  <2>2. CASE n # 1
    <3>1. n - 1 \in 1..n /\ n - 1 \in 1..(n - 1) /\ n - 1 # 0 /\ n - 1 \in Nat \ {0}
      BY <1>2, <2>2
    <3>2. stack' # <<>>
      BY <1>2, <3>1, EmptySeq
    <3>3. \A k \in 1..(n - 1) : WayOf(n - 1)[k] = w[k]
      BY <1>2 DEF WayOf
    <3>4. Cur' = Append(WayOf(n - 1), stack[n - 1].pos)
      <4>1. top' = stack[n - 1]
        BY <1>2, <3>1 DEF top
      <4>2. WayOf(Len(stack))' = WayOf(n - 1)
        <5>1. \A k \in 1..(n - 1) : k # 1 => k - 1 \in 1..(n - 1)
          BY <1>2
        <5>2. \A k \in 1..(n - 1) : k # 1 => stack'[k - 1] = stack[k - 1]
          BY <1>2, <5>1
        <5>3. WayOf(Len(stack))' = [k \in 1..(n - 1) |-> IF k = 1 THEN next_path - 1
                                                         ELSE stack'[k - 1].pos - 1]
          BY <1>1, <1>2 DEF WayOf
        <5>4. WayOf(n - 1) = [k \in 1..(n - 1) |-> IF k = 1 THEN next_path - 1
                                                   ELSE stack[k - 1].pos - 1]
          BY DEF WayOf
        <5>5. QED
          BY <5>2, <5>3, <5>4
      <4>3. Cur' = Append(WayOf(Len(stack))', top'.pos)
        BY <3>2 DEF Cur
      <4>4. QED
        BY <4>1, <4>2, <4>3
    <3>5. stack[n - 1] \in Frames /\ Here(n - 1) \in DirsAt[(n - 1) - 1]
          /\ (n - 1) - 1 \in 0..MaxDepth
      BY <3>1, CallDepth
    <3> DEFINE u == WayOf(n - 1)
               p == stack[n - 1].pos
    <3>6. u \in Ways /\ Len(u) = n - 1
      <4>1. Here(n - 1).way = u
        BY DEF Here
      <4>2. Here(n - 1).way \in Ways /\ Len(Here(n - 1).way) = (n - 1) - 1 + 1
        BY <1>1, <3>5, LevelType DEF DirRecords
      <4>3. (n - 1) - 1 + 1 = n - 1
        BY <1>2
      <4>4. QED
        BY <4>1, <4>2, <4>3
    <3>7. p \in Nat \ {0} /\ w[n] = p - 1
      <4>1. p \in Nat \ {0}
        BY <3>5 DEF Frames
      <4>2. n \in 1..n
        BY <1>2
      <4>3. w[n] = p - 1
        BY <1>5, <2>2, <4>2
      <4>4. QED
        BY <4>1, <4>3
    <3>8. Cur' = Append(u, p)
      BY <3>4
    <3>9. /\ Cur' \in Ways /\ Len(Cur') = n /\ Cur'[n] = p
          /\ \A k \in 1..(n - 1) : Cur'[k] = u[k]
      <4> HIDE DEF u, p
      <4>1. /\ Cur' \in Ways /\ Len(Cur') = (n - 1) + 1 /\ Cur'[(n - 1) + 1] = p
            /\ \A k \in 1..(n - 1) : Cur'[k] = u[k]
        BY <3>6, <3>7, <3>8, AppendProperties DEF Ways
      <4>2. (n - 1) + 1 = n
        BY <1>2
      <4>3. QED
        BY <4>1, <4>2
    <3>10. \A k \in 1..(n - 1) : Cur'[k] = w[k]
      BY <3>3, <3>9
    <3>11. Cur'[n] = w[n] + 1
      BY <3>7, <3>9
    <3> HIDE DEF w, u, p
    <3>12. QED
      BY <1>2, <1>3, <3>9, <3>10, <3>11 DEF IsNext
  <2>3. QED
    BY <2>1, <2>2
<1>7. Sooner(v, Cur') <=> Sooner(v, w) \/ Continues(v, w)
  <2> HIDE DEF v, w
  <2>1. QED
    BY <1>3, <1>4, <1>6, SoonerThanNext
<1>8. ASSUME Continues(v, w) PROVE Len(v) > Len(w) /\ v[Len(w) + 1] < top.pos
  <2>1. PICK m \in 0..MaxDepth : \E d \in DirsAt[m] : \E i \in InDir(d) : e = <<d, i>>
    BY <1>1, EntryLevel
  <2>2. PICK d \in DirsAt[m] : \E i \in InDir(d) : e = <<d, i>>
    BY <2>1
  <2>3. PICK i \in InDir(d) : e = <<d, i>>
    BY <2>2
  <2>4. Len(v) = m + 2 /\ v[m + 2] = i /\ m \in Nat
    BY <1>1, <2>3, EntryWay
  <2>5. \/ n - 1 = m /\ Here(n) = d
        \/ n - 1 < m /\ LeadsOn(Here(n), v[(n - 1) + 2], (n - 1) + 1)
        \/ n - 1 = m + 1 /\ IsChild(Here(n), d, i)
    <3>1. Continues(Way(<<d, i>>), Here(n).way)
      BY <1>3, <1>8, <2>3
    <3>2. \/ n - 1 = m /\ Here(n) = d
          \/ n - 1 < m /\ LeadsOn(Here(n), Way(<<d, i>>)[(n - 1) + 2], (n - 1) + 1)
          \/ n - 1 = m + 1 /\ IsChild(Here(n), d, i)
      BY <1>1, <1>3, <3>1, EntryThrough
    <3>3. QED
      BY <2>3, <3>2
  <2>6. ~IsChild(Here(n), d, i)
    BY <2>3 DEF IsChild
  <2>7. n - 1 <= m /\ v[n + 1] \in InDir(Here(n))
    <3>1. CASE n - 1 = m /\ Here(n) = d
      BY <1>2, <2>4, <3>1
    <3>2. CASE n - 1 < m /\ LeadsOn(Here(n), v[(n - 1) + 2], (n - 1) + 1)
      <4>1. (n - 1) + 2 = n + 1
        BY <1>2
      <4>2. QED
        BY <1>2, <2>4, <3>2, <4>1 DEF LeadsOn
    <3>3. QED
      BY <2>5, <2>6, <3>1, <3>2
  <2>8. InDir(Here(n)) = 1..Len(fs[top.dir]) /\ Len(fs[top.dir]) \in Nat
    <3>1. Here(n).dir = top.dir
      BY DEF Here, top
    <3>2. top.dir \in Dirs
      <4>1. Here(n) \in DirRecords
        BY <1>1, <1>3, LevelType
      <4>2. QED
        BY <3>1, <4>1 DEF DirRecords
    <3>3. QED
      BY <1>1, <3>1, <3>2, ConfigType DEF InDir
  <2> HIDE DEF v, w, n
  <2>9. QED
    BY <1>1, <1>2, <1>3, <2>4, <2>7, <2>8
<1>9. Sooner(v, Cur) <=> Sooner(v, w) \/ Continues(v, w)
  <2> DEFINE p == top.pos
  <2>1. p \in Nat \ {0} /\ Cur = Append(w, p)
    BY <1>3
  <2> HIDE DEF v, w, p
  <2>2. /\ Sooner(v, Cur) => Sooner(v, w) \/ Continues(v, w)
        /\ Sooner(v, w) => Sooner(v, Cur)
        /\ Continues(v, w) /\ Len(v) > Len(w) /\ v[Len(w) + 1] < p => Sooner(v, Cur)
    BY <1>3, <1>4, <2>1, SoonerThanEnd
  <2>3. QED
    BY <1>8, <2>2 DEF p
<1>10. QED
  BY <1>7, <1>9

-----------------------------------------------------------------------------
(* What the walk has found.                                                *)

Found(e) ==
  /\ Readable(e[1], e[2]) /\ EntryAt(e[1], e[2]).kind = "file"
  /\ file_regex_matches(Target(e))
  /\ \A i \in 1..Len(exclude) : exclude[i] # NoRegex => Target(e) \notin exclude[i]

(* The files among the entries that the walk is past.                      *)
Past    == {e \in AllEntries : Found(e) /\ Sooner(Way(e), Cur)}
Rank(e) == Cardinality({f \in Past : Before(f, e)})

NameOf(e)  == Append(e[1].sub_path, EntryAt(e[1], e[2]).name)
IsFirst(e) == \A f \in Past : Target(f) = Target(e) => f = e \/ Before(e, f)

PastInv ==
  /\ \A b \in Bad : ~Sooner(Way(b), Cur)
  /\ IsFiniteSet(Past) /\ Len(files) = Cardinality(Past)
  /\ \A e \in Past : files[1 + Rank(e)] = Target(e)
  /\ Listed = {Target(e) : e \in Past}
  /\ \A e \in Past : IsFirst(e) => graph.vertexes[Target(e)].name = NameOf(e)

LEMMA SameEntries ==
  ASSUME UNCHANGED config
  PROVE  /\ AllEntries' = AllEntries /\ Bad' = Bad
         /\ \A e : /\ Found(e)' = Found(e) /\ Target(e)' = Target(e)
                   /\ NameOf(e)' = NameOf(e)
         /\ Past' = {e \in AllEntries : Found(e) /\ Sooner(Way(e), Cur')}
<1>1. DirsAt' = DirsAt /\ fs' = fs
  BY SameLevels DEF config
<1>2. AllEntries' = AllEntries
  BY <1>1 DEF AllEntries, InDir
<1>3. Bad' = Bad
  BY <1>1, <1>2 DEF Bad, Readable, LinksTo, EntryAt, config
<1>4. \A e : /\ Found(e)' = Found(e) /\ Target(e)' = Target(e)
             /\ NameOf(e)' = NameOf(e)
  BY <1>1 DEF Found, Target, NameOf, Readable, LinksTo, EntryAt, config
<1>5. Past' = {e \in AllEntries : Found(e) /\ Sooner(Way(e), Cur')}
  BY <1>2, <1>4 DEF Past, Way
<1>6. QED
  BY <1>2, <1>3, <1>4, <1>5

(* A step that passes no file and no unreadable entry.                     *)
LEMMA NothingPassed ==
  ASSUME PastInv, UNCHANGED <<config, files, graph>>,
         \A e \in AllEntries : Found(e) \/ e \in Bad =>
           (Sooner(Way(e), Cur') <=> Sooner(Way(e), Cur))
  PROVE  PastInv'
<1>1. /\ AllEntries' = AllEntries /\ Bad' = Bad
      /\ \A e : /\ Found(e)' = Found(e) /\ Target(e)' = Target(e)
                /\ NameOf(e)' = NameOf(e)
      /\ Past' = {e \in AllEntries : Found(e) /\ Sooner(Way(e), Cur')}
  BY SameEntries
<1>2. Past' = Past
  BY <1>1 DEF Past
<1>3. \A e : Rank(e)' = Rank(e) /\ (IsFirst(e)' <=> IsFirst(e))
  BY <1>1, <1>2 DEF Rank, IsFirst, Before, Way
<1>4. \A b \in Bad' : ~Sooner(Way(b), Cur)'
  <2>1. \A b \in Bad : b \in AllEntries
    BY DEF Bad
  <2>2. \A b \in Bad : ~Sooner(Way(b), Cur')
    BY <2>1 DEF PastInv
  <2>3. QED
    BY <1>1, <2>2 DEF Way, Sooner
<1>5. Listed' = Listed
  BY DEF Listed
<1>6. /\ IsFiniteSet(Past') /\ Len(files') = Cardinality(Past')
      /\ \A e \in Past' : files'[1 + Rank(e)'] = Target(e)'
      /\ Listed' = {Target(e)' : e \in Past'}
      /\ \A e \in Past' : IsFirst(e)' => graph'.vertexes[Target(e)'].name = NameOf(e)'
  BY <1>1, <1>2, <1>3, <1>5 DEF PastInv
<1>7. QED
  BY <1>4, <1>6 DEF PastInv

LEMMA Excludes ==
  ASSUME NEW path
  PROVE  exclude_check(path) <=>
           \E i \in 1..Len(exclude) : exclude[i] # NoRegex /\ path \in exclude[i]
BY DEF exclude_check, exclude_regex, init_regex_vector

(* The entry that the walk is at, as one of the entries.                   *)
LEMMA EntryHere ==
  ASSUME WalkInv, Inside, NEW e, e = <<Here(Len(stack)), top.pos>>
  PROVE  /\ e \in AllEntries /\ Way(e) = Cur /\ Cur \in Ways
         /\ Target(e) = entry.target /\ NameOf(e) = name
         /\ EntryAt(e[1], e[2]) = entry
         /\ Readable(e[1], e[2]) <=> ~Unreadable
         /\ Found(e) <=> ~Unreadable /\ entry.kind = "file" /\ use_file(entry.target)
<1> DEFINE n == Len(stack)
           d == Here(n)
           p == top.pos
<1>1. /\ n - 1 \in 0..MaxDepth /\ d \in DirsAt[n - 1] /\ p \in InDir(d)
      /\ d.sub_path = top.sub_path /\ EntryAt(d, p) = entry
      /\ Readable(d, p) <=> ~Unreadable
  BY AtEntryOf
<1>2. d.way = WayOf(n) /\ Cur = Append(WayOf(n), p) /\ Cur \in Ways
  BY CurInside DEF Inside
<1>3. e[1] = d /\ e[2] = p
  OBVIOUS
<1>4. Way(e) = Cur
  BY <1>2, <1>3 DEF Way
<1>5. e \in AllEntries
  <2>1. e = <<d, p>>
    OBVIOUS
  <2> HIDE DEF n, d, p
  <2>2. QED
    BY <1>1, <2>1, AllEntriesAre
<1>6. /\ Target(e) = entry.target /\ NameOf(e) = name /\ EntryAt(e[1], e[2]) = entry
      /\ Readable(e[1], e[2]) <=> ~Unreadable
  BY <1>1, <1>3 DEF Target, NameOf, name
<1>7. Found(e) <=> ~Unreadable /\ entry.kind = "file" /\ use_file(entry.target)
  <2>1. exclude_check(entry.target) <=>
          \E i \in 1..Len(exclude) : exclude[i] # NoRegex /\ entry.target \in exclude[i]
    BY Excludes
  <2>2. QED
    BY <1>6, <2>1 DEF Found, use_file
<1>8. QED
  BY <1>2, <1>4, <1>5, <1>6, <1>7

LEMMA PastWays ==
  ASSUME WalkInv, NEW e \in Past
  PROVE  Way(e) \in Ways /\ Sooner(Way(e), Cur) /\ Found(e) /\ e \in AllEntries
BY EntryLevel DEF WalkInv, Past

(* An entry of a finite set has less before it than the set has.           *)
LEMMA RankBound ==
  ASSUME NEW S, IsFiniteSet(S), NEW e \in S, ~Before(e, e)
  PROVE  Cardinality({f \in S : Before(f, e)}) \in 0..(Cardinality(S) - 1)
<1> DEFINE B == {f \in S : Before(f, e)}
<1>1. B \subseteq S \ {e}
  OBVIOUS
<1> HIDE DEF B
<1>2. /\ IsFiniteSet(S \ {e}) /\ Cardinality(S \ {e}) = Cardinality(S) - 1
      /\ Cardinality(S) \in Nat
  BY FS_RemoveElement, FS_CardinalityType
<1>3. IsFiniteSet(B) /\ Cardinality(B) <= Cardinality(S \ {e})
  BY <1>1, <1>2, FS_Subset
<1>4. Cardinality(B) \in Nat
  BY <1>3, FS_CardinalityType
<1>5. QED
  BY <1>2, <1>3, <1>4 DEF B

(* A file that is used comes last among those found so far.                *)
LEMMA FilePassed ==
  ASSUME WalkInv, ListInv, PastInv, RegularFile, use_file(entry.target),
         NEW e0, e0 = <<Here(Len(stack)), top.pos>>,
         \A e \in AllEntries : Sooner(Way(e), Cur') <=> Sooner(Way(e), Cur) \/ e = e0
  PROVE  PastInv'
<1>1. /\ e0 \in AllEntries /\ Way(e0) = Cur /\ Cur \in Ways
      /\ Target(e0) = entry.target /\ NameOf(e0) = name
      /\ Found(e0) /\ Readable(e0[1], e0[2])
  BY EntryHere DEF RegularFile, AtEntry, Inside
<1>2. UNCHANGED config
  BY DEF RegularFile
<1>3. /\ AllEntries' = AllEntries /\ Bad' = Bad
      /\ \A e : /\ Found(e)' = Found(e) /\ Target(e)' = Target(e)
                /\ NameOf(e)' = NameOf(e)
      /\ Past' = {e \in AllEntries : Found(e) /\ Sooner(Way(e), Cur')}
  BY <1>2, SameEntries
<1>4. ~Sooner(Cur, Cur)
  BY <1>1, SoonerAsymmetric
<1>5. Past' = Past \cup {e0} /\ e0 \notin Past
  BY <1>1, <1>3, <1>4 DEF Past
<1>6. \A e \in Past : Before(e, e0) /\ ~Before(e0, e) /\ ~Before(e, e)
  <2>1. SUFFICES ASSUME NEW e \in Past
                 PROVE  Before(e, e0) /\ ~Before(e0, e) /\ ~Before(e, e)
    OBVIOUS
  <2>2. Way(e) \in Ways /\ Sooner(Way(e), Cur)
    BY PastWays
  <2>3. ~Sooner(Cur, Way(e)) /\ ~Sooner(Way(e), Way(e))
    BY <1>1, <2>2, SoonerAsymmetric
  <2>4. QED
    BY <1>1, <2>2, <2>3 DEF Before
<1>7. ~Before(e0, e0)
  BY <1>1, <1>4 DEF Before
<1>8. /\ files' \in Seq(Paths) /\ Len(files') = Len(files) + 1 /\ Len(files) \in Nat
      /\ \A i \in 1..Len(files) : files'[i] = files[i]
      /\ files'[Len(files) + 1] = entry.target
      /\ Listed' = Listed \cup {entry.target}
      /\ \A k \in Labels(graph) : graph'.vertexes[k] = graph.vertexes[k]
      /\ entry.target \notin Labels(graph) =>
           graph'.vertexes[entry.target] = Vertex(name, entry.target)
      /\ Labels(graph) = Listed
  BY FileListed DEF ListInv
<1>9. /\ IsFiniteSet(Past) /\ Len(files) = Cardinality(Past)
      /\ \A e \in Past : files[1 + Rank(e)] = Target(e)
      /\ Listed = {Target(e) : e \in Past}
      /\ \A e \in Past : IsFirst(e) => graph.vertexes[Target(e)].name = NameOf(e)
      /\ \A b \in Bad : ~Sooner(Way(b), Cur)
  BY DEF PastInv
<1>10. IsFiniteSet(Past') /\ Len(files') = Cardinality(Past')
  BY <1>5, <1>8, <1>9, FS_AddElement
<1>11. \A e \in Past' : files'[1 + Rank(e)'] = Target(e)
  <2>1. SUFFICES ASSUME NEW e \in Past' PROVE files'[1 + Rank(e)'] = Target(e)
    OBVIOUS
  <2>2. Rank(e)' = Cardinality({f \in Past' : Before(f, e)})
    BY DEF Rank, Before, Way
  <2>3. CASE e = e0
    <3>1. {f \in Past' : Before(f, e)} = Past
      BY <1>5, <1>6, <1>7, <2>3
    <3>2. Cardinality({f \in Past' : Before(f, e)}) = Cardinality(Past)
      BY <3>1
    <3>3. Rank(e)' = Len(files)
      BY <1>9, <2>2, <3>2
    <3>4. 1 + Len(files) = Len(files) + 1
      BY <1>8
    <3>5. QED
      BY <1>1, <1>8, <2>3, <3>3, <3>4
  <2>4. CASE e # e0
    <3>1. e \in Past /\ {f \in Past' : Before(f, e)} = {f \in Past : Before(f, e)}
      BY <1>5, <1>6, <2>4
    <3>2. Rank(e)' = Rank(e)
      BY <2>2, <3>1 DEF Rank
    <3>3. Rank(e) \in 0..(Len(files) - 1)
      BY <1>6, <1>9, <3>1, RankBound DEF Rank
    <3>4. 1 + Rank(e) \in 1..Len(files)
      BY <1>8, <3>3
    <3>5. QED
      BY <1>8, <1>9, <3>1, <3>2, <3>4
  <2>5. QED
    BY <2>3, <2>4
<1>12. Listed' = {Target(e) : e \in Past'}
  BY <1>1, <1>5, <1>8, <1>9
<1>13. ASSUME NEW e \in Past', IsFirst(e)'
       PROVE  graph'.vertexes[Target(e)].name = NameOf(e)
  <2>1. \A f \in Past' : Target(f) = Target(e) => f = e \/ Before(e, f)
    BY <1>3, <1>13 DEF IsFirst, Before, Way
  <2>2. CASE e = e0
    <3>1. entry.target \notin Labels(graph)
      <4>1. SUFFICES ASSUME entry.target \in Labels(graph) PROVE FALSE
        OBVIOUS
      <4>2. PICK f \in Past : Target(f) = entry.target
        BY <1>8, <1>9, <4>1
      <4>3. QED
        BY <1>1, <1>5, <1>6, <2>1, <2>2, <4>2
    <3>2. QED
      BY <1>1, <1>8, <2>2, <3>1 DEF Vertex
  <2>3. CASE e # e0
    <3>1. e \in Past /\ IsFirst(e)
      BY <1>5, <2>1, <2>3 DEF IsFirst
    <3>2. Target(e) \in Labels(graph)
      BY <1>8, <1>9, <3>1
    <3>3. QED
      BY <1>8, <1>9, <3>1, <3>2
  <2>4. QED
    BY <2>2, <2>3
<1>14. \A b \in Bad' : ~Sooner(Way(b), Cur)'
  <2>1. \A b \in Bad : b \in AllEntries /\ b # e0
    BY <1>1 DEF Bad
  <2>2. \A b \in Bad : ~Sooner(Way(b), Cur')
    BY <1>9, <2>1
  <2>3. QED
    BY <1>3, <2>2 DEF Way, Sooner
<1>15. \A e \in Past' : files'[1 + Rank(e)'] = Target(e)'
  BY <1>3, <1>11
<1>16. Listed' = {Target(e)' : e \in Past'}
  BY <1>3, <1>12
<1>17. \A e \in Past' : IsFirst(e)' => graph'.vertexes[Target(e)'].name = NameOf(e)'
  BY <1>3, <1>13
<1>18. QED
  BY <1>10, <1>14, <1>15, <1>16, <1>17 DEF PastInv

LEMMA PastInit == Init => PastInv
<1> SUFFICES ASSUME Init PROVE PastInv
  OBVIOUS
<1>1. stack = <<>> /\ next_path = 1 /\ files = <<>> /\ Config
  BY DEF Init, Config
<1>2. Cur = <<1>>
  BY <1>1 DEF Cur
<1>3. ASSUME NEW e \in AllEntries PROVE ~Sooner(Way(e), Cur)
  <2>1. Way(e) \in Ways
    BY <1>1, EntryLevel
  <2>2. \A i \in 1..Len(Way(e)) : Way(e)[i] \in Nat \ {0}
    BY <2>1, WayType
  <2>3. QED
    BY <1>2, <2>2 DEF Sooner
<1>4. Past = {}
  BY <1>3 DEF Past
<1>5. Len(files) = 0 /\ IsFiniteSet(Past) /\ Cardinality(Past) = 0
  BY <1>1, <1>4, EmptySeq, FS_EmptySet
<1>6. Listed = {}
  BY <1>5 DEF Listed
<1>7. \A b \in Bad : ~Sooner(Way(b), Cur)
  BY <1>3 DEF Bad
<1>8. QED
  BY <1>4, <1>5, <1>6, <1>7 DEF PastInv

LEMMA PastStep == WalkInv /\ WalkInv' /\ ListInv /\ PastInv /\ [Next]_vars => PastInv'
<1> SUFFICES ASSUME WalkInv, WalkInv', ListInv, PastInv, [Next]_vars PROVE PastInv'
  OBVIOUS
<1>a. ASSUME NEW e \in AllEntries, Found(e) \/ e \in Bad
      PROVE  ~(EntryAt(e[1], e[2]).kind = "dir" /\ Readable(e[1], e[2]))
  BY <1>a DEF Found, Bad
<1>b. ASSUME Inside, Advance, UNCHANGED <<config, next_path, files, graph>>, ~Unreadable,
             ~(entry.kind = "dir" /\ Within(Len(stack))),
             ~(entry.kind = "file" /\ use_file(entry.target))
      PROVE  PastInv'
  <2>1. PICK e0 : e0 = <<Here(Len(stack)), top.pos>>
    OBVIOUS
  <2>2. ~Found(e0) /\ e0 \notin Bad
    BY <1>b, <2>1, EntryHere DEF Bad
  <2>3. ASSUME NEW e \in AllEntries, Found(e) \/ e \in Bad
        PROVE  Sooner(Way(e), Cur') <=> Sooner(Way(e), Cur)
    <3>1. Sooner(Way(e), Cur') <=> Sooner(Way(e), Cur) \/ e = e0
      BY <1>b, <2>1, PastEntry
    <3>2. QED
      BY <2>2, <2>3, <3>1
  <2>4. QED
    BY <1>b, <2>3, NothingPassed
<1>c. ASSUME UNCHANGED <<config, next_path, stack, files, graph>> PROVE PastInv'
  <2>1. Cur' = Cur
    BY <1>c DEF Cur, WayOf, top
  <2>2. QED
    BY <1>c, <2>1, NothingPassed
<1>1. CASE NextProcessPath
  BY <1>1, PastStart, NothingPassed DEF NextProcessPath
<1>2. CASE EntryFails
  BY <1>2, <1>c DEF EntryFails
<1>3. CASE Directory
  <2>1. /\ Inside /\ UNCHANGED <<config, next_path, files, graph>> /\ ~Unreadable
        /\ entry.kind \in {"dir", "locked"}
    BY <1>3 DEF Directory, AtEntry, Inside
  <2>2. CASE may_recurse(top.cnt)
    BY <1>3, <2>1, <2>2, PastDescent, NothingPassed
  <2>3. CASE ~may_recurse(top.cnt)
    <3>1. Advance
      BY <1>3, <2>3 DEF Directory, Advance
    <3>2. ~Within(Len(stack))
      <4>1. stack # <<>> /\ stack \in Seq(Frames) /\ recursive_limit \in Int
        BY <2>1, ConfigType DEF Inside, WalkInv
      <4>2. Len(stack) \in Nat \ {0} /\ Len(stack) \in 1..Len(stack)
        BY <4>1, EmptySeq
      <4>3. top.cnt = Len(stack) - 1
        BY <4>2 DEF WalkInv, CallInv, top
      <4>4. QED
        BY <2>3, <4>1, <4>2, <4>3 DEF may_recurse, Within
    <3>3. QED
      BY <1>b, <2>1, <3>1, <3>2
  <2>4. QED
    BY <2>2, <2>3
<1>4. CASE RegularFile
  <2>1. /\ Inside /\ UNCHANGED <<config, next_path>> /\ ~Unreadable /\ Advance
        /\ entry.kind = "file"
    BY <1>4 DEF RegularFile, AtEntry, Inside
  <2>2. CASE use_file(entry.target)
    <3>1. PICK e0 : e0 = <<Here(Len(stack)), top.pos>>
      OBVIOUS
    <3>2. \A e \in AllEntries : Sooner(Way(e), Cur') <=> Sooner(Way(e), Cur) \/ e = e0
      BY <2>1, <3>1, PastEntry
    <3>3. QED
      BY <1>4, <2>2, <3>1, <3>2, FilePassed
  <2>3. CASE ~use_file(entry.target)
    <3>1. UNCHANGED <<files, graph>>
      BY <1>4, <2>3 DEF RegularFile
    <3>2. QED
      BY <1>b, <2>1, <2>3, <3>1
  <2>4. QED
    BY <2>2, <2>3
<1>5. CASE OtherEntry
  BY <1>5, <1>b DEF OtherEntry, AtEntry, Inside
<1>6. CASE Return
  <2>1. ASSUME NEW e \in AllEntries, Found(e) \/ e \in Bad
        PROVE  Sooner(Way(e), Cur') <=> Sooner(Way(e), Cur)
    BY <1>6, <1>a, <2>1, PastReturn
  <2>2. QED
    BY <1>6, <2>1, NothingPassed DEF Return
<1>7. CASE Done
  BY <1>7, <1>c DEF Done
<1>8. CASE UNCHANGED vars
  BY <1>8, <1>c DEF vars, config
<1>9. QED
  BY <1>1, <1>2, <1>3, <1>4, <1>5, <1>6, <1>7, <1>8 DEF Next

(* An entry that led to a call is readable.                                *)
LEMMA NotAbove ==
  ASSUME WalkInv, Inside, NEW b \in Bad
  PROVE  ~(Continues(Cur, Way(b)) /\ Len(Way(b)) < Len(Cur))
<1> SUFFICES ASSUME Continues(Cur, Way(b)), Len(Way(b)) < Len(Cur) PROVE FALSE
  OBVIOUS
<1> DEFINE n == Len(stack)
<1>1. Config /\ b \in AllEntries /\ ~Readable(b[1], b[2])
  BY DEF WalkInv, Bad
<1>2. PICK m \in 0..MaxDepth : \E d \in DirsAt[m] : \E i \in InDir(d) : b = <<d, i>>
  BY <1>1, EntryLevel
<1>3. PICK d \in DirsAt[m] : \E i \in InDir(d) : b = <<d, i>>
  BY <1>2
<1>4. PICK i \in InDir(d) : b = <<d, i>>
  BY <1>3
<1>5. Len(Way(b)) = m + 2 /\ m \in Nat
  BY <1>1, <1>4, EntryWay
<1>6. /\ n \in Nat /\ Len(Cur) = n + 1
      /\ \A k \in 1..n : Cur[k] = WayOf(n)[k]
  BY CurInside DEF Inside
<1>7. PICK j \in 1..n : j = m + 2 /\ j - 1 = m + 1 /\ j - 1 # m /\ ~(j - 1 < m)
  BY <1>5, <1>6
<1>8. /\ Here(j) \in DirsAt[j - 1] /\ j - 1 \in 0..MaxDepth /\ Here(j).way = WayOf(j)
  BY CallDepth DEF Here
<1>9. Len(WayOf(j)) = j
  <2>1. Len(Here(j).way) = (j - 1) + 1
    BY <1>1, <1>8, LevelType
  <2>2. (j - 1) + 1 = j
    BY <1>6
  <2>3. QED
    BY <1>8, <2>1, <2>2
<1>10. \A k \in 1..j : WayOf(j)[k] = Way(b)[k]
  <2>1. \A k \in 1..j : k \in 1..n
    BY <1>6
  <2>2. \A k \in 1..j : WayOf(j)[k] = WayOf(n)[k]
    BY <2>1 DEF WayOf
  <2>3. \A k \in 1..j : Cur[k] = Way(b)[k]
    BY <1>5, <1>7 DEF Continues
  <2>4. QED
    BY <1>6, <2>1, <2>2, <2>3
<1>11. Continues(Way(<<d, i>>), Here(j).way)
  <2>1. Len(WayOf(j)) <= Len(Way(b)) /\ \A k \in 1..Len(WayOf(j)) : Way(b)[k] = WayOf(j)[k]
    BY <1>5, <1>7, <1>9, <1>10
  <2>2. Continues(Way(b), WayOf(j))
    BY <2>1 DEF Continues
  <2>3. Way(b) = Way(<<d, i>>)
    BY <1>4
  <2>4. QED
    BY <1>8, <2>2, <2>3
<1>12. IsChild(Here(j), d, i)
  <2> HIDE DEF n
  <2>1. QED
    BY <1>1, <1>7, <1>8, <1>11, EntryThrough
<1>13. QED
  BY <1>1, <1>4, <1>12 DEF IsChild

(* In the end, what the walk has found is what it should have found.       *)
LEMMA EndsWithWanted ==
  ASSUME WalkInv, PastInv, status # "running"
  PROVE  Wanted = Past /\ (status = "failed" <=> Bad # {})
<1>1. Config
  BY DEF WalkInv
<1>2. \A e : e \in Wanted <=>
        e \in AllEntries /\ Found(e) /\ \A b \in Bad : Before(e, b)
  BY DEF Wanted, Found, Bad
<1>3. CASE status = "done"
  <2>1. stack = <<>> /\ next_path > Len(process_paths)
    BY <1>3 DEF WalkInv, StatusInv
  <2>2. Cur = <<next_path>> /\ next_path \in Nat /\ Len(process_paths) \in Nat
    BY <1>1, <2>1, ConfigType DEF Cur, WalkInv
  <2>3. ASSUME NEW e \in AllEntries PROVE Sooner(Way(e), Cur)
    <3>1. Way(e)[1] \in 1..Len(process_paths) /\ Len(Way(e)) \in Nat \ {0, 1}
      BY <1>1, RootOf, EntryLevel
    <3>2. 1 \in 1..Len(Way(e)) /\ Way(e)[1] < next_path /\ 1..(1 - 1) = {}
      BY <2>1, <2>2, <3>1
    <3>3. QED
      BY <2>2, <3>2 DEF Sooner
  <2>4. Bad = {}
    BY <2>3 DEF PastInv, Bad
  <2>5. QED
    BY <1>2, <1>3, <2>3, <2>4 DEF Past
<1>4. CASE status = "failed"
  <2>1. Inside /\ Unreadable
    BY <1>4 DEF WalkInv, StatusInv, Inside
  <2>2. PICK e0 : e0 = <<Here(Len(stack)), top.pos>>
    OBVIOUS
  <2>3. e0 \in Bad /\ Way(e0) = Cur /\ Cur \in Ways
    BY <2>1, <2>2, EntryHere DEF Bad
  <2>4. ASSUME NEW e \in Past PROVE e \in Wanted
    <3>1. Way(e) \in Ways /\ Sooner(Way(e), Cur) /\ Found(e) /\ e \in AllEntries
      BY PastWays
    <3>2. ASSUME NEW b \in Bad PROVE Before(e, b)
      <4>1. ~Sooner(Way(b), Cur) /\ b \in AllEntries
        BY DEF PastInv, Bad
      <4>2. Way(b) \in Ways
        BY <1>1, <4>1, EntryLevel
      <4>3. ~(Continues(Cur, Way(b)) /\ Len(Way(b)) < Len(Cur))
        BY <2>1, NotAbove
      <4>4. QED
        BY <2>3, <3>1, <4>1, <4>2, <4>3, SoonerBetween DEF Before
    <3>3. QED
      BY <1>2, <3>1, <3>2
  <2>5. ASSUME NEW e \in Wanted PROVE e \in Past
    BY <1>2, <2>3 DEF Past, Before
  <2>6. QED
    BY <1>4, <2>3, <2>4, <2>5
<1>5. QED
  BY <1>3, <1>4 DEF WalkInv, StatusInv

LEMMA FoundFollows == WalkInv /\ ListInv /\ PastInv => FindsWhatIsReachable /\ FilesHaveVertexes
<1> SUFFICES ASSUME WalkInv, ListInv, PastInv PROVE FindsWhatIsReachable /\ FilesHaveVertexes
  OBVIOUS
<1>1. Labels(graph) = {files[i] : i \in 1..Len(files)}
  BY DEF ListInv, Listed
<1>2. CASE status = "running"
  BY <1>1, <1>2 DEF FindsWhatIsReachable, FilesHaveVertexes
<1>3. CASE status # "running"
  <2>1. Wanted = Past /\ (status = "failed" <=> Bad # {})
    BY <1>3, EndsWithWanted
  <2>2. \A e : Place(e) = 1 + Rank(e)
    BY <2>1 DEF Place, Rank
  <2>3. FindsWhatIsReachable
    BY <2>1, <2>2 DEF FindsWhatIsReachable, PastInv
  <2>4. ASSUME NEW e \in Wanted,
               \A f \in Wanted : Target(f) = Target(e) => f = e \/ Before(e, f)
        PROVE  graph.vertexes[Target(e)].name
                 = Append(e[1].sub_path, EntryAt(e[1], e[2]).name)
    <3>1. e \in Past /\ IsFirst(e)
      BY <2>1, <2>4 DEF IsFirst
    <3>2. QED
      BY <3>1 DEF PastInv, NameOf
  <2>5. QED
    BY <1>1, <2>3, <2>4 DEF FilesHaveVertexes
<1>4. QED
  BY <1>2, <1>3

LEMMA WalkIsInvariant == Spec => [](WalkInv /\ ListInv /\ PastInv)
<1>1. Init => WalkInv /\ ListInv /\ PastInv
  BY WalkInit, ListInit, PastInit
<1>2. WalkInv /\ ListInv /\ PastInv /\ [Next]_vars => (WalkInv /\ ListInv /\ PastInv)'
  BY WalkStep, ListStep, PastStep
<1>3. QED
  BY <1>1, <1>2, PTL DEF Spec

(* When get() has returned or thrown, the list has every file that can be  *)
(* reached, matches and is not excluded, once per way to it, in the order  *)
(* of a depth-first walk, and nothing else; it has thrown exactly when     *)
(* there is an entry that cannot be read, after the files before the first *)
(* such entry.                                                             *)
THEOREM FindsAll == Spec => []FindsWhatIsReachable
<1>1. WalkInv /\ ListInv /\ PastInv => FindsWhatIsReachable
  BY FoundFollows
<1>2. QED
  BY <1>1, WalkIsInvariant, PTL

(* The files on the list are at all times those that have a vertex, and    *)
(* in the end each vertex is named by the first way to its file.           *)
THEOREM VertexesOfFiles == Spec => []FilesHaveVertexes
<1>1. WalkInv /\ ListInv /\ PastInv => FilesHaveVertexes
  BY FoundFollows
<1>2. QED
  BY <1>1, WalkIsInvariant, PTL
=============================================================================
