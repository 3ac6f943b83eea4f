-------------------------- MODULE MCFile_Detector --------------------------
(***************************************************************************)
(* File_Detector on every file system of two directories with at most two  *)
(* entries each, out of the ones below: top may hold sub, and both may     *)
(* hold links, also to top itself.                                         *)
(***************************************************************************)
EXTENDS File_Detector

(* c is excluded, t is no source file.                                     *)
MCPaths   == {"a", "b", "c", "t", "p"}
MCExclude == <<{}, NoRegex, {"c"}>>
MCExtension(path) ==
  CASE path = "a" -> "h" [] path = "t" -> "txt" [] path = "p" -> "cpp" [] OTHER -> "c"
MCIsIdentifier(path) == TRUE

entry_of(nm, kind, target, link) ==
  [name |-> nm, kind |-> kind, target |-> target, link |-> link]

TopEntries ==
  { entry_of("a", "file", "a", FALSE), entry_of("t", "file", "t", FALSE),
    entry_of("sub", "dir", "sub", FALSE), entry_of("loop", "dir", "top", TRUE),
    entry_of("b_too", "file", "b", TRUE), entry_of("socket", "other", NoDir, FALSE),
    entry_of("gone", "dangling", NoDir, TRUE), entry_of("locked", "locked", NoDir, FALSE) }
SubEntries ==
  { entry_of("b", "file", "b", FALSE), entry_of("c", "file", "c", FALSE),
    entry_of("p", "file", "p", FALSE), entry_of("up", "dir", "top", TRUE),
    entry_of("gone", "dangling", NoDir, TRUE), entry_of("locked", "locked", NoDir, TRUE) }
MCNames == {e.name : e \in TopEntries \cup SubEntries}

Listings(S) == {s \in UNION {[1..n -> S] : n \in 0..2} :
                  \A i, j \in 1..Len(s) : s[i] = s[j] => i = j}
MCFileSystems ==
  {[d \in Dirs |-> IF d = "top" THEN t ELSE u] :
     t \in Listings(TopEntries), u \in Listings(SubEntries)}
MCProcessPaths == {<<"top">>, <<NoDir, "sub", "top">>}
MCLimits == {-1, 0, 1}
=============================================================================
