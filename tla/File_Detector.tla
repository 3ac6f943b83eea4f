---------------------------- MODULE File_Detector ----------------------------
(***************************************************************************)
(* File_Detector::get and ::walk_tree (src/file_detector.cpp): every       *)
(* process path (-P) is walked, directory by directory, and each file that *)
(* use_file accepts is given a vertex and put on the list of input files.  *)
(*                                                                         *)
(* A directory is a sequence of entries, in the order directory_iterator   *)
(* yields them.  Symbolic links are followed, to files and to directories, *)
(* also to a directory that is being walked already; the operating system  *)
(* refuses a path with more than MaxLinks of them.                         *)
(***************************************************************************)
EXTENDS Integers, Sequences, FiniteSets, Solver

CONSTANTS
  Paths,              (* canonical paths of regular files                   *)
  Extension(_),       (* the extension of a path, in lower case             *)
  IsIdentifier(_),    (* is the rest of its file name a Python identifier?  *)
  language,           (* the solver's: "c", "py" or "ruby"                  *)
  Names,              (* the names of entries                               *)
  Dirs,               (* directories                                        *)
  NoDir,              (* what a process path that is no directory leads to  *)
  FileSystems,        (* a set of functions [Dirs -> Seq(Entry)]            *)
  ProcessPaths,       (* the -P options: a set of sequences of directories, *)
                      (*   or NoDir for a path that is not one              *)
  Limits,             (* values of -L: a set of integers                    *)
  MaxLinks,           (* symbolic links in one path                         *)
  exclude,            (* per -e option, the set of paths that it matches,   *)
  NoRegex             (*   or NoRegex for the empty text                    *)

(* An entry: a file or a directory, perhaps behind a link (target is its   *)
(* canonical path), something else (a socket), a dangling link, or a       *)
(* directory that is locked: one that may not be listed.                   *)
Entry == [name : Names, kind : {"file"}, target : Paths, link : BOOLEAN]
    \cup [name : Names, kind : {"dir"}, target : Dirs, link : BOOLEAN]
    \cup [name : Names, kind : {"other"}, target : {NoDir}, link : BOOLEAN]
    \cup [name : Names, kind : {"dangling"}, target : {NoDir}, link : {TRUE}]
    \cup [name : Names, kind : {"locked"}, target : {NoDir}, link : BOOLEAN]

(* Without links, directories form a forest: each has a height above the   *)
(* deepest ones.                                                           *)
Heights == 0..(Cardinality(Dirs) - 1)
IsForest(listing) ==
  \E height \in [Dirs -> Heights] :
    \A d \in Dirs : \A i \in 1..Len(listing[d]) :
      LET e == listing[d][i]
      IN  e.kind = "dir" /\ ~e.link => height[e.target] < height[d]

ASSUME DetectorFilesAssumption ==
  /\ NoPath \notin Paths
  /\ IsFiniteSet(Dirs)
  /\ FileSystems \subseteq [Dirs -> Seq(Entry)]
  /\ \A listing \in FileSystems : IsForest(listing)
  /\ ProcessPaths \subseteq Seq(Dirs \cup {NoDir})
  /\ NoDir \notin Dirs
  /\ Limits \subseteq Int
  /\ MaxLinks \in Nat
  /\ language \in {"c", "py", "ruby"}
  /\ exclude \in Seq(SUBSET Paths \cup {NoRegex})

VARIABLES
  fs,                 (* the file system: it does not change meanwhile      *)
  process_paths,
  recursive_limit,
  next_path,          (* the loop of get()                                  *)
  stack,              (* the calls of walk_tree in progress, innermost last *)
  files,              (* the input files found                              *)
  graph,              (* the solver's graph                                 *)
  status              (* "running", "done", or "failed" by an exception     *)

vars == <<fs, process_paths, recursive_limit, next_path, stack, files, graph, status>>
config == <<fs, process_paths, recursive_limit>>

Init ==
  /\ fs \in FileSystems
  /\ process_paths \in ProcessPaths
  /\ recursive_limit \in Limits
  /\ next_path = 1
  /\ stack = <<>>
  /\ files = <<>>
  /\ graph = EmptyGraph
  /\ status = "running"

-----------------------------------------------------------------------------
(* get_file_regex of the three solvers, which all end in an extension      *)
FileExtensions ==
  CASE language = "c"    -> {"c", "h"}
    [] language = "ruby" -> {"rb"}
    [] language = "py"   -> {"py", "py3", "pyw"}
file_regex_matches(path) ==
  Extension(path) \in FileExtensions /\ (language = "py" => IsIdentifier(path))

(* Broken: an empty text becomes a regex, which matches everything.        *)
init_regex_vector_all(texts) ==
  {IF texts[i] = NoRegex THEN Paths ELSE texts[i] : i \in 1..Len(texts)}

(* The regexes of a vector, as a set: all that is asked is if one matches. *)
init_regex_vector(texts) == {texts[i] : i \in 1..Len(texts)} \ {NoRegex}

exclude_regex == init_regex_vector(exclude)
exclude_check(path) == \E regex \in exclude_regex : path \in regex

use_file(path) == ~exclude_check(path) /\ file_regex_matches(path)

(* Broken: one level more than -L allows.                                  *)
may_recurse_late(cnt) == recursive_limit = -1 \/ cnt <= recursive_limit

may_recurse(cnt) ==
  recursive_limit = -1 \/ (recursive_limit >= 0 /\ cnt < recursive_limit)

(* A call of walk_tree: the directory, its sub_path, recursive_cnt, the    *)
(* links on the way to it, and the entry the iterator is at.               *)
Frame(dir, sub_path, cnt, links) ==
  [dir |-> dir, sub_path |-> sub_path, cnt |-> cnt, links |-> links, pos |-> 1]

-----------------------------------------------------------------------------
Running == status = "running"
top     == stack[Len(stack)]
entry   == fs[top.dir][top.pos]
AtEntry == Running /\ stack # <<>> /\ top.pos <= Len(fs[top.dir])
links   == top.links + (IF entry.link THEN 1 ELSE 0)
name    == Append(top.sub_path, entry.name)

Advance == stack' = [stack EXCEPT ![Len(stack)].pos = @ + 1]

(* canonical() or status() throw, for a dangling link or a path with too   *)
(* many links, or the directory_iterator of the recursive call does, and   *)
(* main ends the program.                                                  *)
Unreadable ==
  \/ entry.kind = "dangling" \/ links > MaxLinks
  \/ entry.kind = "locked" /\ may_recurse(top.cnt)

(* get(): a process path that exists and is a directory is walked.         *)
NextProcessPath ==
  /\ Running /\ stack = <<>> /\ next_path <= Len(process_paths)
  /\ next_path' = next_path + 1
  /\ stack' = IF process_paths[next_path] = NoDir THEN <<>>
              ELSE <<Frame(process_paths[next_path], <<>>, 0, 0)>>
  /\ UNCHANGED <<config, files, graph, status>>

EntryFails ==
  /\ AtEntry /\ Unreadable
  /\ status' = "failed"
  /\ UNCHANGED <<config, next_path, stack, files, graph>>

(* Broken: the recursive call gets recursive_cnt as it is.                 *)
DirectoryUncounted ==
  /\ AtEntry /\ ~Unreadable /\ entry.kind \in {"dir", "locked"}
  /\ stack' = LET here == [stack EXCEPT ![Len(stack)].pos = @ + 1]
              IN  IF may_recurse(top.cnt)
                  THEN Append(here, Frame(entry.target, name, top.cnt, links))
                  ELSE here
  /\ UNCHANGED <<config, next_path, files, graph, status>>

Directory ==
  /\ AtEntry /\ ~Unreadable /\ entry.kind \in {"dir", "locked"}
  /\ stack' = LET here == [stack EXCEPT ![Len(stack)].pos = @ + 1]
              IN  IF may_recurse(top.cnt)
                  THEN Append(here, Frame(entry.target, name, top.cnt + 1, links))
                  ELSE here
  /\ UNCHANGED <<config, next_path, files, graph, status>>

(* Broken: the file is listed without a vertex.                            *)
RegularFileUnregistered ==
  /\ AtEntry /\ ~Unreadable /\ entry.kind = "file"
  /\ files' = IF use_file(entry.target) THEN Append(files, entry.target) ELSE files
  /\ Advance
  /\ UNCHANGED <<config, next_path, graph, status>>

RegularFile ==
  /\ AtEntry /\ ~Unreadable /\ entry.kind = "file"
  /\ IF use_file(entry.target)
     THEN /\ graph' = add_vertex(graph, name, entry.target)
          /\ files' = Append(files, entry.target)
     ELSE UNCHANGED <<graph, files>>
  /\ Advance
  /\ UNCHANGED <<config, next_path, status>>

(* Broken: the iterator stays where it is.                                 *)
OtherEntryStays ==
  /\ AtEntry /\ ~Unreadable /\ entry.kind = "other"
  /\ UNCHANGED vars

OtherEntry ==
  /\ AtEntry /\ ~Unreadable /\ entry.kind = "other"
  /\ Advance
  /\ UNCHANGED <<config, next_path, files, graph, status>>

Return ==
  /\ Running /\ stack # <<>> /\ top.pos > Len(fs[top.dir])
  /\ stack' = SubSeq(stack, 1, Len(stack) - 1)
  /\ UNCHANGED <<config, next_path, files, graph, status>>

Done ==
  /\ Running /\ stack = <<>> /\ next_path > Len(process_paths)
  /\ status' = "done"
  /\ UNCHANGED <<config, next_path, stack, files, graph>>

Next ==
  \/ NextProcessPath \/ EntryFails \/ Directory \/ RegularFile \/ OtherEntry
  \/ Return \/ Done

Spec == Init /\ [][Next]_vars

(* get() runs in the main thread, which nothing holds up.                  *)
FairSpec == Spec /\ WF_vars(Next)

-----------------------------------------------------------------------------
(* What get() should find, level by level instead of by a walk.            *)

(* A way is the position of a process path, then of an entry in each       *)
(* directory on the way.                                                   *)
MaxDepth == Cardinality(Dirs) * (MaxLinks + 1)
EntryAt(d, i)   == fs[d.dir][i]
LinksTo(d, i)   == d.links + (IF EntryAt(d, i).link THEN 1 ELSE 0)
Readable(d, i)  ==
  /\ EntryAt(d, i).kind # "dangling" /\ LinksTo(d, i) <= MaxLinks
  /\ EntryAt(d, i).kind = "locked" =>
       recursive_limit # -1 /\ Len(d.sub_path) >= recursive_limit
InDir(d)        == 1..Len(fs[d.dir])

RootDirs ==
  {[way |-> <<p>>, dir |-> process_paths[p], links |-> 0, sub_path |-> <<>>] :
     p \in {k \in 1..Len(process_paths) : process_paths[k] # NoDir}}
SubDirs(d) ==
  {[way |-> Append(d.way, i), dir |-> EntryAt(d, i).target, links |-> LinksTo(d, i),
    sub_path |-> Append(d.sub_path, EntryAt(d, i).name)] :
     i \in {k \in InDir(d) : EntryAt(d, k).kind = "dir" /\ Readable(d, k)}}

(* The directories n levels below a process path.                          *)
DirsAt[n \in 0..MaxDepth] ==
  IF n = 0 THEN RootDirs
  ELSE IF recursive_limit # -1 /\ n > recursive_limit THEN {}
  ELSE UNION {SubDirs(d) : d \in DirsAt[n - 1]}
AllEntries == UNION {{<<d, i>> : i \in InDir(d)} :
                       d \in UNION {DirsAt[n] : n \in 0..MaxDepth}}

Way(e)    == Append(e[1].way, e[2])
Target(e) == EntryAt(e[1], e[2]).target
Bad       == {e \in AllEntries : ~Readable(e[1], e[2])}

(* The walk goes depth first, entries in order.                            *)
Sooner(v, w) ==
  \E k \in 1..Len(v) : /\ k <= Len(w) /\ v[k] < w[k]
                       /\ \A i \in 1..(k - 1) : v[i] = w[i]
Before(e, f) == Sooner(Way(e), Way(f))

(* The files to be found: up to the first entry that cannot be read.       *)
Wanted ==
  {e \in AllEntries :
     /\ e \notin Bad /\ EntryAt(e[1], e[2]).kind = "file"
     /\ file_regex_matches(Target(e))
     /\ \A i \in 1..Len(exclude) : exclude[i] # NoRegex => Target(e) \notin exclude[i]
     /\ \A b \in Bad : Before(e, b)}
Place(e) == 1 + Cardinality({f \in Wanted : Before(f, e)})

-----------------------------------------------------------------------------
(* Properties                                                              *)

(* Every variable has its type, and the recursion is as deep as its count  *)
(* says.                                                                   *)
TypeOK ==
  /\ next_path \in 1..(Len(process_paths) + 1)
  /\ \A i \in 1..Len(stack) :
       /\ stack[i].dir \in Dirs
       /\ stack[i].cnt = i - 1 /\ Len(stack[i].sub_path) = i - 1
       /\ stack[i].links \in 0..MaxLinks
       /\ stack[i].pos \in 1..(Len(fs[stack[i].dir]) + 1)
  /\ files \in Seq(Paths)
  /\ Labels(graph) \subseteq Paths
  /\ status \in {"running", "done", "failed"}

(* get() finds every file that is reachable within the recursion limit,    *)
(* matches and is not excluded, once per way that leads to it, in the      *)
(* order of a depth-first walk, and no other file; it fails exactly when   *)
(* an entry on the way cannot be read, after the files that come before    *)
(* (a locked directory beyond the limit does no harm).                     *)
FindsWhatIsReachable ==
  status # "running" =>
    /\ status = "failed" <=> Bad # {}
    /\ Len(files) = Cardinality(Wanted)
    /\ \A e \in Wanted : files[Place(e)] = Target(e)

(* The files on the list are those that have a vertex, so that the source  *)
(* of every edge that is added later is known; and a vertex is named by    *)
(* the path, below its process path, on which its file was found first.    *)
FilesHaveVertexes ==
  /\ Labels(graph) = {files[i] : i \in 1..Len(files)}
  /\ status # "running" =>
       \A e \in Wanted :
         (\A f \in Wanted : Target(f) = Target(e) => f = e \/ Before(e, f))
           => graph.vertexes[Target(e)].name
                = Append(e[1].sub_path, EntryAt(e[1], e[2]).name)

(* get() does what the class it is derived from asks for, and it ends,     *)
(* also when links make the directories a cycle.                           *)
InputFiles == INSTANCE Input_Files WITH known <- Labels(graph)
ImplementsInputFiles == InputFiles!Spec
=============================================================================
