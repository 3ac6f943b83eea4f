------------------------------ MODULE Solver_Py ------------------------------
(***************************************************************************)
(* Solver_Py (src/solver_py.cpp) and the workers that call its add_edge.   *)
(* A worker processes one file after the other and calls add_edge for each *)
(* import statement.  A statement with a comma is split before graph_mutex *)
(* is taken, and add_edge is called again for each child: so a worker has  *)
(* a stack of calls to make, and other workers add edges between two       *)
(* children of one statement.                                              *)
(*                                                                         *)
(* Texts, names and paths are sequences of tokens (module Statement_Py).   *)
(* The file system is a parameter.                                         *)
(***************************************************************************)
EXTENDS Solver, Statement_Py

CONSTANTS
  Workers,
  Files,                (* the input files: a set of canonical paths        *)
  job_file,             (* the jobs: a sequence of Files; a file may be     *)
                        (*   there twice                                    *)
  Reports,              (* what a file may hold: a set of sequences of      *)
                        (*   [import, line_no]                              *)
  process_path,         (* option -P: a sequence of directories             *)
  ParentDir(_),         (* the directory of a file, or above a directory    *)
  ModuleFile(_, _, _),  (* ModuleFile(dir, possible_path, extension): the   *)
                        (*   file, or NoPath                                *)
  PackageFile(_, _)     (* the __init__.py of dir / possible_path if that   *)
                        (*   is a package, or NoPath                        *)

Jobs == 1..Len(job_file)
NoJob == 0

ASSUME PyAssumption ==
  /\ job_file \in Seq(Files)
  /\ Files = {job_file[j] : j \in Jobs} /\ NoPath \notin Files
  /\ \A r \in Reports :
       \A i, j \in 1..Len(r) : i < j => r[i].line_no < r[j].line_no

VARIABLES
  graph,        (* the graph, with a vertex for each file                   *)
  graph_mutex,  (* the workers that hold graph_mutex: one, or none          *)
  report,       (* file -> the import statements in it                      *)
  todo,         (* the jobs that no worker has taken                        *)
  job,          (* worker -> the job in hand, or NoJob                      *)
  pending       (* worker -> the add_edge calls it has still to make        *)

vars == <<graph, graph_mutex, report, todo, job, pending>>

Call(statement, idx, line_no) ==
  [statement |-> statement, idx |-> idx, line_no |-> line_no]

(* What process_stream reports for a file.                                 *)
CallsOf(r) ==
  [i \in 1..Len(r) |-> Call(Text(r[i].import), RegexOf(r[i].import), r[i].line_no)]

WithFiles(g) ==
  [g EXCEPT !.vertexes = [f \in Files |-> Vertex(f, f)],
            !.out = [f \in Files |-> <<>>]]

Init ==
  /\ graph = WithFiles(EmptyGraph)
  /\ graph_mutex = {}
  /\ report \in [Files -> Reports]
  /\ todo = Jobs
  /\ job = [w \in Workers |-> NoJob]
  /\ pending = [w \in Workers |-> <<>>]

-----------------------------------------------------------------------------
(* add_edge: where the file of an import is.                               *)

Above(dir, n) ==
  LET up[i \in 0..n] == IF i = 0 THEN dir ELSE ParentDir(up[i - 1])
  IN  up[n]

parent_directory(src, s) ==
  IF s.is_relative THEN Above(ParentDir(src), s.directories_above)
                   ELSE process_path[1]

(* The loop over file_extensions tests for a package in every round, so    *)
(* after .py and before .pyw.                                              *)
candidates(dir, path) ==
  << ModuleFile(dir, path, "py"), PackageFile(dir, path),
     ModuleFile(dir, path, "pyw"), ModuleFile(dir, path, "py3") >>

PackageCandidate == 2

(* The arguments of insert_edge for a statement, given its possible_path   *)
(* and the candidates: the first one that exists, or a dummy.              *)
Chosen(statement, path, c) ==
  IF \A i \in 1..Len(c) : c[i] = NoPath
  THEN [dst_path |-> NoPath, name |-> extract_dummy_node_name(statement)]
  ELSE LET i == CHOOSE i \in 1..Len(c) : c[i] # NoPath /\ \A k \in 1..(i - 1) : c[k] = NoPath
       IN  [ dst_path |-> c[i],
             name |-> IF i = PackageCandidate THEN path \o <<"/", "__init__.py">> ELSE path ]
Located(src, statement, s) ==
  Chosen(statement, s.possible_path,
         candidates(parent_directory(src, s), s.possible_path))
destination(src, call) ==
  Located(src, call.statement, Single(call.statement, call.idx))

HasEdge(g, src, dst) == \E i \in 1..Len(g.out[src]) : g.out[src][i].dst = dst

(* Broken: no test for the edge.                                           *)
insert_edge_untested(g, src, d, line_no) ==
  insert_edge(g, src, d.dst_path, d.name, line_no)

(* Broken: an edge that is there gets the new line.                        *)
insert_edge_with_last_line(g, src, d, line_no) ==
  LET h   == add_vertex(g, d.name, d.dst_path)
      key == Key(d.name, d.dst_path)
  IN  IF HasEdge(h, src, key)
      THEN [h EXCEPT !.out[src] =
              [i \in 1..Len(@) |-> IF @[i].dst = key THEN Edge(key, line_no) ELSE @[i]]]
      ELSE add_edge_by_label(h, src, key, line_no)

(* Solver_Py::insert_edge: the vertex is added in any case, the edge only  *)
(* if there is none to a vertex labelled with the name or with the path.   *)
insert_edge_once(g, src, d, line_no) ==
  LET h == add_vertex(g, d.name, d.dst_path)
  IN  IF HasEdge(h, src, d.name) \/ HasEdge(h, src, d.dst_path) THEN h
      ELSE add_edge_by_label(h, src, Key(d.name, d.dst_path), line_no)

IsSplit(call) == contained_multiple_imports(call.statement, call.idx)

(* add_edges: a call per child, with the child's modified statement.       *)
CallsFor(children, line_no) ==
  [i \in 1..Len(children) |->
     Call(children[i].modified_statement, children[i].regex_idx, line_no)]
ChildCalls(call) ==
  CallsFor(child_statements(call.statement, call.idx), call.line_no)

(* The text work is the same whenever it is done: here for each call that  *)
(* process_stream can make, and for each child of it.                      *)
Reported  == UNION {{CallsOf(r)[i] : i \in 1..Len(r)} : r \in Reports}
Expansion == [call \in Reported |-> IF IsSplit(call) THEN ChildCalls(call) ELSE <<call>>]
Elements(s) == {s[i] : i \in 1..Len(s)}
LeafCalls   == UNION {Elements(e) : e \in {Expansion[call] : call \in Reported}}
Destination == [src \in Files |-> [call \in LeafCalls |-> destination(src, call)]]

(* A text is a sequence, and the module behind from is one name, without   *)
(* commas.                                                                 *)
ASSUME TextAssumption ==
  /\ \A r \in Reports : r \in Seq({r[i] : i \in DOMAIN r})
  /\ \A call \in Reported :
       /\ call.statement \in Seq({call.statement[i] : i \in DOMAIN call.statement})
       /\ call.idx = FROM_IMPORT =>
            ~contains(get_all_before_import(call.statement), ",")

-----------------------------------------------------------------------------
(* The steps of a worker.                                                  *)

TakeFile(w) ==
  /\ job[w] = NoJob
  /\ \E j \in todo :
       /\ todo' = todo \ {j}
       /\ job' = [job EXCEPT ![w] = j]
       /\ pending' = [pending EXCEPT ![w] = CallsOf(report[job_file[j]])]
  /\ UNCHANGED <<graph, graph_mutex, report>>

FileDone(w) ==
  /\ job[w] # NoJob /\ pending[w] = <<>>
  /\ job' = [job EXCEPT ![w] = NoJob]
  /\ UNCHANGED <<graph, graph_mutex, report, todo, pending>>

(* Broken: the statement itself is called for again.                       *)
SplitAndKeep(w) ==
  /\ pending[w] # <<>> /\ IsSplit(Head(pending[w]))
  /\ pending' = [pending EXCEPT ![w] = <<Head(@)>> \o Tail(@)]
  /\ UNCHANGED <<graph, graph_mutex, report, todo, job>>

Split(w) ==
  /\ pending[w] # <<>> /\ IsSplit(Head(pending[w]))
  /\ pending' = [pending EXCEPT ![w] = Expansion[Head(@)] \o Tail(@)]
  /\ UNCHANGED <<graph, graph_mutex, report, todo, job>>

(* Broken: no lock.                                                        *)
AddEdgeUnlocked(w) ==
  /\ pending[w] # <<>> /\ ~IsSplit(Head(pending[w]))
  /\ graph_mutex' = graph_mutex \cup {w}
  /\ UNCHANGED <<graph, report, todo, job, pending>>

(* unique_lock<mutex> glck(graph_mutex);                                   *)
AddEdgeLock(w) ==
  /\ pending[w] # <<>> /\ ~IsSplit(Head(pending[w]))
  /\ graph_mutex = {}
  /\ graph_mutex' = {w}
  /\ UNCHANGED <<graph, report, todo, job, pending>>

(* Up to the release of graph_mutex.                                       *)
AddEdge(w) ==
  /\ w \in graph_mutex
  /\ LET src  == job_file[job[w]]
         call == Head(pending[w])
     IN  graph' = IF graph_mutex = {w}
                  THEN insert_edge_once(graph, src, Destination[src][call], call.line_no)
                  ELSE Raced(graph)
  /\ graph_mutex' = graph_mutex \ {w}
  /\ pending' = [pending EXCEPT ![w] = Tail(@)]
  /\ UNCHANGED <<report, todo, job>>

WorkerStep(w) ==
  TakeFile(w) \/ FileDone(w) \/ Split(w) \/ AddEdgeLock(w) \/ AddEdge(w)

Next == \E w \in Workers : WorkerStep(w)

Spec == Init /\ [][Next]_vars

(* A worker that can go on does; nothing is asked of graph_mutex.          *)
FairSpec == Spec /\ \A w \in Workers : WF_vars(WorkerStep(w))

-----------------------------------------------------------------------------
(* The calls that take graph_mutex, in the order of the file: each         *)
(* statement, or its children in its place.                                *)
LeavesOf(call) == IF call \in Reported THEN Expansion[call] ELSE <<call>>
Leaves(calls)  == FlattenSeq([i \in 1..Len(calls) |-> LeavesOf(calls[i])])

(* The same for each file and each thing it may hold: the line, the name   *)
(* and the label of the vertex that each of the calls is for.              *)
Target(d, line_no) == [d |-> d, key |-> Key(d.name, d.dst_path), line |-> line_no]
TargetsFor(src, calls) ==
  [i \in 1..Len(calls) |-> Target(Destination[src][calls[i]], calls[i].line_no)]
Targets ==
  [f \in Files |-> [r \in Reports |-> TargetsFor(f, Leaves(CallsOf(r)))]]
TargetsOf(src) == Targets[src][report[src]]

Holder(j) == {w \in Workers : job[w] = j}
CallsLeft(j) == IF Holder(j) = {} THEN <<>> ELSE pending[CHOOSE w \in Holder(j) : TRUE]
Made(j) ==
  IF j \in todo THEN 0
  ELSE Len(TargetsOf(job_file[j])) - Len(Leaves(CallsLeft(j)))

JobsOf(src)   == {j \in Jobs : job_file[j] = src}
Progress(src) ==
  LET made == {Made(j) : j \in JobsOf(src)} IN CHOOSE n \in made : \A k \in made : k <= n
FileIsDone(src) == \A j \in JobsOf(src) : j \notin todo /\ Holder(j) = {}

(* The graph after one worker alone has made the first n calls.            *)
OutAfter(f, targets) ==
  LET after[n \in 0..Len(targets)] ==
        IF n = 0 THEN WithFiles(EmptyGraph)
        ELSE insert_edge_once(after[n - 1], f, targets[n].d, targets[n].line)
  IN  [n \in 0..Len(targets) |-> after[n].out[f]]
Alone == [f \in Files |-> [r \in Reports |-> OutAfter(f, Targets[f][r])]]

-----------------------------------------------------------------------------
(* Properties                                                              *)

(* No list is empty and no item of one is blank.                           *)
NoBlankName ==
  \A call \in LeafCalls : extract_dummy_node_name(call.statement) # NoPath

(* Every variable has its type, no vertex is labelled with the empty path, *)
(* and whoever holds graph_mutex has a call to make.                       *)
TypeOK ==
  /\ Files \subseteq Labels(graph) /\ NoPath \notin Labels(graph)
  /\ DOMAIN graph.out = Labels(graph)
  /\ \A key \in Labels(graph) :
       key = Key(graph.vertexes[key].name, graph.vertexes[key].abs_path)
  /\ ~graph.undefined
  /\ graph_mutex \subseteq Workers
  /\ todo \subseteq Jobs
  /\ job \in [Workers -> Jobs \cup {NoJob}]
  /\ \A w \in graph_mutex : pending[w] # <<>>

(* The one edge that insert_edge leaves out although it is not there: the  *)
(* i-th call of src leads to a file, but an earlier one of src has made an *)
(* edge to another vertex, which is labelled with the name of that file.   *)
NameTaken(src, i) ==
  LET t == TargetsOf(src)
  IN  \E k \in 1..(i - 1) :
        /\ t[k].key = t[i].d.name /\ t[k].key # t[i].key
        /\ HasEdge(graph, src, t[k].key)

(* Whatever the threads do in between, each call made has left an edge to  *)
(* the very vertex it leads to, unless its name was taken by an earlier    *)
(* line of the file (SkippedIfThere is without this exception).            *)
NothingLost ==
  \A j \in Jobs : \A i \in 1..Made(j) :
    LET src == job_file[j]
    IN  HasEdge(graph, src, TargetsOf(src)[i].key) \/ NameTaken(src, i)

(* An edge has the number of the first line of its file that leads there,  *)
(* of those whose name was not taken by an earlier line.                   *)
FirstLineWins ==
  \A src \in Files :
    LET t == TargetsOf(src)
    IN  \A e \in 1..Len(graph.out[src]) :
          \E i \in 1..Len(t) :
            /\ graph.out[src][e] = Edge(t[i].key, t[i].line)
            /\ \A k \in 1..(i - 1) : t[k].key = t[i].key => NameTaken(src, k)

(* "Does the same edge already exist?" (src/solver_py.cpp:139): an edge is *)
(* only left out if it is there, so a file that has been processed has an  *)
(* edge for each of its calls, to the vertex that the call leads to.       *)
SkippedIfThere ==
  \A src \in Files : FileIsDone(src) =>
    \A i \in 1..Len(TargetsOf(src)) : HasEdge(graph, src, TargetsOf(src)[i].key)

(* A file that two workers process at the same time, because two -P paths  *)
(* lead to it, has at every moment the edges that one worker would have    *)
(* given it by processing it once, as far as the faster one has come.      *)
TwiceIsOnce ==
  \A src \in Files : graph.out[src] = Alone[src][report[src]][Progress(src)]

(* The files that an item of an import statement may mean: looked for from *)
(* the directory that its dots name, or from the root of the project.      *)
extensions == {"py", "pyw", "py3"}
MayMean(src, item) ==
  LET dir  == IF item.dots = 0 THEN process_path[1]
              ELSE Above(ParentDir(src), item.dots - 1)
      path == Slashed(item.path)
  IN  ({PackageFile(dir, path)} \cup {ModuleFile(dir, path, e) : e \in extensions})
        \ {NoPath}

(* There is no such file, or the file src has an edge to one.              *)
Imported(src, item) ==
  MayMean(src, item) = {} \/ \E dst \in MayMean(src, item) : HasEdge(graph, src, dst)

(* A list whose items are not treated as they would be on their own: one   *)
(* with leading dots, and one behind from with an as.                      *)
Mistaken(import) ==
  /\ IsList(import)
  /\ \/ import.form # "all" /\ \E i \in 1..Len(import.items) : Meant(import)[i].dots > 0
     \/ import.form = "from" /\ \E i \in 1..Len(import.items) : import.items[i].renamed

(* The text work of Statement_Py agrees with the meaning of an import: a   *)
(* file that has been processed has an edge to a file of the project for   *)
(* each item of its imports that names one, with two exceptions: the lists *)
(* above, and an item whose call had its name taken by an earlier line.    *)
ImportsAsMeant ==
  \A src \in Files : FileIsDone(src) =>
    \A i \in 1..Len(report[src]) :
      \/ Mistaken(report[src][i].import)
      \/ \A item \in Elements(Meant(report[src][i].import)) :
           \/ Imported(src, item)
           \/ \E n \in 1..Len(TargetsOf(src)) :
                TargetsOf(src)[n].key \in MayMean(src, item) /\ NameTaken(src, n)

(* "x can contain comma-separated items. x can contain prepended dots.",   *)
(* "y can contain comma-separated items" and "Both work even if            *)
(* as-statements are included" (inc/solver_py.h:48-55): an item of a list  *)
(* leads where it would lead on its own.                                   *)
ListsAsMeant ==
  \A src \in Files : FileIsDone(src) =>
    \A i \in 1..Len(report[src]) :
      IsList(report[src][i].import) =>
        \A item \in Elements(Meant(report[src][i].import)) : Imported(src, item)

(* Every file is processed: a statement is split only once.                *)
AllFilesDone == <>(\A src \in Files : FileIsDone(src))
=============================================================================
