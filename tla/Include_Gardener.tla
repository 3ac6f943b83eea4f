--------------------------- MODULE Include_Gardener ---------------------------
(***************************************************************************)
(* The whole program (src/main.cpp): main detects the files and adds a     *)
(* vertex for each, the workers of Statement_Detector process the files    *)
(* and add an edge per statement under graph_mutex, and when the workers   *)
(* have been joined main writes the graph.                                 *)
(*                                                                         *)
(* The step Process of Statement_Detector becomes one critical section per *)
(* statement of the file.  What process_stream reports for a file is a     *)
(* parameter (module Process_Stream models it), and so is where a solver   *)
(* finds the file that a statement names (modules Solver_C, Solver_Rb).    *)
(***************************************************************************)
EXTENDS Statement_Detector, Solver

CONSTANTS
  Paths,            (* canonical paths of files                             *)
  Names,            (* statements, and names of files relative to a -P path *)
  input_files,      (* what File_Detector finds, in order: a sequence of    *)
                    (*   [path, name]; two -P paths may lead to one file    *)
  Idx,              (* the indices of the solver's regexes                  *)
  Reports,          (* what a file may hold: a set of sequences of          *)
                    (*   [statement, idx, line_no]                          *)
  Resolve(_, _, _)  (* Resolve(src, statement, idx): a path, or NoPath      *)

ASSUME GardenerAssumption ==
  /\ input_files \in Seq([path : Paths, name : Names])
  /\ Len(input_files) = NumJobs
  /\ NoPath \notin Paths \cup Names
  /\ \A r \in Reports :
       /\ r \in Seq([statement : Names, idx : Idx, line_no : Nat \ {0}])
       /\ \A i, j \in 1..Len(r) : i < j => r[i].line_no < r[j].line_no
  /\ \A src \in Paths, s \in Names, i \in Idx :
       Resolve(src, s, i) \in Paths \cup {NoPath}

InputPaths == {input_files[j].path : j \in 1..Len(input_files)}

VARIABLES
  graph,          (* the solver's graph                                     *)
  graph_mutex,    (* the workers that hold graph_mutex: one, or none        *)
  report,         (* path -> what process_stream finds in that file         *)
  num_detected,   (* how many input_files File_Detector has found           *)
  num_reported,   (* worker -> add_edge calls made for the file in hand     *)
  written         (* what main has written: nothing yet, or one graph       *)

graphVars    == <<graph, graph_mutex, num_reported>>
gardenerVars == <<vars, graphVars, report, num_detected, written>>

GardenerInit ==
  /\ Init
  /\ graph = EmptyGraph
  /\ graph_mutex = {}
  /\ report \in [InputPaths -> Reports]
  /\ num_detected = 0
  /\ num_reported = [w \in Workers |-> 0]
  /\ written = <<>>

-----------------------------------------------------------------------------
(* File_Detector::get, before there is any other thread: no lock is taken. *)
DetectFile ==
  /\ num_detected < NumJobs
  /\ LET file == input_files[num_detected + 1]
     IN  graph' = add_vertex(graph, file.name, file.path)
  /\ num_detected' = num_detected + 1
  /\ UNCHANGED <<vars, graph_mutex, report, num_reported, written>>

ThreadsRunning == num_detected = NumJobs

-----------------------------------------------------------------------------
(* A worker, in process_stream(entry).                                     *)

file_of(w)   == input_files[entry[w]].path
CallsLeft(w) == num_reported[w] < Len(report[file_of(w)])

(* Broken: no lock.                                                        *)
AddEdgeUnlocked(w) ==
  /\ worker_pc[w] = "process" /\ CallsLeft(w)
  /\ graph_mutex' = graph_mutex \cup {w}
  /\ UNCHANGED <<vars, graph, report, num_detected, num_reported, written>>

(* unique_lock<mutex> glck(graph_mutex);                                   *)
AddEdgeLock(w) ==
  /\ worker_pc[w] = "process" /\ CallsLeft(w)
  /\ graph_mutex = {}
  /\ graph_mutex' = {w}
  /\ UNCHANGED <<vars, graph, report, num_detected, num_reported, written>>

(* Solver::add_edge, up to the release of graph_mutex.                     *)
AddEdge(w) ==
  /\ w \in graph_mutex
  /\ LET src  == file_of(w)
         call == report[src][num_reported[w] + 1]
         dst  == Resolve(src, call.statement, call.idx)
     IN  graph' = IF graph_mutex = {w}
                  THEN insert_edge(graph, src, dst, call.statement, call.line_no)
                  ELSE Raced(graph)
  /\ graph_mutex' = graph_mutex \ {w}
  /\ num_reported' = [num_reported EXCEPT ![w] = @ + 1]
  /\ UNCHANGED <<vars, report, num_detected, written>>

(* Broken: a worker leaves do_work when it is through with a file.         *)
FinishFileAndReturn(w) ==
  /\ worker_pc[w] = "process" /\ ~CallsLeft(w)
  /\ processed' = processed \cup {entry[w]}
  /\ entry' = [entry EXCEPT ![w] = NoJob]
  /\ Goto(w, "returned")
  /\ num_reported' = [num_reported EXCEPT ![w] = 0]
  /\ UNCHANGED <<queueVars, job_queue_mutex, mainVars, graph, graph_mutex,
                 report, num_detected, written>>

FinishFile(w) ==
  /\ worker_pc[w] = "process" /\ ~CallsLeft(w)
  /\ Process(w)
  /\ num_reported' = [num_reported EXCEPT ![w] = 0]
  /\ UNCHANGED <<graph, graph_mutex, report, num_detected, written>>

GardenerWorker(w) ==
  \/ AddEdgeLock(w) \/ AddEdge(w) \/ FinishFile(w)
  \/ /\ WorkerStep(w) /\ worker_pc[w] # "process"
     /\ UNCHANGED <<graphVars, report, num_detected, written>>

-----------------------------------------------------------------------------
(* main(), after File_Detector::get.                                       *)

(* write_graph: no lock, the workers are gone.                             *)
WriteGraph ==
  /\ main_pc = "joined" /\ written = <<>>
  /\ written' = <<IF graph_mutex = {} THEN graph ELSE Raced(graph)>>
  /\ UNCHANGED <<vars, graphVars, report, num_detected>>

GardenerMain ==
  \/ WriteGraph
  \/ MainStep /\ UNCHANGED <<graphVars, report, num_detected, written>>

GardenerSpurious ==
  SpuriousWakeup /\ UNCHANGED <<graphVars, report, num_detected, written>>

GardenerNext ==
  \/ DetectFile
  \/ /\ ThreadsRunning
     /\ GardenerMain \/ (\E w \in Workers : GardenerWorker(w)) \/ GardenerSpurious

GardenerSpec == GardenerInit /\ [][GardenerNext]_gardenerVars

(* As in Statement_Detector: every thread that can go on is scheduled, and *)
(* nothing is asked of graph_mutex.                                        *)
GardenerFairness ==
  /\ WF_gardenerVars(DetectFile)
  /\ WF_gardenerVars(ThreadsRunning /\ GardenerMain)
  /\ \A w \in Workers : WF_gardenerVars(ThreadsRunning /\ GardenerWorker(w))
  /\ <>[][~GardenerSpurious]_gardenerVars

FairGardenerSpec == GardenerSpec /\ GardenerFairness

-----------------------------------------------------------------------------
(* What the graph should hold.                                             *)

Detected == {input_files[j].path : j \in 1..num_detected}
JobsOf(src) == {j \in Jobs : input_files[j].path = src}

(* The edge that add_edge should add for a call.                           *)
KeyOf(src, call)  == Key(call.statement, Resolve(src, call.statement, call.idx))
EdgeOf(src, call) == Edge(KeyOf(src, call), call.line_no)

(* How many of its calls a job has made.                                   *)
Holder(j) == {w \in Workers : worker_pc[w] = "process" /\ entry[w] = j}
Made(j) ==
  CASE j \in processed   -> Len(report[input_files[j].path])
    [] Holder(j) # {}    -> num_reported[CHOOSE w \in Holder(j) : TRUE]
    [] OTHER             -> 0

(* The calls made so far, as <<job, position in the file>>.                *)
CallsMade == UNION {{j} \X (1..Made(j)) : j \in Jobs}
PathOf(c) == input_files[c[1]].path
CallOf(c) == report[PathOf(c)][c[2]]
KeyMade(c) == KeyOf(PathOf(c), CallOf(c))

-----------------------------------------------------------------------------
(* Properties                                                              *)

(* Every variable has its type.                                            *)
Vertexes == [name : Names, abs_path : Paths \cup {NoPath}]
Edges    == [dst : Paths \cup Names, line : Nat \ {0}]
GardenerTypeOK ==
  /\ Labels(graph) \subseteq Paths \cup Names
  /\ graph.vertexes \in [Labels(graph) -> Vertexes]
  /\ graph.out \in [Labels(graph) -> Seq(Edges)]
  /\ graph.undefined \in BOOLEAN
  /\ graph_mutex \subseteq Workers
  /\ report \in [InputPaths -> Reports]
  /\ num_detected \in 0..NumJobs
  /\ num_reported \in [Workers -> Nat]
  /\ Len(written) <= 1

(* No two workers change the graph at the same time, and add_edge_by_label *)
(* is only ever called with labels it knows: the source is a file that     *)
(* File_Detector added, the destination one that insert_edge has just      *)
(* added or found; so every edge joins two vertices.                       *)
LabelsKnown ==
  /\ \A v, w \in graph_mutex : v = w
  /\ ~graph.undefined
  /\ \A src \in Labels(graph) : \A i \in 1..Len(graph.out[src]) :
       graph.out[src][i].dst \in Labels(graph)

(* The vertices are the files detected and what the calls made so far      *)
(* name, whichever workers made them and in whatever order.                *)
VertexesExact ==
  Labels(graph) = Detected \cup {KeyMade(c) : c \in CallsMade}

(* A file that is one job has, after each step, exactly the edges of the   *)
(* calls made for it, in the order of its lines: add_edge calls for other  *)
(* files in between do not disturb them.                                   *)
OutEdgesInFileOrder ==
  \A src \in Detected : \A j \in Jobs :
    JobsOf(src) = {j} =>
      graph.out[src] = [i \in 1..Made(j) |-> EdgeOf(src, report[src][i])]

(* In general an edge is there once per job of its source file and call    *)
(* made: nothing is lost, and nothing is there twice unless a file was     *)
(* submitted twice.                                                        *)
EdgesCounted ==
  \A src \in Labels(graph) :
    /\ \A i \in 1..Len(graph.out[src]) :
         \E c \in CallsMade : PathOf(c) = src /\ EdgeOf(src, CallOf(c)) = graph.out[src][i]
    /\ Len(graph.out[src]) = Cardinality({c \in CallsMade : PathOf(c) = src})
    /\ \A j \in JobsOf(src) : \A i \in 1..Made(j) :
         Cardinality({k \in 1..Len(graph.out[src]) :
                        graph.out[src][k] = EdgeOf(src, report[src][i])})
           = Cardinality({k \in JobsOf(src) : i <= Made(k)})

(* A detected file is shown with the name File_Detector first found it by, *)
(* any other vertex with a statement that leads to it.                     *)
VertexNames ==
  \A key \in Labels(graph) :
    LET name == graph.vertexes[key].name
    IN  IF key \in Detected
        THEN \E j \in 1..num_detected :
               /\ input_files[j] = [path |-> key, name |-> name]
               /\ \A i \in 1..(j - 1) : input_files[i].path # key
        ELSE \E c \in CallsMade : KeyMade(c) = key /\ CallOf(c).statement = name

(* The graph only grows: no step renames or removes a vertex, or changes   *)
(* or removes an edge.                                                     *)
GraphGrows ==
  [][\A key \in Labels(graph) :
       /\ key \in Labels(graph')
       /\ graph'.vertexes[key] = graph.vertexes[key]
       /\ Len(graph.out[key]) <= Len(graph'.out[key])
       /\ \A i \in 1..Len(graph.out[key]) :
            graph'.out[key][i] = graph.out[key][i]]_gardenerVars

(* main writes the graph without the lock: it is final, every statement of *)
(* every file is in it, and nothing changes it any more.                   *)
WrittenGraphIsComplete ==
  written # <<>> =>
    /\ written = <<graph>>
    /\ graph_mutex = {}
    /\ \A j \in Jobs : Made(j) = Len(report[input_files[j].path])

(* The graph is written eventually.                                        *)
GraphIsWritten == <>(written # <<>>)

(* Processing a file in one critical section per statement changes nothing *)
(* for the job queue: the program still behaves as Statement_Detector,     *)
(* termination included.                                                   *)
ImplementsDetector == FairSpec

(* "Each call should produce the same result" (test_ThreadOption,          *)
(* test/cmd_line/test_c.py:133), whatever the number of threads: a vertex  *)
(* that is no input file has the name that one worker, which makes the     *)
(* calls in the order of the files, would give it.                         *)
Earlier(c, d) == c[1] < d[1] \/ (c[1] = d[1] /\ c[2] < d[2])
NamesIndependentOfThreads ==
  written # <<>> =>
    \A c \in CallsMade :
      (/\ KeyMade(c) \notin Detected
       /\ \A d \in CallsMade : KeyMade(d) = KeyMade(c) => (d = c \/ Earlier(c, d)))
      => graph.vertexes[KeyMade(c)].name = CallOf(c).statement
=============================================================================
