----------------------- MODULE Include_Gardener_Proofs -----------------------
(***************************************************************************)
(* Proofs about Include_Gardener, for any number of workers, any input     *)
(* files, whatever the files hold and wherever a solver finds what they    *)
(* name.                                                                   *)
(*                                                                         *)
(* The program implements Statement_Detector, so that the invariant IInv   *)
(* of the job queue holds here.  On it rest                                *)
(*                                                                         *)
(*   ReportInv    how far a worker is in its file, and who is in add_edge  *)
(*   GraphInv     the graph is one, and has a vertex for every file        *)
(*                detected: no label is unknown                            *)
(***************************************************************************)
EXTENDS Include_Gardener, Statement_Detector_Proofs, Solver_Proofs

ReportInv ==
  /\ report \in [InputPaths -> Reports]
  /\ num_detected \in 0..NumJobs
  /\ num_reported \in [Workers -> Nat]
  /\ graph_mutex \subseteq Workers /\ \A v, w \in graph_mutex : v = w
  /\ \A w \in Workers : worker_pc[w] # "process" => num_reported[w] = 0
  /\ \A w \in Workers :
       worker_pc[w] = "process" => num_reported[w] <= Len(report[file_of(w)])
  /\ \A w \in graph_mutex : worker_pc[w] = "process" /\ CallsLeft(w)

GraphInv ==
  /\ IsGraph(graph, Vertexes, Edges)
  /\ Labels(graph) \subseteq Paths \cup Names
  /\ Closed(graph)
  /\ ~graph.undefined
  /\ Detected \subseteq Labels(graph)

(* Until all files are detected no thread has done anything, and once the  *)
(* graph is written nothing is left to do.                                 *)
PhaseInv ==
  /\ ~ThreadsRunning => processed = {} /\ \A w \in Workers : worker_pc[w] = "lock"
  /\ ~ThreadsRunning => main_pc # "joined"
  /\ written # <<>> => written = <<graph>> /\ main_pc = "joined"

-----------------------------------------------------------------------------
(* The job queue's part.                                                   *)

(* A step of the program is a step of the job queue, or leaves it alone.   *)
LEMMA DetectorStep == [GardenerNext]_gardenerVars => [Next]_vars
<1> SUFFICES ASSUME [GardenerNext]_gardenerVars PROVE [Next]_vars
  OBVIOUS
<1>1. CASE DetectFile
  BY <1>1 DEF DetectFile
<1>2. CASE GardenerMain
  BY <1>2 DEF GardenerMain, WriteGraph, Next
<1>3. ASSUME NEW w \in Workers, GardenerWorker(w) PROVE [Next]_vars
  <2>1. CASE AddEdgeLock(w) BY <2>1 DEF AddEdgeLock
  <2>2. CASE AddEdge(w)     BY <2>2 DEF AddEdge
  <2>3. CASE FinishFile(w)  BY <2>3 DEF FinishFile, Next, WorkerStep
  <2>4. CASE WorkerStep(w)  BY <2>4 DEF Next
  <2>5. QED
    BY <1>3, <2>1, <2>2, <2>3, <2>4 DEF GardenerWorker
<1>4. CASE GardenerSpurious
  BY <1>4 DEF GardenerSpurious, Next
<1>5. CASE UNCHANGED gardenerVars
  BY <1>5 DEF gardenerVars
<1>6. QED
  BY <1>1, <1>2, <1>3, <1>4, <1>5 DEF GardenerNext

(* With files to detect, add_edge, graph_mutex and the written graph in    *)
(* the picture, the program still behaves as Statement_Detector.           *)
THEOREM RefinesDetector == GardenerSpec => Spec
<1>1. GardenerInit => Init
  BY DEF GardenerInit
<1>2. QED
  BY <1>1, DetectorStep, PTL DEF GardenerSpec, Spec

(* So what is proved of the job queue holds here.                          *)
LEMMA DetectorInvariance == GardenerSpec => []IInv
BY RefinesDetector, Invariance, PTL

-----------------------------------------------------------------------------
(* Layer 1: the workers in their files.                                    *)

(* The file of a job is one that has a report.                             *)
LEMMA JobFiles ==
  ASSUME NEW j \in Jobs
  PROVE  /\ input_files[j] \in [path : Paths, name : Names]
         /\ input_files[j].path \in InputPaths
         /\ input_files[j].path \in Paths /\ input_files[j].name \in Names
<1>1. j \in 1..Len(input_files)
  BY GardenerAssumption DEF Jobs
<1>2. input_files[j] \in [path : Paths, name : Names]
  BY <1>1, GardenerAssumption, ElementOfSeq
<1>3. QED
  BY <1>1, <1>2 DEF InputPaths

(* A worker in process_stream holds a job.                                 *)
LEMMA FileInHand ==
  ASSUME IInv, NEW w \in Workers, worker_pc[w] = "process"
  PROVE  entry[w] \in Jobs /\ file_of(w) \in InputPaths /\ file_of(w) \in Paths
<1>1. entry[w] \in Jobs
  BY DEF IInv, TypeInv, Busy
<1>2. QED
  BY <1>1, JobFiles DEF file_of

LEMMA ReportInvStep ==
  IInv /\ ReportInv /\ [GardenerNext]_gardenerVars => ReportInv'
<1> SUFFICES ASSUME IInv, ReportInv, [GardenerNext]_gardenerVars PROVE ReportInv'
  OBVIOUS
<1> USE DetectorAssumption
<1>t. worker_pc \in [Workers -> WorkerLabels] /\ entry \in [Workers -> Jobs \cup {NoJob}]
  BY DEF IInv, TypeInv, TypeOK
<1>r. \A src \in InputPaths : Len(report[src]) \in Nat
  <2> TAKE src \in InputPaths
  <2>1. report[src] \in Reports
    BY DEF ReportInv
  <2>2. report[src] \in Seq([statement : Names, idx : Idx, line_no : Nat \ {0}])
    BY <2>1, GardenerAssumption
  <2>3. QED
    BY <2>2, LenProperties
(* A step that leaves the workers in process_stream where they are.        *)
<1>f. ASSUME UNCHANGED <<report, num_detected, num_reported, graph_mutex>>,
             \A w \in Workers : worker_pc'[w] = "process" =>
               \/ worker_pc[w] = "process" /\ entry'[w] = entry[w]
               \/ worker_pc[w] = "notify",
             \A w \in Workers : worker_pc[w] = "process" =>
               worker_pc'[w] = "process" /\ entry'[w] = entry[w],
             \A w \in Workers : worker_pc[w] = "notify" =>
               file_of(w)' \in InputPaths
      PROVE  ReportInv'
  BY <1>f, <1>r DEF ReportInv, file_of, CallsLeft
<1>1. CASE DetectFile
  BY <1>1 DEF DetectFile, ReportInv, file_of, CallsLeft, vars
<1>2. CASE GardenerMain
  <2>1. \A w \in Workers : worker_pc'[w] = "process" <=> worker_pc[w] = "process"
    BY <1>2, <1>t DEF GardenerMain, WriteGraph, MainStep, AddJobLock, AddJobPush, WaitLock,
       WaitSleep, WaitEmpty, NotifyEmpty, DoneLock, SetDone, NotifyDone, JoinWorkers,
       Woken, workerVars, vars
  <2>2. entry' = entry
    BY <1>2 DEF GardenerMain, WriteGraph, MainStep, AddJobLock, AddJobPush, WaitLock,
       WaitSleep, WaitEmpty, NotifyEmpty, DoneLock, SetDone, NotifyDone, JoinWorkers,
       workerVars, vars
  <2>3. UNCHANGED <<report, num_detected, num_reported, graph_mutex>>
    BY <1>2 DEF GardenerMain, WriteGraph, graphVars
  <2>4. QED
    BY <2>1, <2>2, <2>3 DEF ReportInv, file_of, CallsLeft
<1>3. ASSUME NEW w \in Workers, GardenerWorker(w) PROVE ReportInv'
  <2>1. CASE AddEdgeLock(w)
    BY <2>1 DEF AddEdgeLock, ReportInv, file_of, CallsLeft, vars
  <2>2. CASE AddEdge(w)
    <3>1. worker_pc[w] = "process" /\ num_reported[w] < Len(report[file_of(w)])
      BY <2>2 DEF AddEdge, ReportInv, CallsLeft
    <3>2. file_of(w) \in InputPaths
      BY <3>1, FileInHand
    <3>3. num_reported[w] + 1 <= Len(report[file_of(w)])
      BY <3>1, <3>2, <1>r DEF ReportInv
    <3>4. /\ num_reported' = [num_reported EXCEPT ![w] = num_reported[w] + 1]
          /\ graph_mutex' = graph_mutex \ {w}
          /\ UNCHANGED <<worker_pc, entry, report, num_detected>>
      BY <2>2 DEF AddEdge, vars
    <3>5. QED
      BY <3>1, <3>3, <3>4 DEF ReportInv, file_of, CallsLeft
  <2>3. CASE FinishFile(w)
    <3>1. worker_pc' = [worker_pc EXCEPT ![w] = "lock"]
          /\ entry' = [entry EXCEPT ![w] = NoJob]
          /\ num_reported' = [num_reported EXCEPT ![w] = 0]
          /\ UNCHANGED <<graph_mutex, report, num_detected>>
          /\ ~CallsLeft(w)
      BY <2>3 DEF FinishFile, Process, Goto
    <3>2. w \notin graph_mutex
      BY <3>1 DEF ReportInv
    <3>3. QED
      BY <3>1, <3>2, <1>t DEF ReportInv, file_of, CallsLeft
  <2>4. CASE /\ WorkerStep(w) /\ worker_pc[w] # "process"
             /\ UNCHANGED <<graphVars, report, num_detected, written>>
    <3>1. UNCHANGED <<report, num_detected, num_reported, graph_mutex>>
      BY <2>4 DEF graphVars
    <3>2. \A v \in Workers : worker_pc'[v] = "process" =>
            worker_pc[v] \in {"process", "notify"}
      BY <2>4, <1>t DEF WorkerStep, WorkerLock, WorkerSleep, WorkerReturn, TakeJob,
         NotifyTaken, Process, Goto, Woken
    <3>3. \A v \in Workers : worker_pc[v] = "process" => worker_pc'[v] = "process"
      BY <2>4, <1>t DEF WorkerStep, WorkerLock, WorkerSleep, WorkerReturn, TakeJob,
         NotifyTaken, Process, Goto, Woken
    <3>4. \A v \in Workers : worker_pc[v] \in {"process", "notify"} => entry'[v] = entry[v]
      BY <2>4, <1>t DEF WorkerStep, WorkerLock, WorkerSleep, WorkerReturn, TakeJob,
         NotifyTaken, Process
    <3>5. \A v \in Workers : worker_pc[v] = "notify" => file_of(v)' \in InputPaths
      BY <3>4, JobFiles DEF IInv, TypeInv, Busy, file_of
    <3>6. QED
      BY <3>1, <3>2, <3>3, <3>4, <3>5, <1>f
  <2>5. QED
    BY <1>3, <2>1, <2>2, <2>3, <2>4 DEF GardenerWorker
<1>4. CASE GardenerSpurious
  <2>1. \A w \in Workers : worker_pc'[w] = "process" <=> worker_pc[w] = "process"
    BY <1>4, <1>t DEF GardenerSpurious, SpuriousWakeup, SpuriousMain, SpuriousWorker,
       Goto, workerVars
  <2>2. UNCHANGED <<entry, report, num_detected, num_reported, graph_mutex>>
    BY <1>4 DEF GardenerSpurious, SpuriousWakeup, SpuriousMain, SpuriousWorker,
       graphVars, workerVars
  <2>3. QED
    BY <2>1, <2>2 DEF ReportInv, file_of, CallsLeft
<1>5. CASE UNCHANGED gardenerVars
  BY <1>5 DEF gardenerVars, graphVars, vars, ReportInv, file_of, CallsLeft
<1>6. QED
  BY <1>1, <1>2, <1>3, <1>4, <1>5 DEF GardenerNext

LEMMA ReportInvCorrect == GardenerSpec => []ReportInv
<1>1. GardenerInit => ReportInv
  BY DetectorAssumption, GardenerAssumption
     DEF GardenerInit, Init, ReportInv, CallsLeft
<1>2. QED
  BY <1>1, ReportInvStep, DetectorInvariance, PTL DEF GardenerSpec

-----------------------------------------------------------------------------
(* Layer 2: the graph.                                                     *)

(* Two actions change the graph; no step changes it otherwise, and the     *)
(* reports of the files stay the same.                                     *)
LEMMA GraphSteps ==
  [GardenerNext]_gardenerVars =>
    /\ report' = report
    /\ \/ DetectFile
       \/ ThreadsRunning /\ \E w \in Workers : AddEdge(w)
       \/ UNCHANGED <<graph, num_detected>>
<1> SUFFICES ASSUME [GardenerNext]_gardenerVars
             PROVE  /\ report' = report
                    /\ \/ DetectFile
                       \/ ThreadsRunning /\ \E w \in Workers : AddEdge(w)
                       \/ UNCHANGED <<graph, num_detected>>
  OBVIOUS
<1>1. CASE DetectFile
  BY <1>1 DEF DetectFile
<1>2. CASE GardenerMain
  BY <1>2 DEF GardenerMain, WriteGraph, graphVars
<1>3. ASSUME NEW w \in Workers, GardenerWorker(w), ThreadsRunning
      PROVE  report' = report /\ (AddEdge(w) \/ UNCHANGED <<graph, num_detected>>)
  BY <1>3 DEF GardenerWorker, AddEdgeLock, AddEdge, FinishFile, graphVars
<1>4. CASE GardenerSpurious
  BY <1>4 DEF GardenerSpurious, graphVars
<1>5. CASE UNCHANGED gardenerVars
  BY <1>5 DEF gardenerVars, graphVars
<1>6. QED
  BY <1>1, <1>2, <1>3, <1>4, <1>5 DEF GardenerNext

(* The call that a worker in add_edge makes, and what it does.             *)
LEMMA CallFacts ==
  ASSUME IInv, ReportInv, GraphInv, ThreadsRunning, NEW w \in Workers, AddEdge(w),
         NEW src, src = file_of(w), NEW n, n = num_reported[w] + 1,
         NEW call, call = report[src][n],
         NEW dst, dst = Resolve(src, call.statement, call.idx)
  PROVE  /\ worker_pc[w] = "process" /\ entry[w] \in Jobs
         /\ n \in 1..Len(report[src])
         /\ src \in Labels(graph) /\ src \in Detected
         /\ call.statement \in Names /\ dst \in Paths \cup {NoPath}
         /\ Key(call.statement, dst) \in Paths \cup Names
         /\ Vertex(call.statement, dst) \in Vertexes
         /\ Edge(Key(call.statement, dst), call.line_no) \in Edges
         /\ graph' = insert_edge(graph, src, dst, call.statement, call.line_no)
<1>1. worker_pc[w] = "process" /\ num_reported[w] < Len(report[src])
  BY DEF AddEdge, ReportInv, CallsLeft
<1>2. entry[w] \in Jobs /\ src \in InputPaths /\ src \in Paths
  BY <1>1, FileInHand
<1>3. report[src] \in Seq([statement : Names, idx : Idx, line_no : Nat \ {0}])
  BY <1>2, GardenerAssumption DEF ReportInv
<1>4. n \in 1..Len(report[src])
  BY <1>1, <1>3, LenProperties DEF ReportInv
<1>5. call \in [statement : Names, idx : Idx, line_no : Nat \ {0}]
  <2> DEFINE S == [statement : Names, idx : Idx, line_no : Nat \ {0}]
             r == report[src]
  <2>1. r \in Seq(S) /\ n \in 1..Len(r)
    BY <1>3, <1>4
  <2> HIDE DEF S, r
  <2>2. r[n] \in S
    BY <2>1, ElementOfSeq
  <2>3. QED
    BY <2>2 DEF S, r
<1>6. dst \in Paths \cup {NoPath}
  BY <1>2, <1>5, GardenerAssumption
<1>7. src \in Detected
  BY <1>2, DetectorAssumption DEF Detected, ThreadsRunning, Jobs, file_of
<1>8. Key(call.statement, dst) \in Paths \cup Names
  BY <1>5, <1>6 DEF Key
<1>9. graph' = insert_edge(graph, src, dst, call.statement, call.line_no)
  <2>1. graph_mutex = {w}
    BY DEF AddEdge, ReportInv
  <2>2. QED
    BY <2>1 DEF AddEdge
<1>10. QED
  BY <1>1, <1>2, <1>4, <1>5, <1>6, <1>7, <1>8, <1>9
     DEF GraphInv, Vertex, Vertexes, Edge, Edges

(* The file that DetectFile adds.                                          *)
LEMMA DetectFacts ==
  ASSUME ReportInv, DetectFile
  PROVE  /\ num_detected + 1 \in Jobs
         /\ Vertex(input_files[num_detected + 1].name,
                   input_files[num_detected + 1].path) \in Vertexes
         /\ Key(input_files[num_detected + 1].name, input_files[num_detected + 1].path)
              = input_files[num_detected + 1].path
         /\ input_files[num_detected + 1].path \in Paths
         /\ graph' = add_vertex(graph, input_files[num_detected + 1].name,
                                input_files[num_detected + 1].path)
         /\ Detected' = Detected \cup {input_files[num_detected + 1].path}
<1>1. num_detected + 1 \in Jobs /\ num_detected \in Nat /\ num_detected' = num_detected + 1
  BY DetectorAssumption DEF ReportInv, DetectFile, Jobs
<1>2. input_files[num_detected + 1].path \in Paths /\ input_files[num_detected + 1].name \in Names
  BY <1>1, JobFiles
<1>3. Detected' = Detected \cup {input_files[num_detected + 1].path}
  <2>1. 1..(num_detected + 1) = (1..num_detected) \cup {num_detected + 1}
    BY <1>1
  <2>2. QED
    BY <1>1, <2>1 DEF Detected
<1>4. QED
  BY <1>1, <1>2, <1>3, GardenerAssumption DEF DetectFile, Vertex, Vertexes, Key

LEMMA GraphInvStep ==
  IInv /\ ReportInv /\ GraphInv /\ [GardenerNext]_gardenerVars =>
    GraphInv' /\ Extends(graph', graph)
<1> SUFFICES ASSUME IInv, ReportInv, GraphInv, [GardenerNext]_gardenerVars
             PROVE  GraphInv' /\ Extends(graph', graph)
  OBVIOUS
<1>1. CASE DetectFile
  <2> DEFINE file == input_files[num_detected + 1]
  <2>1. /\ IsGraph(graph', Vertexes, Edges)
        /\ Labels(graph') = Labels(graph) \cup {file.path}
        /\ graph'.undefined = graph.undefined
    BY <1>1, DetectFacts, AddVertexLemma DEF GraphInv
  <2>2. Closed(graph') /\ Extends(graph', graph)
    BY <1>1, DetectFacts, AddVertexKeeps DEF GraphInv
  <2>3. Detected' = Detected \cup {file.path} /\ file.path \in Paths
    BY <1>1, DetectFacts
  <2> HIDE DEF file
  <2>4. QED
    BY <2>1, <2>2, <2>3 DEF GraphInv
<1>2. ASSUME ThreadsRunning, NEW w \in Workers, AddEdge(w)
      PROVE  GraphInv' /\ Extends(graph', graph)
  <2> DEFINE src  == file_of(w)
             call == report[src][num_reported[w] + 1]
             dst  == Resolve(src, call.statement, call.idx)
  <2>1. /\ src \in Labels(graph)
        /\ Key(call.statement, dst) \in Paths \cup Names
        /\ Vertex(call.statement, dst) \in Vertexes
        /\ Edge(Key(call.statement, dst), call.line_no) \in Edges
        /\ graph' = insert_edge(graph, src, dst, call.statement, call.line_no)
    BY <1>2, CallFacts
  <2> HIDE DEF src, call, dst
  <2>2. /\ IsGraph(graph', Vertexes, Edges)
        /\ Labels(graph') = Labels(graph) \cup {Key(call.statement, dst)}
        /\ graph'.undefined = graph.undefined
    BY <2>1, InsertEdgeLemma DEF GraphInv
  <2>3. Closed(graph') /\ Extends(graph', graph)
    BY <2>1, InsertEdgeKeeps DEF GraphInv
  <2>4. Detected' = Detected
    BY <1>2 DEF AddEdge, Detected
  <2>5. QED
    BY <2>1, <2>2, <2>3, <2>4 DEF GraphInv
<1>3. CASE UNCHANGED <<graph, num_detected>>
  <2>1. \A k \in Labels(graph) : Len(graph.out[k]) \in Nat
    BY LenProperties DEF GraphInv, IsGraph
  <2>2. Extends(graph, graph)
    BY <2>1 DEF Extends
  <2>3. Detected' = Detected
    BY <1>3 DEF Detected
  <2>4. QED
    BY <1>3, <2>2, <2>3 DEF GraphInv
<1>4. QED
  BY <1>1, <1>2, <1>3, GraphSteps

LEMMA GraphInvCorrect == GardenerSpec => []GraphInv
<1>1. GardenerInit => GraphInv
  <2> SUFFICES ASSUME GardenerInit PROVE GraphInv
    OBVIOUS
  <2>1. Detected = {}
    BY DEF GardenerInit, Detected
  <2>2. ~graph.undefined
    BY DEF GardenerInit, EmptyGraph
  <2>3. QED
    BY <2>1, <2>2, EmptyGraphLemma DEF GardenerInit, GraphInv
<1>2. QED
  BY <1>1, GraphInvStep, DetectorInvariance, ReportInvCorrect, PTL DEF GardenerSpec

(* Two workers are never in the graph at once, add_edge_by_label is only   *)
(* called with labels the graph knows, and every edge leads to a vertex,   *)
(* in whatever order the workers call it.                                  *)
THEOREM NoUnknownLabel == GardenerSpec => []LabelsKnown
<1>1. ReportInv /\ GraphInv => LabelsKnown
  BY DEF ReportInv, GraphInv, Closed, LabelsKnown
<1>2. QED
  BY <1>1, ReportInvCorrect, GraphInvCorrect, PTL

(* No step renames or removes a vertex, or changes or removes an edge.     *)
THEOREM NothingIsUndone == GardenerSpec => GraphGrows
<1>1. GraphInv /\ Extends(graph', graph) =>
        [\A key \in Labels(graph) :
           /\ key \in Labels(graph')
           /\ graph'.vertexes[key] = graph.vertexes[key]
           /\ Len(graph.out[key]) <= Len(graph'.out[key])
           /\ \A i \in 1..Len(graph.out[key]) :
                graph'.out[key][i] = graph.out[key][i]]_gardenerVars
  BY DEF Extends
<1>2. QED
  BY <1>1, GraphInvStep, DetectorInvariance, ReportInvCorrect, GraphInvCorrect, PTL
     DEF GardenerSpec, GraphGrows

-----------------------------------------------------------------------------
(* Layer 3: before the threads run, and after they are gone.               *)

LEMMA PhaseInvStep ==
  IInv /\ ReportInv /\ PhaseInv /\ [GardenerNext]_gardenerVars => PhaseInv'
<1> SUFFICES ASSUME IInv, ReportInv, PhaseInv, [GardenerNext]_gardenerVars
             PROVE  PhaseInv'
  OBVIOUS
<1>1. CASE DetectFile
  <2>1. ~ThreadsRunning
    BY <1>1, DetectorAssumption DEF DetectFile, ThreadsRunning, ReportInv
  <2>2. written = <<>>
    BY <2>1 DEF PhaseInv
  <2>3. QED
    BY <1>1, <2>1, <2>2 DEF DetectFile, PhaseInv, vars
<1>2. CASE UNCHANGED gardenerVars
  BY <1>2 DEF gardenerVars, vars, graphVars, PhaseInv, ThreadsRunning
<1>3. ASSUME ThreadsRunning,
             GardenerMain \/ (\E w \in Workers : GardenerWorker(w)) \/ GardenerSpurious
      PROVE  PhaseInv'
  <2>1. ThreadsRunning'
    BY <1>3 DEF ThreadsRunning, GardenerMain, WriteGraph, GardenerWorker, AddEdgeLock,
       AddEdge, FinishFile, GardenerSpurious
  <2>2. CASE main_pc = "joined"
    <3>1. \A w \in Workers : worker_pc[w] = "returned"
      BY <2>2 DEF IInv, DoneInv
    <3>2. ASSUME NEW w \in Workers, GardenerWorker(w) PROVE FALSE
      <4>1. ~AddEdge(w)
        BY <3>1 DEF AddEdge, ReportInv
      <4>2. QED
        BY <3>1, <3>2, <4>1 DEF GardenerWorker, AddEdgeLock, FinishFile, Process,
           WorkerStep, WorkerLock, WorkerSleep, WorkerReturn, TakeJob, NotifyTaken
    <3>3. ~MainStep /\ ~SpuriousWakeup
      BY <2>2, <3>1 DEF MainStep, AddJobLock, AddJobPush, WaitLock, WaitSleep, WaitEmpty,
         NotifyEmpty, DoneLock, SetDone, NotifyDone, JoinWorkers, SpuriousWakeup,
         SpuriousMain, SpuriousWorker
    <3>4. WriteGraph
      BY <1>3, <3>2, <3>3 DEF GardenerMain, GardenerSpurious
    <3>5. written' = <<graph>> /\ UNCHANGED <<graph, main_pc>>
      <4>1. graph_mutex = {}
        BY <3>1 DEF ReportInv
      <4>2. QED
        BY <3>4, <4>1 DEF WriteGraph, graphVars, vars
    <3>6. QED
      BY <2>1, <2>2, <3>5 DEF PhaseInv
  <2>3. CASE main_pc # "joined"
    <3>1. written' = <<>>
      BY <1>3, <2>3 DEF PhaseInv, GardenerMain, WriteGraph, GardenerWorker, AddEdgeLock,
         AddEdge, FinishFile, GardenerSpurious
    <3>2. QED
      BY <2>1, <3>1 DEF PhaseInv
  <2>4. QED
    BY <2>2, <2>3
<1>4. QED
  BY <1>1, <1>2, <1>3 DEF GardenerNext

LEMMA PhaseInvCorrect == GardenerSpec => []PhaseInv
<1>1. GardenerInit => PhaseInv
  BY DEF GardenerInit, Init, PhaseInv
<1>2. QED
  BY <1>1, PhaseInvStep, DetectorInvariance, ReportInvCorrect, PTL DEF GardenerSpec

(* Every variable of the program keeps its type.                           *)
THEOREM GardenerTypeCorrect == GardenerSpec => []GardenerTypeOK
<1>1. ReportInv /\ GraphInv /\ PhaseInv => GardenerTypeOK
  <2> SUFFICES ASSUME ReportInv, GraphInv, PhaseInv PROVE GardenerTypeOK
    OBVIOUS
  <2>1. Len(written) <= 1
    <3>1. CASE written = <<>>
      BY <3>1
    <3>2. CASE written = <<graph>>
      BY <3>2
    <3>3. QED
      BY <3>1, <3>2 DEF PhaseInv
  <2>2. QED
    BY <2>1 DEF ReportInv, GraphInv, IsGraph, GardenerTypeOK
<1>2. QED
  BY <1>1, ReportInvCorrect, GraphInvCorrect, PhaseInvCorrect, PTL

-----------------------------------------------------------------------------
(* The calls made.                                                         *)

(* The three cases of Made exclude each other, and Holder has one member   *)
(* at most.                                                                *)
MadeFacts ==
  \A j \in Jobs :
    /\ j \in processed => Made(j) = Len(report[input_files[j].path])
    /\ \A w \in Workers :
         worker_pc[w] = "process" /\ entry[w] = j =>
           j \notin processed /\ Made(j) = num_reported[w]
    /\ j \notin processed /\ (\A w \in Workers : ~(worker_pc[w] = "process" /\ entry[w] = j))
         => Made(j) = 0

LEMMA MadeLemma == IInv => MadeFacts
<1> SUFFICES ASSUME IInv, NEW j \in Jobs
             PROVE
    /\ j \in processed => Made(j) = Len(report[input_files[j].path])
    /\ \A w \in Workers :
         worker_pc[w] = "process" /\ entry[w] = j =>
           j \notin processed /\ Made(j) = num_reported[w]
    /\ j \notin processed /\ (\A w \in Workers : ~(worker_pc[w] = "process" /\ entry[w] = j))
         => Made(j) = 0
  BY DEF MadeFacts
<1>1. ASSUME NEW w \in Workers, worker_pc[w] = "process", entry[w] = j
      PROVE  j \notin processed /\ Holder(j) = {w}
  <2>1. j \in InHand
    BY <1>1 DEF InHand, Busy
  <2>2. j \notin processed
    BY <2>1 DEF IInv, QueueInv, EachJobOnce
  <2>3. \A v \in Workers : worker_pc[v] = "process" /\ entry[v] = j => v = w
    BY <1>1 DEF IInv, QueueInv, EachJobOnce, Busy
  <2>4. QED
    BY <1>1, <2>2, <2>3 DEF Holder
<1>2. ASSUME j \in processed PROVE Made(j) = Len(report[input_files[j].path])
  <2>1. Holder(j) = {}
    BY <1>1, <1>2 DEF Holder
  <2>2. QED
    BY <1>2, <2>1 DEF Made
<1>3. ASSUME NEW w \in Workers, worker_pc[w] = "process", entry[w] = j
      PROVE  Made(j) = num_reported[w]
  <2>1. j \notin processed /\ Holder(j) = {w}
    BY <1>1, <1>3
  <2>2. (CHOOSE v \in Holder(j) : TRUE) = w
    BY <2>1
  <2>3. QED
    BY <2>1, <2>2 DEF Made
<1>4. ASSUME j \notin processed,
             \A w \in Workers : ~(worker_pc[w] = "process" /\ entry[w] = j)
      PROVE  Made(j) = 0
  <2>1. Holder(j) = {}
    BY <1>4 DEF Holder
  <2>2. QED
    BY <1>4, <2>1 DEF Made
<1>5. QED
  BY <1>1, <1>2, <1>3, <1>4

(* When main writes the graph the workers are gone: every call of every    *)
(* file has been made, and nothing changes the graph any more.             *)
THEOREM WrittenIsFinal == GardenerSpec => []WrittenGraphIsComplete
<1>1. IInv /\ ReportInv /\ PhaseInv /\ MadeFacts => WrittenGraphIsComplete
  <2> SUFFICES ASSUME IInv, ReportInv, PhaseInv, MadeFacts, written # <<>>
               PROVE  /\ written = <<graph>>
                      /\ graph_mutex = {}
                      /\ \A j \in Jobs : Made(j) = Len(report[input_files[j].path])
    BY DEF WrittenGraphIsComplete
  <2>1. written = <<graph>> /\ main_pc = "joined"
    BY DEF PhaseInv
  <2>2. \A w \in Workers : worker_pc[w] = "returned"
    BY <2>1 DEF IInv, DoneInv
  <2>3. graph_mutex = {}
    BY <2>2 DEF ReportInv
  <2>4. processed = Jobs
    BY <2>1, AllProcessedAtJoin DEF JoinedAfterAllJobs
  <2>5. QED
    BY <2>1, <2>3, <2>4 DEF MadeFacts
<1>2. QED
  BY <1>1, MadeLemma, DetectorInvariance, ReportInvCorrect, PhaseInvCorrect, PTL

-----------------------------------------------------------------------------
(* What a step does to the calls made.                                     *)

(* add_edge makes one call more for the job in the worker's hands.         *)
LEMMA MadeByAddEdge ==
  ASSUME IInv, ReportInv, MadeFacts, MadeFacts', NEW w \in Workers, AddEdge(w),
         NEW j \in Jobs
  PROVE  Made(j)' = IF j = entry[w] THEN Made(j) + 1 ELSE Made(j)
<1>1. worker_pc[w] = "process"
  BY DEF AddEdge, ReportInv
<1>2. /\ UNCHANGED <<worker_pc, entry, processed, report>>
      /\ num_reported' = [num_reported EXCEPT ![w] = num_reported[w] + 1]
      /\ num_reported \in [Workers -> Nat]
  BY DEF AddEdge, vars, ReportInv
<1>3. CASE j \in processed
  <2>1. j # entry[w]
    BY <1>1, <1>3 DEF MadeFacts
  <2>2. QED
    BY <1>2, <1>3, <2>1 DEF MadeFacts
<1>4. CASE j \notin processed /\ j = entry[w]
  BY <1>1, <1>2, <1>4 DEF MadeFacts
<1>5. CASE j \notin processed /\ j # entry[w]
  <2>1. CASE \E v \in Workers : worker_pc[v] = "process" /\ entry[v] = j
    <3>1. PICK v \in Workers : worker_pc[v] = "process" /\ entry[v] = j
      BY <2>1
    <3>2. Made(j) = num_reported[v] /\ Made(j)' = num_reported'[v] /\ v # w
      BY <3>1, <1>2, <1>5 DEF MadeFacts
    <3>3. QED
      BY <3>2, <1>2, <1>5
  <2>2. CASE ~\E v \in Workers : worker_pc[v] = "process" /\ entry[v] = j
    BY <2>2, <1>2, <1>5 DEF MadeFacts
  <2>3. QED
    BY <2>1, <2>2
<1>6. QED
  BY <1>3, <1>4, <1>5

(* A step that leaves the workers in process_stream where they are, and    *)
(* sends others there with no call made, makes no call.                    *)
LEMMA MadeFrame ==
  ASSUME MadeFacts, MadeFacts', NEW j \in Jobs,
         UNCHANGED <<processed, report, num_reported>>,
         \A w \in Workers : worker_pc[w] = "process" =>
           worker_pc'[w] = "process" /\ entry'[w] = entry[w],
         \A w \in Workers : worker_pc'[w] = "process" =>
           (worker_pc[w] = "process" /\ entry'[w] = entry[w]) \/ num_reported[w] = 0
  PROVE  Made(j)' = Made(j)
<1>1. CASE j \in processed
  BY <1>1 DEF MadeFacts
<1>2. CASE \E w \in Workers : worker_pc[w] = "process" /\ entry[w] = j
  BY <1>2 DEF MadeFacts
<1>3. CASE /\ j \notin processed
           /\ \A w \in Workers : ~(worker_pc[w] = "process" /\ entry[w] = j)
  <2>1. Made(j) = 0
    BY <1>3 DEF MadeFacts
  <2>2. CASE \E w \in Workers : worker_pc'[w] = "process" /\ entry'[w] = j
    <3>1. PICK w \in Workers : worker_pc'[w] = "process" /\ entry'[w] = j
      BY <2>2
    <3>2. Made(j)' = num_reported'[w]
      BY <3>1 DEF MadeFacts
    <3>3. num_reported[w] = 0
      BY <1>3, <3>1
    <3>4. QED
      BY <2>1, <3>2, <3>3
  <2>3. CASE ~\E w \in Workers : worker_pc'[w] = "process" /\ entry'[w] = j
    BY <1>3, <2>1, <2>3 DEF MadeFacts
  <2>4. QED
    BY <2>2, <2>3
<1>4. QED
  BY <1>1, <1>2, <1>3

LEMMA MadeByOthers ==
  ASSUME IInv, ReportInv, MadeFacts, MadeFacts', [GardenerNext]_gardenerVars,
         ~(ThreadsRunning /\ \E w \in Workers : AddEdge(w)), NEW j \in Jobs
  PROVE  Made(j)' = Made(j)
<1>t. worker_pc \in [Workers -> WorkerLabels] /\ entry \in [Workers -> Jobs \cup {NoJob}]
  BY DEF IInv, TypeInv, TypeOK
<1>1. CASE DetectFile
  BY <1>1, MadeFrame DEF DetectFile, vars
<1>2. CASE GardenerMain
  <2>1. \A w \in Workers : worker_pc'[w] = "process" <=> worker_pc[w] = "process"
    BY <1>2, <1>t DEF GardenerMain, WriteGraph, MainStep, AddJobLock, AddJobPush, WaitLock,
       WaitSleep, WaitEmpty, NotifyEmpty, DoneLock, SetDone, NotifyDone, JoinWorkers,
       Woken, workerVars, vars
  <2>2. UNCHANGED <<entry, processed>>
    BY <1>2 DEF GardenerMain, WriteGraph, MainStep, AddJobLock, AddJobPush, WaitLock,
       WaitSleep, WaitEmpty, NotifyEmpty, DoneLock, SetDone, NotifyDone, JoinWorkers,
       workerVars, vars
  <2>3. UNCHANGED <<report, num_reported>>
    BY <1>2 DEF GardenerMain, WriteGraph, graphVars
  <2>4. QED
    BY <2>1, <2>2, <2>3, MadeFrame
<1>3. ASSUME ThreadsRunning, NEW w \in Workers, GardenerWorker(w) PROVE Made(j)' = Made(j)
  <2>1. CASE AddEdgeLock(w)
    BY <2>1, MadeFrame DEF AddEdgeLock, vars
  <2>2. CASE FinishFile(w)
    <3>1. /\ worker_pc[w] = "process" /\ ~CallsLeft(w)
          /\ worker_pc' = [worker_pc EXCEPT ![w] = "lock"]
          /\ entry' = [entry EXCEPT ![w] = NoJob]
          /\ processed' = processed \cup {entry[w]}
          /\ num_reported' = [num_reported EXCEPT ![w] = 0]
          /\ report' = report
      BY <2>2 DEF FinishFile, Process, Goto
    <3>2. entry[w] \in Jobs /\ file_of(w) \in InputPaths
      BY <3>1, FileInHand
    <3>3. report[file_of(w)] \in Seq([statement : Names, idx : Idx, line_no : Nat \ {0}])
      BY <3>2, GardenerAssumption DEF ReportInv
    <3>4. num_reported[w] = Len(report[file_of(w)])
      BY <3>1, <3>3, LenProperties DEF ReportInv, CallsLeft
    <3>5. CASE j = entry[w]
      <4>1. Made(j) = num_reported[w]
        BY <3>1, <3>2, <3>5 DEF MadeFacts
      <4>2. Made(j)' = Len(report[input_files[j].path])
        BY <3>1, <3>5 DEF MadeFacts
      <4>3. QED
        BY <3>4, <3>5, <4>1, <4>2 DEF file_of
    <3>6. CASE j # entry[w] /\ j \in processed
      BY <3>1, <3>6 DEF MadeFacts
    <3>7. CASE j # entry[w] /\ j \notin processed
      <4>1. j \notin processed'
        BY <3>1, <3>7
      <4>2. CASE \E v \in Workers : worker_pc[v] = "process" /\ entry[v] = j
        <5>1. PICK v \in Workers : worker_pc[v] = "process" /\ entry[v] = j
          BY <4>2
        <5>2. v # w /\ worker_pc'[v] = "process" /\ entry'[v] = j
          BY <3>1, <3>7, <5>1, <1>t
        <5>3. Made(j) = num_reported[v] /\ Made(j)' = num_reported'[v]
          BY <5>1, <5>2 DEF MadeFacts
        <5>4. QED
          BY <3>1, <5>2, <5>3 DEF ReportInv
      <4>3. CASE ~\E v \in Workers : worker_pc[v] = "process" /\ entry[v] = j
        <5>1. \A v \in Workers : ~(worker_pc'[v] = "process" /\ entry'[v] = j)
          BY <3>1, <4>3, <1>t
        <5>2. Made(j) = 0 /\ Made(j)' = 0
          BY <3>7, <4>1, <4>3, <5>1 DEF MadeFacts
        <5>3. QED
          BY <5>2
      <4>4. QED
        BY <4>2, <4>3
    <3>8. QED
      BY <3>5, <3>6, <3>7
  <2>3. CASE /\ WorkerStep(w) /\ worker_pc[w] # "process"
             /\ UNCHANGED <<graphVars, report, num_detected, written>>
    <3>1. UNCHANGED <<report, num_reported>>
      BY <2>3 DEF graphVars
    <3>2. processed' = processed
      BY <2>3 DEF WorkerStep, WorkerLock, WorkerSleep, WorkerReturn, TakeJob,
         NotifyTaken, Process
    <3>3. \A v \in Workers : worker_pc[v] = "process" => worker_pc'[v] = "process"
      BY <2>3, <1>t DEF WorkerStep, WorkerLock, WorkerSleep, WorkerReturn, TakeJob,
         NotifyTaken, Process, Goto, Woken
    <3>4. \A v \in Workers : worker_pc[v] = "process" => entry'[v] = entry[v]
      BY <2>3, <1>t DEF WorkerStep, WorkerLock, WorkerSleep, WorkerReturn, TakeJob,
         NotifyTaken, Process
    <3>5. \A v \in Workers : worker_pc[v] # "process" => num_reported[v] = 0
      BY DEF ReportInv
    <3>6. QED
      BY <3>1, <3>2, <3>3, <3>4, <3>5, MadeFrame
  <2>4. QED
    BY <1>3, <2>1, <2>2, <2>3 DEF GardenerWorker
<1>4. CASE GardenerSpurious
  <2>1. \A w \in Workers : worker_pc'[w] = "process" <=> worker_pc[w] = "process"
    BY <1>4, <1>t DEF GardenerSpurious, SpuriousWakeup, SpuriousMain, SpuriousWorker,
       Goto, workerVars
  <2>2. UNCHANGED <<entry, processed, report, num_reported>>
    BY <1>4 DEF GardenerSpurious, SpuriousWakeup, SpuriousMain, SpuriousWorker,
       graphVars, workerVars
  <2>3. QED
    BY <2>1, <2>2, MadeFrame
<1>5. CASE UNCHANGED gardenerVars
  BY <1>5, MadeFrame DEF gardenerVars, graphVars, vars
<1>6. QED
  BY <1>1, <1>2, <1>3, <1>4, <1>5 DEF GardenerNext

(* Before the threads run no call is made.                                 *)
LEMMA NothingMade ==
  ASSUME PhaseInv, MadeFacts, ~ThreadsRunning, NEW j \in Jobs
  PROVE  Made(j) = 0
BY DEF PhaseInv, MadeFacts

(* The number of calls made is a number of calls of the file.              *)
LEMMA MadeType ==
  ASSUME IInv, ReportInv, MadeFacts, NEW j \in Jobs
  PROVE  Made(j) \in 0..Len(report[input_files[j].path])
<1>1. report[input_files[j].path] \in Seq([statement : Names, idx : Idx, line_no : Nat \ {0}])
  BY JobFiles, GardenerAssumption DEF ReportInv
<1>2. Len(report[input_files[j].path]) \in Nat
  BY <1>1, LenProperties
<1>3. CASE j \in processed
  BY <1>2, <1>3 DEF MadeFacts
<1>4. CASE \E w \in Workers : worker_pc[w] = "process" /\ entry[w] = j
  BY <1>2, <1>4 DEF MadeFacts, ReportInv, file_of
<1>5. CASE /\ j \notin processed
           /\ \A w \in Workers : ~(worker_pc[w] = "process" /\ entry[w] = j)
  BY <1>2, <1>5 DEF MadeFacts
<1>6. QED
  BY <1>3, <1>4, <1>5

-----------------------------------------------------------------------------
(* Layer 4: the vertexes and the edges, in terms of the calls made.        *)

CallAt(j, i) == report[input_files[j].path][i]
KeyAt(j, i)  == KeyOf(input_files[j].path, CallAt(j, i))
EdgeAt(j, i) == Edge(KeyAt(j, i), CallAt(j, i).line_no)
Called(key)  == \E j \in Jobs : \E i \in 1..Made(j) : KeyAt(j, i) = key

VertexInv == \A key : key \in Labels(graph) <=> key \in Detected \/ Called(key)

DetectedName(key, name) ==
  \E j \in 1..num_detected :
    /\ input_files[j] = [path |-> key, name |-> name]
    /\ \A i \in 1..(j - 1) : input_files[i].path # key
CalledName(key, name) ==
  \E j \in Jobs : \E i \in 1..Made(j) :
    KeyAt(j, i) = key /\ CallAt(j, i).statement = name

NameInv ==
  \A key \in Labels(graph) : \A name : graph.vertexes[key].name = name =>
    IF key \in Detected THEN DetectedName(key, name) ELSE CalledName(key, name)

SafetyInv == IInv /\ ReportInv /\ GraphInv /\ PhaseInv /\ MadeFacts

LEMMA SafetyInvCorrect == GardenerSpec => []SafetyInv
BY MadeLemma, DetectorInvariance, ReportInvCorrect, GraphInvCorrect, PhaseInvCorrect, PTL
   DEF SafetyInv

(* Calls as pairs, and as a job and a position.                            *)
LEMMA CallsMadeAre ==
  /\ \A c \in CallsMade : \E j \in Jobs : \E i \in 1..Made(j) : c = <<j, i>>
  /\ \A j \in Jobs : \A i \in 1..Made(j) :
       /\ <<j, i>> \in CallsMade
       /\ CallOf(<<j, i>>) = CallAt(j, i) /\ KeyMade(<<j, i>>) = KeyAt(j, i)
       /\ PathOf(<<j, i>>) = input_files[j].path
BY DEF CallsMade, CallOf, PathOf, KeyMade, CallAt, KeyAt

(* The call add_edge makes is the next one of the worker's job.            *)
LEMMA NewCall ==
  ASSUME SafetyInv, SafetyInv', NEW w \in Workers, AddEdge(w)
  PROVE  \E k \in Jobs, n \in Nat :
           /\ entry[w] = k /\ Made(k) = n /\ Made(k)' = n + 1
           /\ \A j \in Jobs : j # k => Made(j)' = Made(j)
           /\ num_reported[w] = n
<1> USE DEF SafetyInv
<1>1. worker_pc[w] = "process"
  BY DEF AddEdge, ReportInv
<1>2. entry[w] \in Jobs
  BY <1>1, FileInHand
<1>3. Made(entry[w]) = num_reported[w] /\ num_reported[w] \in Nat
  BY <1>1, <1>2 DEF MadeFacts, ReportInv
<1>4. \A j \in Jobs : Made(j)' = IF j = entry[w] THEN Made(j) + 1 ELSE Made(j)
  BY MadeByAddEdge
<1>5. PICK k \in Jobs : entry[w] = k
  BY <1>2
<1>6. \A j \in Jobs : Made(j)' = IF j = k THEN Made(j) + 1 ELSE Made(j)
  BY <1>4, <1>5
<1>7. PICK n \in Nat : Made(k) = n /\ num_reported[w] = n
  BY <1>3, <1>5
<1>8. Made(k)' = n + 1 /\ \A j \in Jobs : j # k => Made(j)' = Made(j)
  BY <1>6, <1>7
<1>9. QED
  BY <1>5, <1>7, <1>8

(* What a call does to the graph.                                          *)
LEMMA AddEdgeStep ==
  ASSUME SafetyInv, SafetyInv', ThreadsRunning, NEW w \in Workers, AddEdge(w)
  PROVE  \E k \in Jobs, n \in Nat :
           /\ Made(k) = n /\ Made(k)' = n + 1
           /\ \A j \in Jobs : j # k => Made(j)' = Made(j)
           /\ input_files[k].path \in Detected
           /\ n + 1 \in 1..Len(report[input_files[k].path])
           /\ EdgeAt(k, n + 1) \in Edges
           /\ Labels(graph') = Labels(graph) \cup {KeyAt(k, n + 1)}
           /\ \A key \in Labels(graph) : graph'.vertexes[key] = graph.vertexes[key]
           /\ \A src \in Labels(graph) :
                src # input_files[k].path => graph'.out[src] = graph.out[src]
           /\ graph'.out[input_files[k].path]
                = Append(graph.out[input_files[k].path], EdgeAt(k, n + 1))
           /\ KeyAt(k, n + 1) \notin Labels(graph) =>
                /\ graph'.vertexes[KeyAt(k, n + 1)].name = CallAt(k, n + 1).statement
                /\ graph'.out[KeyAt(k, n + 1)] = <<>>
<1> DEFINE src  == file_of(w)
           call == report[src][num_reported[w] + 1]
           dst  == Resolve(src, call.statement, call.idx)
           key  == Key(call.statement, dst)
           e    == Edge(key, call.line_no)
<1>1. /\ src \in Labels(graph) /\ src \in Detected
      /\ num_reported[w] + 1 \in 1..Len(report[src])
      /\ Vertex(call.statement, dst) \in Vertexes /\ e \in Edges
      /\ graph' = insert_edge(graph, src, dst, call.statement, call.line_no)
  BY CallFacts DEF SafetyInv
<1>2. PICK k \in Jobs, n \in Nat :
        /\ entry[w] = k /\ Made(k) = n /\ Made(k)' = n + 1
        /\ \A j \in Jobs : j # k => Made(j)' = Made(j)
        /\ num_reported[w] = n
  BY NewCall
<1>3. /\ src = input_files[k].path /\ call = CallAt(k, n + 1)
      /\ key = KeyAt(k, n + 1) /\ e = EdgeAt(k, n + 1)
  BY <1>2 DEF EdgeAt, KeyAt, KeyOf, CallAt, file_of
<1> HIDE DEF src, call, dst
<1>4. /\ Labels(graph') = Labels(graph) \cup {key}
      /\ \A l \in Labels(graph) : graph'.vertexes[l] = graph.vertexes[l]
      /\ \A l \in Labels(graph) : l # src => graph'.out[l] = graph.out[l]
      /\ graph'.out[src] = Append(graph.out[src], e)
      /\ key \notin Labels(graph) =>
           graph'.vertexes[key] = Vertex(call.statement, dst) /\ graph'.out[key] = <<>>
  BY <1>1, InsertEdgeLemma DEF GraphInv, SafetyInv
<1>5. Vertex(call.statement, dst).name = call.statement
  BY DEF Vertex
<1> HIDE DEF key, e
<1>6. /\ input_files[k].path \in Detected
      /\ n + 1 \in 1..Len(report[input_files[k].path])
      /\ EdgeAt(k, n + 1) \in Edges
      /\ Labels(graph') = Labels(graph) \cup {KeyAt(k, n + 1)}
      /\ \A l \in Labels(graph) : graph'.vertexes[l] = graph.vertexes[l]
      /\ \A l \in Labels(graph) :
           l # input_files[k].path => graph'.out[l] = graph.out[l]
  BY <1>1, <1>2, <1>3, <1>4
<1>7. /\ graph'.out[input_files[k].path]
           = Append(graph.out[input_files[k].path], EdgeAt(k, n + 1))
      /\ KeyAt(k, n + 1) \notin Labels(graph) =>
           /\ graph'.vertexes[KeyAt(k, n + 1)].name = CallAt(k, n + 1).statement
           /\ graph'.out[KeyAt(k, n + 1)] = <<>>
  BY <1>3, <1>4, <1>5
<1>8. QED
  BY <1>2, <1>6, <1>7

(* The other steps make no call, and only DetectFile touches the graph.    *)
LEMMA OtherStep ==
  ASSUME SafetyInv, SafetyInv', [GardenerNext]_gardenerVars,
         ~(ThreadsRunning /\ \E w \in Workers : AddEdge(w))
  PROVE  /\ \A j \in Jobs : Made(j)' = Made(j)
         /\ \/ UNCHANGED <<graph, num_detected>>
            \/ /\ DetectFile
               /\ \A j \in Jobs : Made(j) = 0
<1>1. \A j \in Jobs : Made(j)' = Made(j)
  BY MadeByOthers DEF SafetyInv
<1>2. CASE DetectFile
  <2>1. ~ThreadsRunning
    BY <1>2, DetectorAssumption DEF DetectFile, ThreadsRunning, ReportInv, SafetyInv
  <2>2. QED
    BY <1>1, <1>2, <2>1, NothingMade DEF SafetyInv
<1>3. QED
  BY <1>1, <1>2, GraphSteps

LEMMA VertexInvStep ==
  SafetyInv /\ SafetyInv' /\ VertexInv /\ [GardenerNext]_gardenerVars => VertexInv'
<1> SUFFICES ASSUME SafetyInv, SafetyInv', VertexInv, [GardenerNext]_gardenerVars
             PROVE  VertexInv'
  OBVIOUS
<1>1. \A j, i : KeyAt(j, i)' = KeyAt(j, i)
  BY GraphSteps DEF KeyAt, CallAt, KeyOf
<1>2. ASSUME ThreadsRunning, NEW w \in Workers, AddEdge(w) PROVE VertexInv'
  <2>1. PICK k \in Jobs, n \in Nat :
          /\ Made(k) = n /\ Made(k)' = n + 1
          /\ \A j \in Jobs : j # k => Made(j)' = Made(j)
          /\ Labels(graph') = Labels(graph) \cup {KeyAt(k, n + 1)}
    BY <1>2, AddEdgeStep
  <2>2. Detected' = Detected
    BY <1>2 DEF AddEdge, Detected
  <2>3. ASSUME NEW key PROVE Called(key)' <=> Called(key) \/ key = KeyAt(k, n + 1)
    <3>1. ASSUME Called(key) PROVE Called(key)'
      <4>1. PICK j \in Jobs : \E i \in 1..Made(j) : KeyAt(j, i) = key
        BY <3>1 DEF Called
      <4>2. 1..Made(j) \subseteq 1..Made(j)'
        BY <2>1
      <4>3. QED
        BY <4>1, <4>2, <1>1 DEF Called
    <3>2. ASSUME key = KeyAt(k, n + 1) PROVE Called(key)'
      <4>1. n + 1 \in 1..Made(k)'
        BY <2>1
      <4>2. QED
        BY <4>1, <3>2, <1>1 DEF Called
    <3>3. ASSUME Called(key)' PROVE Called(key) \/ key = KeyAt(k, n + 1)
      <4>1. PICK j \in Jobs : \E i \in 1..Made(j)' : KeyAt(j, i)' = key
        BY <3>3 DEF Called
      <4>2. PICK i \in 1..Made(j)' : KeyAt(j, i) = key
        BY <4>1, <1>1
      <4>3. CASE j = k /\ i = n + 1
        BY <4>2, <4>3
      <4>4. CASE ~(j = k /\ i = n + 1)
        <5>1. i \in 1..Made(j)
          BY <2>1, <4>4
        <5>2. QED
          BY <4>2, <5>1 DEF Called
      <4>5. QED
        BY <4>3, <4>4
    <3>4. QED
      BY <3>1, <3>2, <3>3
  <2>4. QED
    BY <2>1, <2>2, <2>3 DEF VertexInv
<1>3. CASE ~(ThreadsRunning /\ \E w \in Workers : AddEdge(w))
  <2>1. /\ \A j \in Jobs : Made(j)' = Made(j)
        /\ UNCHANGED <<graph, num_detected>> \/ DetectFile
    BY <1>3, OtherStep
  <2>2. ASSUME NEW key PROVE Called(key)' <=> Called(key)
    BY <1>1, <2>1 DEF Called
  <2>3. CASE UNCHANGED <<graph, num_detected>>
    BY <2>2, <2>3 DEF VertexInv, Detected
  <2>4. CASE DetectFile
    <3> DEFINE path == input_files[num_detected + 1].path
    <3>1. Labels(graph') = Labels(graph) \cup {path}
      BY <2>4, DetectFacts, AddVertexLemma DEF GraphInv, SafetyInv
    <3>2. Detected' = Detected \cup {path}
      BY <2>4, DetectFacts DEF SafetyInv
    <3> HIDE DEF path
    <3>3. QED
      BY <2>2, <3>1, <3>2 DEF VertexInv
  <2>5. QED
    BY <2>1, <2>3, <2>4
<1>4. QED
  BY <1>2, <1>3

LEMMA VertexInvCorrect == GardenerSpec => []VertexInv
<1>1. GardenerInit /\ SafetyInv => VertexInv
  <2> SUFFICES ASSUME GardenerInit, SafetyInv PROVE VertexInv
    OBVIOUS
  <2>1. \A j \in Jobs : Made(j) = 0
    BY DEF GardenerInit, Init, SafetyInv, MadeFacts
  <2>2. Detected = {} /\ Labels(graph) = {}
    BY EmptyGraphLemma DEF GardenerInit, Detected
  <2>3. QED
    BY <2>1, <2>2 DEF VertexInv, Called
<1>2. QED
  BY <1>1, VertexInvStep, SafetyInvCorrect, PTL DEF GardenerSpec

(* The vertexes are the files detected and what the calls made so far      *)
(* name, whichever workers made them and in whatever order.                *)
THEOREM VertexesAreExact == GardenerSpec => []VertexesExact
<1>1. VertexInv => VertexesExact
  <2> SUFFICES ASSUME VertexInv
               PROVE  Labels(graph) = Detected \cup {KeyMade(c) : c \in CallsMade}
    BY DEF VertexesExact
  <2>1. ASSUME NEW key PROVE Called(key) <=> key \in {KeyMade(c) : c \in CallsMade}
    <3>1. ASSUME Called(key) PROVE key \in {KeyMade(c) : c \in CallsMade}
      BY <3>1, CallsMadeAre DEF Called
    <3>2. ASSUME NEW c \in CallsMade, key = KeyMade(c) PROVE Called(key)
      <4>1. PICK j \in Jobs : \E i \in 1..Made(j) : c = <<j, i>>
        BY CallsMadeAre
      <4>2. PICK i \in 1..Made(j) : c = <<j, i>>
        BY <4>1
      <4>3. KeyAt(j, i) = key
        BY <3>2, <4>2, CallsMadeAre
      <4>4. QED
        BY <4>3 DEF Called
    <3>3. QED
      BY <3>1, <3>2
  <2>2. QED
    BY <2>1 DEF VertexInv
<1>2. QED
  BY <1>1, VertexInvCorrect, PTL

(* What a vertex is called.                                                *)
LEMMA NameInvStep ==
  ASSUME SafetyInv, SafetyInv', VertexInv, NameInv, [GardenerNext]_gardenerVars
  PROVE  NameInv'
<1>1. \A j, i : KeyAt(j, i)' = KeyAt(j, i) /\ CallAt(j, i)' = CallAt(j, i)
  BY GraphSteps DEF KeyAt, CallAt, KeyOf
<1>2. ASSUME ThreadsRunning, NEW w \in Workers, AddEdge(w) PROVE NameInv'
  <2>1. PICK k \in Jobs, n \in Nat :
          /\ Made(k) = n /\ Made(k)' = n + 1
          /\ \A j \in Jobs : j # k => Made(j)' = Made(j)
          /\ Labels(graph') = Labels(graph) \cup {KeyAt(k, n + 1)}
          /\ \A key \in Labels(graph) : graph'.vertexes[key] = graph.vertexes[key]
          /\ KeyAt(k, n + 1) \notin Labels(graph) =>
               graph'.vertexes[KeyAt(k, n + 1)].name = CallAt(k, n + 1).statement
    BY <1>2, AddEdgeStep
  <2>2. /\ Detected' = Detected
        /\ \A key, name : DetectedName(key, name)' <=> DetectedName(key, name)
    BY <1>2 DEF AddEdge, Detected, DetectedName
  <2>3. ASSUME NEW key, NEW name, CalledName(key, name) PROVE CalledName(key, name)'
    <3>1. PICK j \in Jobs : \E i \in 1..Made(j) :
                              KeyAt(j, i) = key /\ CallAt(j, i).statement = name
      BY <2>3 DEF CalledName
    <3>2. 1..Made(j) \subseteq 1..Made(j)'
      BY <2>1
    <3>3. QED
      BY <3>1, <3>2, <1>1 DEF CalledName
  <2>4. ASSUME NEW key, NEW name,
               key = KeyAt(k, n + 1), name = CallAt(k, n + 1).statement
        PROVE  CalledName(key, name)'
    <3>1. n + 1 \in 1..Made(k)'
      BY <2>1
    <3>2. QED
      BY <2>4, <3>1, <1>1 DEF CalledName
  <2>5. Detected \subseteq Labels(graph)
    BY DEF SafetyInv, GraphInv
  <2>6. ASSUME NEW key \in Labels(graph'), NEW name, graph'.vertexes[key].name = name
        PROVE  IF key \in Detected' THEN DetectedName(key, name)'
                                    ELSE CalledName(key, name)'
    <3>1. CASE key \in Labels(graph)
      <4>1. IF key \in Detected THEN DetectedName(key, name) ELSE CalledName(key, name)
        BY <2>6, <3>1, <2>1 DEF NameInv
      <4>2. QED
        BY <4>1, <2>2, <2>3
    <3>2. CASE key \notin Labels(graph)
      <4>1. key = KeyAt(k, n + 1) /\ key \notin Detected
        BY <2>1, <2>5, <3>2
      <4>2. name = CallAt(k, n + 1).statement
        BY <2>1, <2>6, <3>2, <4>1
      <4>3. CalledName(key, name)'
        BY <2>4, <4>1, <4>2
      <4>4. QED
        BY <2>2, <4>1, <4>3
    <3>3. QED
      BY <3>1, <3>2
  <2>7. QED
    BY <2>6 DEF NameInv
<1>3. ASSUME UNCHANGED <<graph, num_detected>>, \A j \in Jobs : Made(j)' = Made(j)
      PROVE  NameInv'
  <2>1. /\ Detected' = Detected
        /\ \A key, name : DetectedName(key, name)' <=> DetectedName(key, name)
    BY <1>3 DEF Detected, DetectedName
  <2>2. \A key, name : CalledName(key, name)' <=> CalledName(key, name)
    BY <1>1, <1>3 DEF CalledName
  <2>3. QED
    BY <1>3, <2>1, <2>2 DEF NameInv
<1>4. ASSUME DetectFile, \A j \in Jobs : Made(j) = 0 PROVE NameInv'
  <2>1. PICK k \in Jobs : k = num_detected + 1
    BY <1>4, DetectFacts DEF SafetyInv
  <2>2. input_files[k] \in [path : Paths, name : Names]
    BY GardenerAssumption, ElementOfSeq DEF Jobs
  <2>3. PICK path, name : input_files[k] = [path |-> path, name |-> name]
    BY <2>2
  <2>4. /\ input_files[k].path = path /\ input_files[k].name = name
        /\ Vertex(name, path).name = name
    BY <2>3 DEF Vertex
  <2>5. num_detected \in Nat /\ num_detected' = num_detected + 1
    BY <1>4 DEF DetectFile, SafetyInv, ReportInv
  <2>6. /\ Labels(graph') = Labels(graph) \cup {path}
        /\ \A key \in Labels(graph) : graph'.vertexes[key] = graph.vertexes[key]
        /\ path \notin Labels(graph) => graph'.vertexes[path] = Vertex(name, path)
        /\ Detected' = Detected \cup {path}
    BY <1>4, <2>1, <2>4, DetectFacts, AddVertexLemma DEF GraphInv, SafetyInv
  <2>7. \A key : ~Called(key)
    BY <1>4 DEF Called
  <2>8. Labels(graph) = Detected
    BY <2>7 DEF VertexInv
  <2>9. ASSUME NEW key, NEW nm, DetectedName(key, nm) PROVE DetectedName(key, nm)'
    BY <2>5, <2>9 DEF DetectedName
  <2>10. ASSUME path \notin Detected PROVE DetectedName(path, name)'
    <3>1. \A i \in 1..num_detected : input_files[i].path # path
      BY <2>10 DEF Detected
    <3>2. k \in 1..num_detected' /\ 1..(k - 1) = 1..num_detected
      BY <2>1, <2>5
    <3>3. QED
      BY <2>3, <3>1, <3>2 DEF DetectedName
  <2>11. ASSUME NEW key \in Labels(graph'), NEW nm, graph'.vertexes[key].name = nm
         PROVE  key \in Detected' /\ DetectedName(key, nm)'
    <3>1. CASE key \in Labels(graph)
      <4>1. DetectedName(key, nm)
        BY <2>6, <2>8, <2>11, <3>1 DEF NameInv
      <4>2. QED
        BY <4>1, <2>6, <2>8, <2>9, <3>1
    <3>2. CASE key \notin Labels(graph)
      <4>1. key = path /\ nm = name
        BY <2>4, <2>6, <2>11, <3>2
      <4>2. QED
        BY <4>1, <2>6, <2>8, <2>10, <3>2
    <3>3. QED
      BY <3>1, <3>2
  <2>12. QED
    BY <2>11 DEF NameInv
<1>5. QED
  BY <1>2, <1>3, <1>4, OtherStep

(* Whichever worker is first, the name of a vertex that is no input file   *)
(* is one of the statements that lead to it; an input file's is the name   *)
(* it was found by.                                                        *)
THEOREM NamesAreTheirs == GardenerSpec => []VertexNames
<1>1. GardenerInit => NameInv
  BY EmptyGraphLemma DEF GardenerInit, NameInv
<1>2. VertexInv /\ NameInv => VertexNames
  <2> SUFFICES ASSUME NameInv, NEW key \in Labels(graph), NEW name,
                      name = graph.vertexes[key].name
               PROVE  IF key \in Detected THEN DetectedName(key, name)
                      ELSE \E c \in CallsMade : KeyMade(c) = key /\ CallOf(c).statement = name
    BY DEF VertexNames, DetectedName
  <2>1. CASE key \in Detected
    BY <2>1 DEF NameInv
  <2>2. CASE key \notin Detected
    <3>1. PICK j \in Jobs : \E i \in 1..Made(j) :
                              KeyAt(j, i) = key /\ CallAt(j, i).statement = name
      BY <2>2 DEF NameInv, CalledName
    <3>2. PICK i \in 1..Made(j) : KeyAt(j, i) = key /\ CallAt(j, i).statement = name
      BY <3>1
    <3>3. QED
      BY <2>2, <3>2, CallsMadeAre
  <2>3. QED
    BY <2>1, <2>2
<1>3. QED
  BY <1>1, <1>2, NameInvStep, VertexInvCorrect, SafetyInvCorrect, PTL DEF GardenerSpec

-----------------------------------------------------------------------------
(* The edges, in terms of the calls made: the last layer of the invariant. *)
(*                                                                         *)
(*   OutInv    a file that is one job has the edges of its calls, in order *)
(*   OriginInv every edge comes from a call of its source file             *)
(*   CountInv  as many edges as calls, and each as often as it was asked   *)

PathAt(j) == input_files[j].path

OutInv ==
  \A src \in Detected, j \in Jobs : JobsOf(src) = {j} =>
    /\ Len(graph.out[src]) = Made(j)
    /\ \A i \in 1..Made(j) : graph.out[src][i] = EdgeAt(j, i)

OriginInv ==
  \A src \in Labels(graph) : \A i \in 1..Len(graph.out[src]) :
    \E j \in JobsOf(src) : \E m \in 1..Made(j) : graph.out[src][i] = EdgeAt(j, m)

CallsFrom(src)   == {c \in CallsMade : PathOf(c) = src}
Places(edges, e) == {k \in 1..Len(edges) : edges[k] = e}
Past(src, i)     == {k \in JobsOf(src) : i <= Made(k)}

CountInv ==
  \A src \in Labels(graph) :
    /\ IsFiniteSet(CallsFrom(src))
    /\ Len(graph.out[src]) = Cardinality(CallsFrom(src))
    /\ \A j \in JobsOf(src) : \A i \in 1..Len(report[src]) :
         Cardinality(Places(graph.out[src], EdgeAt(j, i))) = Cardinality(Past(src, i))

EdgeInv == OutInv /\ OriginInv /\ CountInv

-----------------------------------------------------------------------------
(* An edge more at the end of a list.                                      *)
LEMMA AppendFacts ==
  ASSUME NEW edges \in Seq(Edges), NEW e \in Edges
  PROVE  /\ Len(edges) \in Nat /\ Len(Append(edges, e)) = Len(edges) + 1
         /\ \A i \in 1..Len(edges) : Append(edges, e)[i] = edges[i]
         /\ Append(edges, e)[Len(edges) + 1] = e
BY AppendProperties, LenProperties

LEMMA PlacesAppend ==
  ASSUME NEW edges \in Seq(Edges), NEW e \in Edges, NEW d
  PROVE  /\ IsFiniteSet(Places(edges, d)) /\ Cardinality(Places(edges, d)) \in Nat
         /\ Cardinality(Places(Append(edges, e), d))
              = IF d = e THEN Cardinality(Places(edges, d)) + 1
                         ELSE Cardinality(Places(edges, d))
<1>1. IsFiniteSet(Places(edges, d)) /\ Cardinality(Places(edges, d)) \in Nat
  <2>1. IsFiniteSet(1..Len(edges))
    <3>1. Len(edges) \in Int /\ 1 \in Int
      BY AppendFacts
    <3>2. QED
      BY <3>1, FS_Interval
  <2>2. Places(edges, d) \in SUBSET (1..Len(edges))
    BY DEF Places
  <2>3. QED
    BY <2>1, <2>2, FS_Subset, FS_CardinalityType
<1>2. CASE d = e
  <2>1. Places(Append(edges, e), d) = Places(edges, d) \cup {Len(edges) + 1}
    BY <1>2, AppendFacts DEF Places
  <2>2. Len(edges) + 1 \notin Places(edges, d)
    BY AppendFacts DEF Places
  <2>3. QED
    BY <1>1, <1>2, <2>1, <2>2, FS_AddElement
<1>3. CASE d # e
  <2>1. Places(Append(edges, e), d) = Places(edges, d)
    BY <1>3, AppendFacts DEF Places
  <2>2. QED
    BY <1>1, <1>3, <2>1
<1>4. QED
  BY <1>1, <1>2, <1>3

(* Jobs that process one file ask for the same edges, and two lines of a   *)
(* file ask for two different ones.                                        *)
LEMMA EdgeAtFacts ==
  ASSUME ReportInv, NEW j \in Jobs, NEW k \in Jobs, PathAt(j) = PathAt(k)
  PROVE  /\ \A i : EdgeAt(j, i) = EdgeAt(k, i)
         /\ \A i, m \in 1..Len(report[PathAt(k)]) :
              EdgeAt(j, i) = EdgeAt(k, m) => i = m
<1>1. \A i : EdgeAt(j, i) = EdgeAt(k, i)
  BY DEF PathAt, EdgeAt, KeyAt, CallAt
<1> DEFINE r == report[PathAt(k)]
<1>2. r \in Reports
  BY JobFiles DEF ReportInv, PathAt
<1>3. /\ r \in Seq([statement : Names, idx : Idx, line_no : Nat \ {0}])
      /\ \A a, b \in 1..Len(r) : a < b => r[a].line_no < r[b].line_no
  BY <1>2, GardenerAssumption
<1>4. Len(r) \in Nat
  BY <1>3, LenProperties
<1>5. \A i : EdgeAt(k, i).line = r[i].line_no
  BY DEF EdgeAt, CallAt, Edge, PathAt
<1> HIDE DEF r
<1>6. \A i \in 1..Len(r) : r[i].line_no \in Nat
  <2> TAKE i \in 1..Len(r)
  <2> DEFINE S == [statement : Names, idx : Idx, line_no : Nat \ {0}]
  <2>1. r \in Seq(S)
    BY <1>3
  <2> HIDE DEF S
  <2>2. r[i] \in S
    BY <2>1, ElementOfSeq
  <2>3. QED
    BY <2>2 DEF S
<1>7. ASSUME NEW i \in 1..Len(r), NEW m \in 1..Len(r), EdgeAt(j, i) = EdgeAt(k, m)
      PROVE  i = m
  <2>1. r[i].line_no = r[m].line_no
    BY <1>1, <1>5, <1>7
  <2>2. i \in Int /\ m \in Int /\ ~(r[i].line_no < r[m].line_no) /\ ~(r[m].line_no < r[i].line_no)
    BY <1>4, <1>6, <2>1
  <2>3. QED
    BY <1>3, <2>2
<1>8. QED
  BY <1>1, <1>7 DEF r

(* A job's calls are of its file.                                          *)
LEMMA JobsOfFacts ==
  ASSUME NEW src, NEW j \in JobsOf(src)
  PROVE  j \in Jobs /\ PathAt(j) = src
BY DEF JobsOf, PathAt

LEMMA SameEdges ==
  ASSUME report' = report, NEW j, NEW i
  PROVE  EdgeAt(j, i)' = EdgeAt(j, i)
BY DEF EdgeAt, KeyAt, CallAt, KeyOf

-----------------------------------------------------------------------------
(* A call: one edge more at one vertex.                                    *)

(* What the step lemmas below use of AddEdgeStep, with names for the       *)
(* source file p, the label l the edge leads to, and the edge e.           *)
EdgeAdded(k, n, p, l, e) ==
  /\ p = PathAt(k) /\ l = KeyAt(k, n + 1) /\ e = EdgeAt(k, n + 1)
  /\ Made(k) = n /\ Made(k)' = n + 1
  /\ \A j \in Jobs : j # k => Made(j)' = Made(j)
  /\ n + 1 \in 1..Len(report[p])
  /\ p \in Labels(graph) /\ e \in Edges
  /\ \A src \in Labels(graph) : graph.out[src] \in Seq(Edges)
  /\ Labels(graph') = Labels(graph) \cup {l}
  /\ \A src \in Labels(graph) : src # p => graph'.out[src] = graph.out[src]
  /\ graph'.out[p] = Append(graph.out[p], e)
  /\ l \notin Labels(graph) => graph'.out[l] = <<>> /\ JobsOf(l) = {}
  /\ UNCHANGED <<report, num_detected>>

LEMMA EdgeIsAdded ==
  ASSUME SafetyInv, SafetyInv', ThreadsRunning, NEW w \in Workers, AddEdge(w)
  PROVE  \E k \in Jobs, n \in Nat : \E p, l, e : EdgeAdded(k, n, p, l, e)
<1>1. PICK k \in Jobs, n \in Nat :
        /\ Made(k) = n /\ Made(k)' = n + 1
        /\ \A j \in Jobs : j # k => Made(j)' = Made(j)
        /\ PathAt(k) \in Detected
        /\ n + 1 \in 1..Len(report[PathAt(k)])
        /\ EdgeAt(k, n + 1) \in Edges
        /\ Labels(graph') = Labels(graph) \cup {KeyAt(k, n + 1)}
        /\ \A src \in Labels(graph) :
             src # PathAt(k) => graph'.out[src] = graph.out[src]
        /\ graph'.out[PathAt(k)] = Append(graph.out[PathAt(k)], EdgeAt(k, n + 1))
        /\ KeyAt(k, n + 1) \notin Labels(graph) => graph'.out[KeyAt(k, n + 1)] = <<>>
  BY AddEdgeStep DEF PathAt
<1>2. PICK p, l, e : p = PathAt(k) /\ l = KeyAt(k, n + 1) /\ e = EdgeAt(k, n + 1)
  OBVIOUS
<1>3. UNCHANGED <<report, num_detected>>
  BY DEF AddEdge
<1>4. /\ p \in Labels(graph)
      /\ \A src \in Labels(graph) : graph.out[src] \in Seq(Edges)
  BY <1>1, <1>2 DEF SafetyInv, GraphInv, IsGraph
<1>5. n + 1 \in 1..Len(report[p])
  BY <1>1, <1>2
<1>6. l \notin Labels(graph) => JobsOf(l) = {}
  <2>1. Detected \subseteq Labels(graph)
    BY DEF SafetyInv, GraphInv
  <2>2. \A j \in Jobs : input_files[j].path \in Detected
    BY DEF ThreadsRunning, Detected, Jobs
  <2>3. QED
    BY <2>1, <2>2 DEF JobsOf
<1>7. EdgeAdded(k, n, p, l, e)
  BY <1>1, <1>2, <1>3, <1>4, <1>5, <1>6 DEF EdgeAdded
<1>8. QED
  BY <1>7

LEMMA OutInvCall ==
  ASSUME ReportInv, Detected \subseteq Labels(graph), OutInv,
         NEW k \in Jobs, NEW n \in Nat, NEW p, NEW l, NEW e, EdgeAdded(k, n, p, l, e)
  PROVE  OutInv'
<1>1. Detected' = Detected
  BY DEF EdgeAdded, Detected
<1> SUFFICES ASSUME NEW src \in Detected, NEW j \in Jobs, JobsOf(src) = {j}
             PROVE  /\ Len(graph'.out[src]) = Made(j)'
                    /\ \A i \in 1..Made(j)' : graph'.out[src][i] = EdgeAt(j, i)'
  BY <1>1 DEF OutInv, JobsOf
<1>2. \A i : EdgeAt(j, i)' = EdgeAt(j, i)
  BY SameEdges DEF EdgeAdded
<1>3. /\ Len(graph.out[src]) = Made(j)
      /\ \A i \in 1..Made(j) : graph.out[src][i] = EdgeAt(j, i)
  BY DEF OutInv
<1>4. CASE src = p
  <2>1. j = k
    BY <1>4 DEF EdgeAdded, JobsOf, PathAt
  <2>2. graph'.out[src] = Append(graph.out[src], e) /\ e = EdgeAt(k, n + 1)
        /\ graph.out[src] \in Seq(Edges) /\ e \in Edges
    BY <1>4 DEF EdgeAdded
  <2>3. Made(j) = n /\ Made(j)' = n + 1
    BY <2>1 DEF EdgeAdded
  <2>4. Len(graph'.out[src]) = n + 1 /\ graph'.out[src][n + 1] = EdgeAt(k, n + 1)
        /\ \A i \in 1..n : graph'.out[src][i] = graph.out[src][i]
    BY <1>3, <2>2, <2>3, AppendFacts
  <2>5. QED
    BY <1>2, <1>3, <2>1, <2>3, <2>4
<1>5. CASE src # p
  <2>1. j # k
    BY <1>5 DEF EdgeAdded, JobsOf, PathAt
  <2>2. Made(j)' = Made(j) /\ graph'.out[src] = graph.out[src]
    BY <1>5, <2>1 DEF EdgeAdded
  <2>3. QED
    BY <1>2, <1>3, <2>2
<1>6. QED
  BY <1>4, <1>5

LEMMA OriginInvCall ==
  ASSUME OriginInv,
         NEW k \in Jobs, NEW n \in Nat, NEW p, NEW l, NEW e, EdgeAdded(k, n, p, l, e)
  PROVE  OriginInv'
<1> SUFFICES ASSUME NEW src \in Labels(graph'), NEW i \in 1..Len(graph'.out[src])
             PROVE  \E j \in JobsOf(src) : \E m \in 1..Made(j)' :
                      graph'.out[src][i] = EdgeAt(j, m)'
  BY DEF OriginInv, JobsOf
<1>1. \A j, m : EdgeAt(j, m)' = EdgeAt(j, m)
  BY SameEdges DEF EdgeAdded
<1>2. ASSUME src \in Labels(graph), NEW a \in 1..Len(graph.out[src]),
             graph'.out[src][i] = graph.out[src][a]
      PROVE  \E j \in JobsOf(src) : \E m \in 1..Made(j)' :
               graph'.out[src][i] = EdgeAt(j, m)'
  <2>1. PICK j \in JobsOf(src) : \E m \in 1..Made(j) : graph.out[src][a] = EdgeAt(j, m)
    BY <1>2 DEF OriginInv
  <2>2. 1..Made(j) \subseteq 1..Made(j)'
    BY JobsOfFacts DEF EdgeAdded
  <2>3. QED
    BY <1>1, <1>2, <2>1, <2>2
<1>3. CASE src = p
  <2>1. graph'.out[src] = Append(graph.out[src], e) /\ graph.out[src] \in Seq(Edges)
        /\ e \in Edges /\ src \in Labels(graph)
    BY <1>3 DEF EdgeAdded
  <2>2. CASE i \in 1..Len(graph.out[src])
    BY <1>2, <2>1, <2>2, AppendFacts
  <2>3. CASE i = Len(graph.out[src]) + 1
    <3>1. graph'.out[src][i] = e /\ e = EdgeAt(k, n + 1)
      BY <2>1, <2>3, AppendFacts DEF EdgeAdded
    <3>2. k \in JobsOf(src) /\ n + 1 \in 1..Made(k)'
      BY <1>3 DEF EdgeAdded, JobsOf, PathAt
    <3>3. QED
      BY <1>1, <3>1, <3>2
  <2>4. QED
    BY <2>1, <2>2, <2>3, AppendFacts
<1>4. CASE src # p /\ src \in Labels(graph)
  BY <1>2, <1>4 DEF EdgeAdded
<1>5. CASE src \notin Labels(graph)
  <2>1. graph'.out[src] = <<>>
    BY <1>5 DEF EdgeAdded
  <2>2. QED
    BY <2>1, EmptySeq
<1>6. QED
  BY <1>3, <1>4, <1>5

LEMMA CallsFromCall ==
  ASSUME NEW k \in Jobs, NEW n \in Nat, NEW p, NEW l, NEW e, EdgeAdded(k, n, p, l, e),
         NEW src
  PROVE  CallsFrom(src)' = IF src = p THEN CallsFrom(src) \cup {<<k, n + 1>>}
                                      ELSE CallsFrom(src)
<1>1. CallsMade' = CallsMade \cup {<<k, n + 1>>}
  <2>1. \A j \in Jobs : 1..Made(j)' = IF j = k THEN (1..Made(j)) \cup {n + 1} ELSE 1..Made(j)
    <3> TAKE j \in Jobs
    <3>1. CASE j = k
      <4>1. Made(j) = n /\ Made(j)' = n + 1
        BY <3>1 DEF EdgeAdded
      <4>2. 1..(n + 1) = (1..n) \cup {n + 1}
        OBVIOUS
      <4>3. QED
        BY <3>1, <4>1, <4>2
    <3>2. CASE j # k
      BY <3>2 DEF EdgeAdded
    <3>3. QED
      BY <3>1, <3>2
  <2>2. \A j \in Jobs : {j} \X (1..Made(j)') =
          IF j = k THEN ({j} \X (1..Made(j))) \cup {<<k, n + 1>>} ELSE {j} \X (1..Made(j))
    <3>1. \A S, x : {k} \X (S \cup {x}) = ({k} \X S) \cup {<<k, x>>}
      OBVIOUS
    <3>2. 1..Made(k)' = (1..Made(k)) \cup {n + 1}
      BY <2>1
    <3>3. {k} \X (1..Made(k)') = ({k} \X (1..Made(k))) \cup {<<k, n + 1>>}
      BY <3>1, <3>2
    <3>4. QED
      BY <2>1, <3>3
  <2>3. CallsMade' = UNION {{j} \X (1..Made(j)') : j \in Jobs}
    BY DEF CallsMade
  <2>4. QED
    BY <2>2, <2>3 DEF CallsMade
<1>2. PathOf(<<k, n + 1>>) = p
  BY DEF PathOf, EdgeAdded, PathAt
<1>3. CallsFrom(src)' = {c \in CallsMade' : PathOf(c) = src}
  BY DEF CallsFrom, PathOf
<1>4. QED
  BY <1>1, <1>2, <1>3 DEF CallsFrom

LEMMA CountInvCall ==
  ASSUME ReportInv, CountInv, MadeFacts, IInv, Detected \subseteq Labels(graph),
         NEW k \in Jobs, NEW n \in Nat, NEW p, NEW l, NEW e, EdgeAdded(k, n, p, l, e)
  PROVE  CountInv'
<1> DEFINE Counted(src, j, i) ==
             Cardinality(Places(graph.out[src], EdgeAt(j, i))) = Cardinality(Past(src, i))
<1> SUFFICES ASSUME NEW src \in Labels(graph')
             PROVE  /\ IsFiniteSet(CallsFrom(src)')
                    /\ Len(graph'.out[src]) = Cardinality(CallsFrom(src)')
                    /\ \A j \in JobsOf(src) : \A i \in 1..Len(report[src]) :
                         Cardinality(Places(graph'.out[src], EdgeAt(j, i)))
                           = Cardinality(Past(src, i)')
  <2>1. report' = report
    BY DEF EdgeAdded
  <2>2. \A j, i : EdgeAt(j, i)' = EdgeAt(j, i)
    BY <2>1, SameEdges
  <2>3. \A s, j, i : Places(graph.out[s], EdgeAt(j, i))' = Places(graph'.out[s], EdgeAt(j, i))
    BY <2>2 DEF Places
  <2>4. QED
    BY <2>1, <2>3 DEF CountInv, JobsOf
<1>1. \A i : Past(src, i)' = {j \in JobsOf(src) : i <= Made(j)'}
  BY DEF Past, JobsOf
<1>2. CASE src = p
  <2>1. /\ src \in Labels(graph) /\ graph.out[src] \in Seq(Edges) /\ e \in Edges
        /\ graph'.out[src] = Append(graph.out[src], e)
        /\ k \in JobsOf(src) /\ PathAt(k) = src /\ e = EdgeAt(k, n + 1)
        /\ n + 1 \in 1..Len(report[src])
    BY <1>2 DEF EdgeAdded, JobsOf, PathAt
  <2>2. IsFiniteSet(CallsFrom(src)) /\ Len(graph.out[src]) = Cardinality(CallsFrom(src))
    BY <2>1 DEF CountInv
  <2>3. CallsFrom(src)' = CallsFrom(src) \cup {<<k, n + 1>>}
    BY <1>2, CallsFromCall
  <2>4. <<k, n + 1>> \notin CallsFrom(src)
    <3>1. n + 1 \notin 1..Made(k)
      BY DEF EdgeAdded
    <3>2. QED
      BY <3>1 DEF CallsFrom, CallsMade
  <2>5. /\ IsFiniteSet(CallsFrom(src)')
        /\ Cardinality(CallsFrom(src)') = Cardinality(CallsFrom(src)) + 1
    BY <2>2, <2>3, <2>4, FS_AddElement
  <2>6. Len(graph'.out[src]) = Len(graph.out[src]) + 1
    BY <2>1, AppendFacts
  <2>7. ASSUME NEW j \in JobsOf(src), NEW i \in 1..Len(report[src])
        PROVE  Cardinality(Places(graph'.out[src], EdgeAt(j, i))) = Cardinality(Past(src, i)')
    <3>1. j \in Jobs /\ PathAt(j) = PathAt(k)
      BY <2>1, JobsOfFacts
    <3>2. EdgeAt(j, i) = e <=> i = n + 1
      BY <2>1, <3>1, EdgeAtFacts
    <3>3. Cardinality(Places(graph.out[src], EdgeAt(j, i))) = Cardinality(Past(src, i))
      BY <2>1 DEF CountInv
    <3>4. Cardinality(Places(graph'.out[src], EdgeAt(j, i)))
            = IF i = n + 1 THEN Cardinality(Past(src, i)) + 1 ELSE Cardinality(Past(src, i))
      BY <2>1, <3>2, <3>3, PlacesAppend
    <3>5. JobsOf(src) \subseteq Jobs /\ IsFiniteSet(Jobs)
      <4>1. IsFiniteSet(1..NumJobs)
        <5>1. NumJobs \in Int /\ 1 \in Int
          BY DetectorAssumption
        <5>2. QED
          BY <5>1, FS_Interval
      <4>2. QED
        BY <4>1 DEF JobsOf, Jobs
    <3>6. CASE i = n + 1
      <4>1. Past(src, i)' = Past(src, i) \cup {k} /\ k \notin Past(src, i)
        <5>1. Made(k) = n /\ Made(k)' = n + 1 /\ \A a \in Jobs : a # k => Made(a)' = Made(a)
          BY DEF EdgeAdded
        <5>2. QED
          BY <1>1, <2>1, <3>5, <3>6, <5>1 DEF Past
      <4>2. IsFiniteSet(Past(src, i))
        BY <3>5, FS_Subset DEF Past
      <4>3. Cardinality(Past(src, i)') = Cardinality(Past(src, i)) + 1
        BY <4>1, <4>2, FS_AddElement
      <4>4. QED
        BY <3>4, <3>6, <4>3
    <3>7. CASE i # n + 1
      <4>1. \A a \in JobsOf(src) : i <= Made(a)' <=> i <= Made(a)
        <5>1. Made(k) = n /\ Made(k)' = n + 1 /\ \A a \in Jobs : a # k => Made(a)' = Made(a)
          BY DEF EdgeAdded
        <5>2. i \in Nat
          OBVIOUS
        <5>3. QED
          BY <3>5, <3>7, <5>1, <5>2
      <4>2. Past(src, i)' = Past(src, i)
        BY <1>1, <4>1 DEF Past
      <4>3. QED
        BY <3>4, <3>7, <4>2
    <3>8. QED
      BY <3>6, <3>7
  <2>8. QED
    BY <2>2, <2>5, <2>6, <2>7
<1>3. CASE src # p /\ src \in Labels(graph)
  <2>1. graph'.out[src] = graph.out[src] /\ CallsFrom(src)' = CallsFrom(src)
    BY <1>3, CallsFromCall DEF EdgeAdded
  <2>2. ASSUME NEW i PROVE Past(src, i)' = Past(src, i)
    <3>1. \A j \in JobsOf(src) : Made(j)' = Made(j)
      BY <1>3, JobsOfFacts DEF EdgeAdded
    <3>2. QED
      BY <1>1, <3>1 DEF Past
  <2>3. QED
    BY <1>3, <2>1, <2>2 DEF CountInv
<1>4. CASE src \notin Labels(graph)
  <2>1. graph'.out[src] = <<>> /\ JobsOf(src) = {} /\ src # p
    BY <1>4 DEF EdgeAdded
  <2>2. CallsFrom(src) = {}
    BY <2>1, CallsMadeAre DEF CallsFrom, JobsOf
  <2>3. CallsFrom(src)' = {}
    BY <2>1, <2>2, CallsFromCall
  <2>4. Len(<<>>) = 0
    BY EmptySeq
  <2>5. QED
    BY <2>1, <2>3, <2>4, FS_EmptySet
<1>5. QED
  BY <1>2, <1>3, <1>4

-----------------------------------------------------------------------------
(* The other steps: no call, and before the first one no edge.             *)

LEMMA EdgeInvKept ==
  ASSUME EdgeInv, report' = report, UNCHANGED <<graph, num_detected>>,
         \A j \in Jobs : Made(j)' = Made(j)
  PROVE  EdgeInv'
<1>1. \A j, i : EdgeAt(j, i)' = EdgeAt(j, i)
  BY SameEdges
<1>2. /\ Detected' = Detected /\ Labels(graph') = Labels(graph)
      /\ \A src : JobsOf(src) \subseteq Jobs /\ JobsOf(src)' = JobsOf(src)
  BY DEF Detected, JobsOf
<1>3. OutInv'
  BY <1>1, <1>2 DEF EdgeInv, OutInv
<1>4. OriginInv'
  BY <1>1, <1>2 DEF EdgeInv, OriginInv
<1>5. CountInv'
  <2>1. CallsMade' = CallsMade
    BY DEF CallsMade
  <2>2. \A src : CallsFrom(src)' = CallsFrom(src)
    BY <2>1 DEF CallsFrom, PathOf
  <2>3. \A src, i : Past(src, i)' = Past(src, i)
    BY <1>2 DEF Past
  <2>4. \A src, j, i : Places(graph.out[src], EdgeAt(j, i))' = Places(graph.out[src], EdgeAt(j, i))
    BY <1>1 DEF Places
  <2>5. ASSUME NEW src \in Labels(graph')
        PROVE  /\ IsFiniteSet(CallsFrom(src)')
               /\ Len(graph'.out[src]) = Cardinality(CallsFrom(src)')
    BY <1>2, <2>2, <2>5 DEF EdgeInv, CountInv
  <2>6. ASSUME NEW src \in Labels(graph'), NEW j \in JobsOf(src), NEW i \in 1..Len(report[src])
        PROVE  Cardinality(Places(graph.out[src], EdgeAt(j, i))') = Cardinality(Past(src, i)')
    <3>1. Cardinality(Places(graph.out[src], EdgeAt(j, i))) = Cardinality(Past(src, i))
      BY <1>2, <2>6 DEF EdgeInv, CountInv
    <3>2. QED
      BY <3>1, <2>3, <2>4
  <2>7. QED
    BY <1>2, <2>5, <2>6 DEF CountInv
<1>6. QED
  BY <1>3, <1>4, <1>5 DEF EdgeInv

(* While no call is made, every list of edges is empty.                    *)
NoEdges == \A src \in Labels(graph) : graph.out[src] = <<>>

LEMMA NoEdgesYet ==
  ASSUME \A j \in Jobs : Made(j) = 0, NoEdges, Detected \subseteq Labels(graph)
  PROVE  EdgeInv
<1>1. Len(<<>>) = 0 /\ 1..0 = {}
  BY EmptySeq
<1>2. OutInv
  BY <1>1 DEF OutInv, NoEdges
<1>3. OriginInv
  BY <1>1 DEF OriginInv, NoEdges
<1>4. CountInv
  <2>1. \A src : CallsFrom(src) = {}
    BY <1>1, CallsMadeAre DEF CallsFrom
  <2>2. ASSUME NEW src, NEW i \in Nat \ {0} PROVE Past(src, i) = {}
    BY <2>2 DEF Past, JobsOf
  <2>3. \A e : Places(<<>>, e) = {}
    BY <1>1 DEF Places
  <2>4. ASSUME NEW src \in Labels(graph)
        PROVE  /\ IsFiniteSet(CallsFrom(src))
               /\ Len(graph.out[src]) = Cardinality(CallsFrom(src))
    BY <1>1, <2>1, FS_EmptySet DEF NoEdges
  <2>5. ASSUME NEW src \in Labels(graph), NEW j, NEW i \in 1..Len(report[src])
        PROVE  Cardinality(Places(graph.out[src], EdgeAt(j, i))) = Cardinality(Past(src, i))
    <3>1. i \in Nat \ {0}
      OBVIOUS
    <3>2. Past(src, i) = {}
      BY <2>2, <3>1
    <3>3. QED
      BY <2>3, <3>2 DEF NoEdges
  <2>6. QED
    BY <2>4, <2>5 DEF CountInv
<1>5. QED
  BY <1>2, <1>3, <1>4 DEF EdgeInv

LEMMA NoEdgesYetInv ==
  (\A j \in Jobs : Made(j) = 0) /\ NoEdges /\ Detected \subseteq Labels(graph) => EdgeInv
BY NoEdgesYet

LEMMA NoEdgesBefore ==
  ASSUME SafetyInv, \A j \in Jobs : Made(j) = 0, CountInv
  PROVE  NoEdges
<1> SUFFICES ASSUME NEW src \in Labels(graph) PROVE graph.out[src] = <<>>
  BY DEF NoEdges
<1>1. CallsFrom(src) = {}
  BY CallsMadeAre DEF CallsFrom
<1>2. Len(graph.out[src]) = 0
  BY <1>1, FS_EmptySet DEF CountInv
<1>3. graph.out[src] \in Seq(Edges)
  BY DEF SafetyInv, GraphInv, IsGraph
<1>4. QED
  BY <1>2, <1>3, EmptySeq

LEMMA EdgeInvStep ==
  ASSUME SafetyInv, SafetyInv', EdgeInv, [GardenerNext]_gardenerVars
  PROVE  EdgeInv'
<1>1. report' = report
  BY GraphSteps
<1>2. CASE ThreadsRunning /\ \E w \in Workers : AddEdge(w)
  <2>a. PICK k \in Jobs, n \in Nat : \E p, l, e : EdgeAdded(k, n, p, l, e)
    BY <1>2, EdgeIsAdded
  <2>1. PICK p, l, e : EdgeAdded(k, n, p, l, e)
    BY <2>a
  <2>2. ReportInv /\ MadeFacts /\ IInv /\ Detected \subseteq Labels(graph)
    BY DEF SafetyInv, GraphInv
  <2>3. OutInv' /\ OriginInv' /\ CountInv'
    BY <2>1, <2>2, OutInvCall, OriginInvCall, CountInvCall DEF EdgeInv
  <2>4. QED
    BY <2>3 DEF EdgeInv
<1>3. CASE ~(ThreadsRunning /\ \E w \in Workers : AddEdge(w))
  <2>1. /\ \A j \in Jobs : Made(j)' = Made(j)
        /\ \/ UNCHANGED <<graph, num_detected>>
           \/ DetectFile /\ \A j \in Jobs : Made(j) = 0
    BY <1>3, OtherStep
  <2>2. CASE UNCHANGED <<graph, num_detected>>
    BY <1>1, <2>1, <2>2, EdgeInvKept
  <2>3. CASE DetectFile /\ \A j \in Jobs : Made(j) = 0
    <3> DEFINE path == input_files[num_detected + 1].path
    <3>1. /\ Labels(graph') = Labels(graph) \cup {path}
          /\ \A src \in Labels(graph) : graph'.out[src] = graph.out[src]
          /\ path \notin Labels(graph) => graph'.out[path] = <<>>
      BY <2>3, DetectFacts, AddVertexLemma DEF GraphInv, SafetyInv
    <3>2. NoEdges
      BY <2>3, NoEdgesBefore DEF EdgeInv
    <3> HIDE DEF path
    <3>3. NoEdges'
      BY <3>1, <3>2 DEF NoEdges
    <3>4. (\A j \in Jobs : Made(j) = 0)' /\ (Detected \subseteq Labels(graph))'
      BY <2>1, <2>3 DEF SafetyInv, GraphInv, Jobs
    <3>5. QED
      BY <3>3, <3>4, NoEdgesYetInv, PTL
  <2>4. QED
    BY <2>1, <2>2, <2>3
<1>4. QED
  BY <1>2, <1>3

LEMMA EdgeInvCorrect == GardenerSpec => []EdgeInv
<1>1. GardenerInit /\ SafetyInv => EdgeInv
  <2> SUFFICES ASSUME GardenerInit, SafetyInv PROVE EdgeInv
    OBVIOUS
  <2>1. \A j \in Jobs : Made(j) = 0
    BY DEF GardenerInit, Init, SafetyInv, MadeFacts
  <2>2. NoEdges
    BY EmptyGraphLemma DEF GardenerInit, NoEdges
  <2>3. QED
    BY <2>1, <2>2, NoEdgesYet DEF SafetyInv, GraphInv
<1>2. SafetyInv /\ SafetyInv' /\ EdgeInv /\ [GardenerNext]_gardenerVars => EdgeInv'
  BY EdgeInvStep
<1>3. QED
  BY <1>1, <1>2, SafetyInvCorrect, PTL DEF GardenerSpec

-----------------------------------------------------------------------------
(* A file that is one job has exactly the edges of the calls made for it,  *)
(* in the order of its lines, whatever the other workers added in between. *)
THEOREM EdgesInOrder == GardenerSpec => []OutEdgesInFileOrder
<1>1. SafetyInv /\ EdgeInv => OutEdgesInFileOrder
  <2> SUFFICES ASSUME SafetyInv, OutInv, NEW src \in Detected, NEW j \in Jobs,
                      JobsOf(src) = {j}
               PROVE  graph.out[src] = [i \in 1..Made(j) |-> EdgeOf(src, report[src][i])]
    BY DEF OutEdgesInFileOrder, EdgeInv
  <2>1. /\ Len(graph.out[src]) = Made(j)
        /\ \A i \in 1..Made(j) : graph.out[src][i] = EdgeAt(j, i)
    BY DEF OutInv
  <2>2. \A i : EdgeAt(j, i) = EdgeOf(src, report[src][i])
    BY DEF JobsOf, EdgeAt, EdgeOf, KeyAt, CallAt
  <2>3. graph.out[src] \in Seq(Edges)
    BY DEF SafetyInv, GraphInv, IsGraph
  <2>4. graph.out[src] = [i \in 1..Len(graph.out[src]) |-> graph.out[src][i]]
    BY <2>3, LenProperties
  <2>5. QED
    BY <2>1, <2>2, <2>4
<1>2. QED
  BY <1>1, EdgeInvCorrect, SafetyInvCorrect, PTL

(* No edge is lost, added twice or made up, also when a file is submitted  *)
(* more than once and two workers process it at the same time.             *)
THEOREM EdgesAreCounted == GardenerSpec => []EdgesCounted
<1>1. SafetyInv /\ EdgeInv => EdgesCounted
  <2> SUFFICES ASSUME SafetyInv, OriginInv, CountInv, NEW src \in Labels(graph)
               PROVE
    /\ \A i \in 1..Len(graph.out[src]) :
         \E c \in CallsMade : PathOf(c) = src /\ EdgeOf(src, CallOf(c)) = graph.out[src][i]
    /\ Len(graph.out[src]) = Cardinality({c \in CallsMade : PathOf(c) = src})
    /\ \A j \in JobsOf(src) : \A i \in 1..Made(j) :
         Cardinality({k \in 1..Len(graph.out[src]) :
                        graph.out[src][k] = EdgeOf(src, report[src][i])})
           = Cardinality({k \in JobsOf(src) : i <= Made(k)})
    BY DEF EdgesCounted, EdgeInv
  <2>1. \A j \in JobsOf(src) : \A i : EdgeAt(j, i) = EdgeOf(src, report[src][i])
    BY DEF JobsOf, EdgeAt, EdgeOf, KeyAt, CallAt
  <2>2. ASSUME NEW i \in 1..Len(graph.out[src])
        PROVE  \E c \in CallsMade : PathOf(c) = src /\ EdgeOf(src, CallOf(c)) = graph.out[src][i]
    <3>1. PICK j \in JobsOf(src) : \E m \in 1..Made(j) : graph.out[src][i] = EdgeAt(j, m)
      BY DEF OriginInv
    <3>2. PICK m \in 1..Made(j) : graph.out[src][i] = EdgeAt(j, m)
      BY <3>1
    <3>3. j \in Jobs /\ PathAt(j) = src
      BY JobsOfFacts
    <3>4. /\ <<j, m>> \in CallsMade /\ PathOf(<<j, m>>) = src
          /\ CallOf(<<j, m>>) = CallAt(j, m)
      BY <3>3, CallsMadeAre DEF PathAt
    <3>5. EdgeAt(j, m) = EdgeOf(src, CallAt(j, m))
      BY <2>1, <3>3 DEF CallAt, PathAt
    <3>6. QED
      BY <3>2, <3>4, <3>5
  <2>3. Len(graph.out[src]) = Cardinality({c \in CallsMade : PathOf(c) = src})
    BY DEF CountInv, CallsFrom
  <2>4. ASSUME NEW j \in JobsOf(src), NEW i \in 1..Made(j)
        PROVE  Cardinality({k \in 1..Len(graph.out[src]) :
                              graph.out[src][k] = EdgeOf(src, report[src][i])})
                 = Cardinality({k \in JobsOf(src) : i <= Made(k)})
    <3>1. Made(j) \in 0..Len(report[src])
      BY JobsOfFacts, MadeType DEF SafetyInv, PathAt
    <3>2. i \in 1..Len(report[src])
      <4>1. report[src] \in Seq([statement : Names, idx : Idx, line_no : Nat \ {0}])
        <5>1. src \in InputPaths
          BY JobsOfFacts, JobFiles DEF PathAt
        <5>2. report[src] \in Reports
          BY <5>1 DEF SafetyInv, ReportInv
        <5>3. QED
          BY <5>2, GardenerAssumption
      <4>2. Len(report[src]) \in Nat
        BY <4>1, LenProperties
      <4>3. QED
        BY <3>1, <4>2
    <3>3. Cardinality(Places(graph.out[src], EdgeAt(j, i))) = Cardinality(Past(src, i))
      BY <3>2 DEF CountInv
    <3>4. QED
      BY <2>1, <3>3 DEF Places, Past
  <2>5. QED
    BY <2>2, <2>3, <2>4
<1>2. QED
  BY <1>1, EdgeInvCorrect, SafetyInvCorrect, PTL
=============================================================================
