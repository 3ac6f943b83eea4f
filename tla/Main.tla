-------------------------------- MODULE Main --------------------------------
(***************************************************************************)
(* The life of the program (src/main.cpp): main parses the command line,   *)
(* finds the files, constructs the Statement_Detector, which starts its    *)
(* threads one by one, submits the files, waits for the workers, writes    *)
(* the graph and returns -- or something goes wrong on the way.            *)
(*                                                                         *)
(* main catches every exception of its own thread and exits with -1.  But  *)
(* the Statement_Detector has no destructor that joins its threads, and    *)
(* do_work catches nothing, so an exception behaves differently when       *)
(* threads are running:                                                    *)
(*   - in main (starting the next thread or submitting a file fails), the  *)
(*     members of the detector are destroyed while its threads run:        *)
(*     joinable threads make ~thread call std::terminate, and before that  *)
(*     the condition variable is destroyed, which is undefined behaviour   *)
(*     while a thread waits on it: the program may be stuck there;         *)
(*   - in a worker (canonical() for a file that has vanished, a regex that *)
(*     gets too complex), std::terminate is called at once.                *)
(***************************************************************************)
EXTENDS Options

CONSTANTS
  CommandLines,     (* a set of command lines                               *)
  MaxFiles,         (* bound: how many input files there may be             *)
  MaxThreads,       (* bound: how many threads the lines may ask for        *)
  MainThread, NoThread

ASSUME MainAssumption ==
  /\ MaxFiles \in Nat /\ MaxThreads \in Nat \ {0}
  /\ \A line \in CommandLines :
       /\ \A i \in 1..Len(line) : Number(line[i].value) \in Int \cup {BadNumber}
       /\ init_options(line) = "accepted" => options(line).n_threads <= MaxThreads

VARIABLES
  command_line,     (* argc, argv                                           *)
  out_file_opens,   (* can the file of -o be opened for writing?            *)
  phase,            (* where main is, or how the program has ended          *)
  opts,             (* struct Options                                       *)
  num_files,        (* how many files get() has found                       *)
  num_started,      (* how many threads the constructor has started         *)
  output,           (* what has been written                                *)
  (* the Statement_Detector's; no step touches them before its constructor  *)
  job_queue, all_work_done, job_queue_mutex, worker_pc, entry, main_pc,
  next_job, processed

detectorVars == <<job_queue, all_work_done, job_queue_mutex, worker_pc, entry,
                  main_pc, next_job, processed>>
environment  == <<command_line, out_file_opens>>
programVars  == <<phase, opts, num_files, num_started, output>>
mainVars     == <<environment, programVars, detectorVars>>

(* A detector with n threads for k files.                                  *)
Detector(n, k) == INSTANCE Statement_Detector
                  WITH Workers <- 1..n, NumJobs <- k

Nothing == [to |-> "", format |-> "", search |-> <<>>, jobs |-> {}]

(* Memory in which no detector has been constructed: the flag is a plain   *)
(* bool, which may have either value there.                                *)
NoDetector ==
  /\ all_work_done \in BOOLEAN
  /\ job_queue = <<>> /\ job_queue_mutex = NoThread
  /\ worker_pc = <<>> /\ entry = <<>>
  /\ main_pc = "add" /\ next_job = 1 /\ processed = {}

Defaults == options(<<>>)

Init ==
  /\ command_line \in CommandLines
  /\ out_file_opens \in BOOLEAN
  /\ phase = "options"
  /\ opts = Defaults
  /\ num_files = 0
  /\ num_started = 0
  /\ output = Nothing
  /\ NoDetector

Goto(p) == phase' = p

-----------------------------------------------------------------------------
(* Up to the constructor of the detector.                                  *)

(* "version" and "help" exit with 0; the rest of what is not accepted ends *)
(* in exit(-1) or in main's return -1.                                     *)
InitOptions ==
  /\ phase = "options"
  /\ LET outcome == init_options(command_line)
     IN  /\ Goto(CASE outcome = "accepted"            -> "get"
                   [] outcome \in {"version", "help"} -> "success"
                   [] OTHER                           -> "failure")
         /\ opts' = IF outcome = "accepted" THEN options(command_line) ELSE opts
  /\ UNCHANGED <<environment, num_files, num_started, output, detectorVars>>

(* File_Detector finds the files ...                                       *)
GetFiles ==
  /\ phase = "get"
  /\ num_files' \in 0..MaxFiles
  /\ Goto("construct")
  /\ UNCHANGED <<environment, opts, num_started, output, detectorVars>>

(* ... or throws, for a bad -e or a directory entry it cannot read.        *)
GetFilesThrows ==
  /\ phase = "get"
  /\ Goto("failure")
  /\ UNCHANGED <<environment, opts, num_files, num_started, output, detectorVars>>

(* Broken: all_work_done is left as it was in memory.                      *)
ConstructDetectorFlagUnset ==
  /\ phase = "construct"
  /\ opts.n_threads >= 0
  /\ Goto("threads")
  /\ worker_pc' = [w \in 1..opts.n_threads |-> "lock"]
  /\ entry' = [w \in 1..opts.n_threads |-> 0]
  /\ main_pc' = IF num_files = 0 THEN "wait" ELSE "add"
  /\ UNCHANGED <<environment, opts, num_files, num_started, output, job_queue,
                 all_work_done, job_queue_mutex, next_job, processed>>

(* The members of the detector are initialised before a thread is started: *)
(* an empty queue, a free mutex, the flag, and a vector of n_threads       *)
(* threads, none of them started.                                          *)
ConstructDetector ==
  /\ phase = "construct"
  /\ opts.n_threads >= 0
  /\ Goto("threads")
  /\ job_queue' = <<>> /\ all_work_done' = FALSE /\ job_queue_mutex' = NoThread
  /\ worker_pc' = [w \in 1..opts.n_threads |-> "lock"]
  /\ entry' = [w \in 1..opts.n_threads |-> 0]
  /\ main_pc' = IF num_files = 0 THEN "wait" ELSE "add"
  /\ next_job' = 1 /\ processed' = {}
  /\ UNCHANGED <<environment, opts, num_files, num_started, output>>

(* A vector of a negative size throws length_error.                        *)
ConstructDetectorThrows ==
  /\ phase = "construct"
  /\ opts.n_threads < 0
  /\ Goto("failure")
  /\ UNCHANGED <<environment, opts, num_files, num_started, output, detectorVars>>

-----------------------------------------------------------------------------
(* The loop of the constructor: the threads that are started run already.  *)

(* Broken: one thread more than the vector has.                            *)
StartThreadOneMore ==
  /\ phase = "threads" /\ num_started <= opts.n_threads
  /\ num_started' = num_started + 1
  /\ UNCHANGED <<environment, phase, opts, num_files, output, detectorVars>>

StartThread ==
  /\ phase = "threads" /\ num_started < opts.n_threads
  /\ num_started' = num_started + 1
  /\ UNCHANGED <<environment, phase, opts, num_files, output, detectorVars>>

ThreadsStarted ==
  /\ phase = "threads" /\ num_started = opts.n_threads
  /\ Goto("detector")
  /\ UNCHANGED <<environment, opts, num_files, num_started, output, detectorVars>>

(* Where an exception in main leads.                                       *)
ThrowInMain == Goto(IF num_started = 0 THEN "failure" ELSE "unwinding")

(* Broken: main exits as if there were no threads.                         *)
StartThreadThrowsExit ==
  /\ phase = "threads" /\ num_started < opts.n_threads
  /\ Goto("failure")
  /\ UNCHANGED <<environment, opts, num_files, num_started, output, detectorVars>>

(* std::thread's constructor throws system_error.                          *)
StartThreadThrows ==
  /\ phase = "threads" /\ num_started < opts.n_threads
  /\ ThrowInMain
  /\ UNCHANGED <<environment, opts, num_files, num_started, output, detectorVars>>

-----------------------------------------------------------------------------
(* While there is a detector.                                              *)

HasDetector == phase \in {"threads", "detector", "unwinding"}

(* add_job and wait_for_workers                                            *)
DetectorMain ==
  /\ phase = "detector"
  /\ \E n \in 0..MaxThreads, k \in 0..MaxFiles :
       n = opts.n_threads /\ k = num_files /\ Detector(n, k)!MainStep
  /\ UNCHANGED <<environment, programVars>>

(* do_work of a thread that has been started                               *)
DetectorWorker(w) ==
  /\ HasDetector /\ w <= num_started
  /\ \E n \in 1..MaxThreads, k \in 0..MaxFiles :
       n = opts.n_threads /\ k = num_files /\ Detector(n, k)!WorkerStep(w)
  /\ UNCHANGED <<environment, programVars>>

SpuriousWakeup ==
  /\ HasDetector
  /\ \E n \in 0..MaxThreads, k \in 0..MaxFiles :
       n = opts.n_threads /\ k = num_files /\ Detector(n, k)!SpuriousWakeup
  /\ UNCHANGED <<environment, programVars>>

(* push_front throws: the lock is released, and main gives up.             *)
AddJobThrows ==
  /\ phase = "detector" /\ main_pc = "push"
  /\ ThrowInMain
  /\ job_queue_mutex' = NoThread
  /\ UNCHANGED <<environment, opts, num_files, num_started, output, job_queue,
                 all_work_done, worker_pc, entry, main_pc, next_job, processed>>

(* An exception leaves the function of a thread: std::terminate.           *)
ProcessThrows(w) ==
  /\ HasDetector /\ w <= num_started
  /\ worker_pc[w] = "process"
  /\ Goto("aborted")
  /\ UNCHANGED <<environment, opts, num_files, num_started, output, detectorVars>>

-----------------------------------------------------------------------------
(* The destructor of the detector, with threads that can be joined.  Until *)
(* ~thread calls std::terminate they go on, on members that may be gone;   *)
(* that this may end the program earlier changes nothing here.             *)

DestroyThreads ==
  /\ phase = "unwinding"
  /\ Goto("aborted")
  /\ UNCHANGED <<environment, opts, num_files, num_started, output, detectorVars>>

(* The condition variable is destroyed before: not with a thread in wait().*)
DestroyCondition ==
  /\ phase = "unwinding"
  /\ \E w \in 1..num_started : worker_pc[w] = "blocked"
  /\ Goto("hung")
  /\ UNCHANGED <<environment, opts, num_files, num_started, output, detectorVars>>

-----------------------------------------------------------------------------
(* The end of main: a file that does not open, and a format that is empty, *)
(* are written to without an error.                                        *)

Opened == opts.out_file = "" \/ out_file_opens

WriteGraph ==
  /\ phase = "detector" /\ main_pc = "joined"
  /\ output' = IF Opened /\ opts.format \in Formats
               THEN [to |-> opts.out_file, format |-> opts.format,
                     search |-> opts.include_paths, jobs |-> processed]
               ELSE output
  /\ Goto("success")
  /\ UNCHANGED <<environment, opts, num_files, num_started, detectorVars>>

MainStep ==
  \/ InitOptions \/ GetFiles \/ ConstructDetector \/ ConstructDetectorThrows
  \/ StartThread \/ ThreadsStarted \/ DetectorMain \/ WriteGraph \/ DestroyThreads

Fault ==
  \/ GetFilesThrows \/ StartThreadThrows \/ AddJobThrows \/ DestroyCondition
  \/ \E w \in 1..MaxThreads : ProcessThrows(w)

Next ==
  MainStep \/ (\E w \in 1..MaxThreads : DetectorWorker(w)) \/ SpuriousWakeup \/ Fault

Spec == Init /\ [][Next]_mainVars

(* As in Statement_Detector; what goes wrong need not go wrong.            *)
Fairness ==
  /\ WF_mainVars(MainStep)
  /\ \A w \in 1..MaxThreads : WF_mainVars(DetectorWorker(w))
  /\ <>[][~SpuriousWakeup]_mainVars

FairSpec == Spec /\ Fairness

-----------------------------------------------------------------------------
(* Properties                                                              *)

Phases == {"options", "get", "construct", "threads", "detector", "unwinding",
           "success", "failure", "aborted", "hung"}

(* Every variable of the program has its type, the detector's included.    *)
TypeOK ==
  /\ phase \in Phases
  /\ opts.n_threads <= MaxThreads
  /\ num_files \in 0..MaxFiles
  /\ num_started \in 0..MaxThreads
  /\ output.jobs \subseteq 1..num_files
  /\ HasDetector =>
       /\ num_started <= opts.n_threads
       /\ \E n \in 0..MaxThreads, k \in 0..MaxFiles :
            n = opts.n_threads /\ k = num_files /\ Detector(n, k)!TypeOK

(* An exit status of 0 means that the version or the help was shown, or    *)
(* that the graph of all files was written -- unless the output file could *)
(* not be opened, or the format is the empty one.                          *)
SuccessIsComplete ==
  phase = "success" =>
    \/ Given(command_line, "version") \/ Given(command_line, "help")
    \/ output.jobs = 1..num_files /\ output # Nothing
    \/ ~out_file_opens /\ Given(command_line, "out-file")
    \/ \E i \in 1..Len(command_line) :
         command_line[i].opt = "format" /\ command_line[i].value = ""

(* exit() and the end of main run the destructors of static objects: no    *)
(* thread of the program may be alive then.                                *)
NoThreadOutlivesMain ==
  phase \in {"success", "failure"} =>
    \A w \in 1..num_started : worker_pc[w] = "returned"

(* The graph is written in the format and to the file that the command     *)
(* line names, was made with the include paths of the line, in its order,  *)
(* under whatever name they are given, and by as many threads as it asks   *)
(* for, or by one.                                                         *)
OutputAsAsked ==
  output # Nothing =>
    /\ \A i \in 1..Len(command_line) :
         LET arg == command_line[i]
         IN  /\ arg.opt = "threads"  => num_started = Number(arg.value)
             /\ arg.opt = "format"   => output.format = arg.value
             /\ arg.opt = "out-file" => output.to = arg.value
    /\ ~Given(command_line, "threads")  => num_started = 1
    /\ ~Given(command_line, "format")   => output.format = "dot"
    /\ ~Given(command_line, "out-file") => output.to = ""
    /\ output.search =
         Values(command_line, {"I", "c-include-path", "ruby-include-path"})

(* Statement_Detector is about a detector with all its threads there; here *)
(* they are started one by one and run already, on members that have just  *)
(* been initialised, and a fault may end the program, or unwind main, at   *)
(* any step.  Even so no job is lost, taken twice or abandoned and no      *)
(* wake-up is lost; and while threads are being started, those that run    *)
(* take nothing and stay: they wait for what main will submit.             *)
DetectorSafe ==
  HasDetector =>
    /\ \E n \in 0..MaxThreads, k \in 0..MaxFiles :
         /\ n = opts.n_threads /\ k = num_files
         /\ Detector(n, k)!EachJobOnce
         /\ Detector(n, k)!NoJobAbandoned
         /\ Detector(n, k)!NoLostWakeup
         /\ Detector(n, k)!JoinedAfterAllJobs
    /\ phase = "threads" =>
         /\ processed = {}
         /\ \A w \in 1..num_started : worker_pc[w] \in {"lock", "check", "blocked"}
    /\ \A w \in DOMAIN worker_pc :
         w > num_started => worker_pc[w] = "lock" /\ entry[w] = 0

(* The program ends, whatever goes wrong -- except that it may be stuck in *)
(* the destructor of the condition variable.                               *)
Ends == <>(phase \in {"success", "failure", "aborted", "hung"})

(* "Finally, write the graph somewhere to a file or cout."                 *)
(* (src/main.cpp:96): a program that succeeds, and was not asked for its   *)
(* version or for help, has written a graph.                               *)
SuccessMeansGraph ==
  phase = "success" =>
    \/ Given(command_line, "version") \/ Given(command_line, "help")
    \/ output # Nothing
=============================================================================
