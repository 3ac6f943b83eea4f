# A formal model of Include Gardener

Include Gardener finds the source files below some directories, searches each
of them for include / import / require statements, resolves the statements to
files, and writes the resulting graph. This directory holds TLA+ models of that
program, the TLC configurations that check them on small instances, and proofs
that TLAPS checks for instances of any size. `PROJECT.json` is the index: it
maps every definition to the lines it models, and lists runs, mutants, findings,
hazards and theorems.

## 1. The system

### Components, their state and their operations

| component | state | operations |
|---|---|---|
| `main` (`src/main.cpp`) | the options, the solver, the list of input files | `init_options`; `File_Detector::get`; start the detector; `add_job` per file; `wait_for_workers`; `write_graph`; catch every exception of its own thread |
| the options (`init_options`, and `add_options` / `extract_options` of the solvers) | `struct Options`, `include_paths`, `process_path` | two parses of the command line, the second with the options of the language |
| `File_Detector` (`src/file_detector.cpp`) | `files`, the options `-P -e -L` | `get`, `walk_tree` (recursive), `use_file`, `exclude_check` |
| `Statement_Detector`, the job queue (`src/statement_detector.cpp`) | `job_queue`, `all_work_done`, `job_queue_mutex`, `job_queue_condition`, the worker threads | constructor, `add_job`, `do_work`, `wait_for_workers` |
| `Statement_Detector`, the line reader | the locals of `process_stream` | `process_stream`, `detect` |
| `Solver` (`src/solver.cpp`, `inc/solver.h`, `inc/graph.h`, `inc/vertex.h`) | `graph`, `vertexes`, `graph_mutex` | `add_vertex`, `get_solver`, `write_graph` |
| `Solver_C`, `Solver_Rb` | `include_paths` | `add_edge`, `insert_edge`, the options and regexes |
| `Solver_Py`, `Statement_Py` | `process_path`; the parts of one statement | `add_edge`, `add_edges`, `insert_edge`; classify, split and normalise a statement |
| `Input_Files` (`inc/input_files.h`) | the list `files` | `get` (abstract; `File_Detector`'s is the only one), `begin`, `end` |
| `Vertex`, `init_regex_vector` | values | accessors; drop the empty texts |

### How they interact

`main` runs `File_Detector::get`, which calls `Solver::add_vertex` for every
file it lists, before any other thread exists. The constructor of
`Statement_Detector` starts the workers. `main` then pushes one job per file
(`push_front`), the workers pop them (`back`, `pop_back`), and both sides wait
on one condition variable with different predicates. A worker runs
`process_stream` on its file without the queue's mutex and calls
`Solver::add_edge` for every statement; `add_edge` takes `graph_mutex`, looks for
the file, adds a vertex and an edge. `main` waits for the queue to be empty, sets
`all_work_done`, joins the workers and writes the graph, again without a lock.

### What is hard

* Concurrency: notifications sent after the mutex was released, a flag that is
  tested before the queue, two predicates on one condition variable, spurious
  wake-ups, and the moment between "the queue is empty" and "the last file has
  been processed".
* Shared state without a lock: `add_vertex` in `get`, and `write_graph`. Only the
  order of the phases makes it right.
* State that survives from one line to the next in `process_stream`.
* A file system with links, cycles, dangling links and directories that may not
  be listed.
* Exceptions while threads are running: nothing joins them, nothing in `do_work`
  catches, and the detector's constructor may throw with some of them started.
* One file under several names: two `-P` paths, links, two spellings of an
  include. What is one vertex, and how often is an edge there?

The list of hazards in `PROJECT.json` names the line where each of them bites and
the properties that cover it.

### What makes each component correct

* job queue: each file is processed exactly once, in order; no wake-up is lost;
  `wait_for_workers` returns, and only when all files are done;
* line reader: one `add_edge` call per statement, with its text, regex and line;
* file detector: exactly the files reachable within the limit, each with a vertex;
* solver: every edge joins two vertices, nothing is lost or doubled by the
  interleaving of the workers, and each edge leads where the language's search
  rule says;
* the program: the written graph holds everything, and it is written eventually;
  if something goes wrong, the exit status says so and the program ends.

## 2. The modules

| module | models | extends / composes |
|---|---|---|
| `JobPool` | what the detector promises its caller, without threads | |
| `Statement_Detector` | the job queue, the workers, and `main` as their client | refines `JobPool` |
| `Statement_Detector_Proofs` | theorems about it | |
| `Process_Stream` | `process_stream` and `detect` on one file | |
| `Process_Stream_Proofs` | theorems about it | |
| `Input_Files` | what the abstract class asks of `get` | |
| `File_Detector` | `get` and `walk_tree` | extends `Solver`; refines `Input_Files` |
| `File_Detector_Proofs` | theorems about it | |
| `Solver` | the graph as a value: `add_vertex`, `insert_edge` | |
| `Solver_Proofs` | lemmas: what these operators change and what they keep | |
| `Search_Path` | the loop over the include paths | extends `Solver` |
| `Solver_C`, `Solver_Rb` | where `add_edge` finds the file a statement names | extend `Search_Path` |
| `Statement_Py` | what an import statement of Python is turned into, and what it means | |
| `Solver_Py` | `add_edge`, `add_edges`, `insert_edge`, called by concurrent workers | extends `Solver` and `Statement_Py` |
| `Solver_Py_Proofs` | theorems about both | uses `Solver_Proofs` |
| `Include_Gardener` | the whole program | extends `Statement_Detector` and `Solver`; refines `Statement_Detector` |
| `Include_Gardener_Proofs` | theorems about it | uses those about `Statement_Detector` |
| `Gardener_Search` | where its edges should lead, for a rule that is a parameter | extends `Include_Gardener` |
| `Gardener_C`, `Gardener_Rb` | the program with the solver, and the rule, of one language | compose `Gardener_Search` with `Solver_C`, `Solver_Rb` |
| `Gardener_Search_Proofs` | theorems about both | uses those about `Include_Gardener` |
| `Options` | `init_options` and the options of the three languages | |
| `Main` | the life of the program from the command line to its exit, with its faults | extends `Options`; composes with `Statement_Detector`, whose promises it keeps |
| `Main_Proofs` | theorems about it | |
| `MCProcess_Stream`, `MCFile_Detector`, `MCGardener_C`, `MCGardener_Rb`, `MCSolver_Py`, `MCMain` | instances for TLC | |

Operators whose comment begins with "Broken:" are mutants: a plausible mistake
in the definition below them, used to show that a property can fail.

### Statement_Detector

A step is one critical section of `job_queue_mutex`, or one call between two of
them; that is the granularity at which the threads can interfere. `worker_pc` and
`main_pc` say where a thread is:

| label | the thread is about to |
|---|---|
| `lock` | take the mutex, at the start of the loop or after a wake-up |
| `check` | evaluate the predicate and go on, holding the mutex |
| `blocked` | nothing: it is in `wait()` |
| `notify` | call `notify_all`, the mutex released, the job in hand |
| `process` | run `process_stream` |
| `add`, `push` | `add_job`: lock; push and notify under the lock |
| `wait`, `wait_check`, `wait_blocked`, `notify_empty` | first half of `wait_for_workers` |
| `done`, `set_done`, `notify_done`, `join`, `joined` | second half |

`wait()` releases the mutex and blocks in one step, as the standard requires, and
may return spuriously. `notify_all` moves every blocked thread to the point where
it competes for the mutex. `processed` is a history variable. The job number of
a file is its position in `input_files`.

### Process_Stream

One action per branch of the loop, and `EndOfStream` for the code after it. A
line is a piece of text and whether a backslash follows; texts are sequences of
pieces, so joining lines is concatenation. What `regex_search` finds is the
parameter `RegexSearch`. `statement` is the local optional that lives outside the
loop. `EmptyLineStale` and `EmptyLineUndefined` are the branch that tests one
`detect` result and uses another; when the optional is disengaged, the outcome of
the undefined read is either a crash or a call with any string and number.

The properties compare the calls made with a definition by lines:
`LogicalText(k)` is the text of the logical line that line `k` completes.

### File_Detector

`stack` is the recursion of `walk_tree`. The file system, the process paths and
the limit are chosen at the start and stay the same. An entry is a file, a
directory, a directory that may not be listed (`locked`), something else, or one
that cannot be resolved; all may be behind links. A `locked` directory makes the
recursive call throw, so it does no harm where the limit forbids that call. `use_file` consists of `exclude_check`, on what `init_regex_vector`
leaves of the `-e` texts, and the language's file regex. `FindsWhatIsReachable`
compares the walk with `Wanted`, which is defined level by level. `Input_Files`
is what the base class promises to `main`: the list grows at its end only, every
file on it is known to the solver from that moment on, and `get` ends.

### Solver, Search_Path, Solver_C, Solver_Rb

The graph is a record of two functions with the same domain. A label that
`add_edge_by_label` does not know makes the graph `undefined`, and so does a data
race on it (`Raced`). `resolve` is the
part of `add_edge` that looks for a file, as a function of the source, the
statement and the regex index; `Lookup(dir, statement)` stands for
`exists` and `canonical` of `dir / statement`. `insert_edge` is the same code in
`Solver_C` and `Solver_Rb`.

### Statement_Py, Solver_Py

A text is a sequence of tokens: identifiers, dots, commas, blanks, quotation
marks, `*`, `as`, `import`. That is as fine as the code looks at it, and every
helper of `Statement_Py` (find, erase, split, the two regexes for leading dots)
is an operator on such sequences. `Single` is the constructor for a statement
without a comma, `child_statements` what it does with a comma. The second half of
the module is a definition that does not come from the code's steps: the import
statements of Python as records, their text, and the items that each imports
(`Meant`).

In `Solver_Py` a worker has a stack of `add_edge` calls to make (`pending`).
`Split` replaces a list by its children, without a lock; `AddEdgeLock` and
`AddEdge` are the critical section of a statement that is no list. The variable
`graph_mutex` is the set of workers inside that section, one or none in the code;
if there were two, as with `AddEdgeUnlocked`, both would work on the graph at once,
and `AddEdge` makes that the data race it is. Which job a
worker takes is left open, so every order of the job queue is included.
`Targets` and `Alone` tabulate, for each file and each thing it may hold, where
its calls lead and which edges one worker alone would add.

`insert_edge` takes an edge for a duplicate if it leads to a vertex labelled with
the *name* of the destination, too. `NameTaken` is that case: an earlier line of
the file has an edge to another vertex, whose label is that name. `NothingLost`,
`FirstLineWins` and `ImportsAsMeant` ask for the edge to the very vertex that the
call leads to, and except this case; `SkippedIfThere` does not except it, and is
violated (findings 2 and 3).

### Include_Gardener

`DetectFile` is the part of `get` that touches the graph. The step `Process` of
`Statement_Detector` is replaced by `AddEdgeLock` and `AddEdge` for each statement
of the file (what the file holds is chosen at the start, in `report`) and
`FinishFile`. As in `Solver_Py`, `graph_mutex` is the set of workers in the
critical section, and two of them there would be a data race, as would be a
worker there while main is in `WriteGraph`. All other steps are those of `Statement_Detector`. `WriteGraph`
records the graph at the moment it is written.

`CallsMade` is the set of `add_edge` calls that have returned, derived from where
the workers are. The graph properties say what the graph is in terms of it.

### Options, Main

A command line is a sequence of options with values, `init_options(line)` the
outcome: accepted, or the reason why the program ends. The order of the tests is
that of the code, and so is the order of the two parses: a value the first one
stored is final. Abbreviations of option names, which Boost also accepts, are
left out.

`Main` has a variable `phase` for where `main` is, and the variables of
`Statement_Detector`, of which it uses the instance with `n_threads` workers and
`num_files` jobs. The constructor's loop is a phase of its own (`threads`), in
which the threads already started run. Before it, the flag `all_work_done` has
either value, like any memory that was not written. `DetectorSafe` says of the
detector, started that way and with faults around it, what `Statement_Detector`
says of one whose threads are all there. `Fault` is what may go wrong: `get` throws,
a thread cannot be started, `push_front` throws in `add_job`, processing a file
throws in a worker. Where main catches, the program ends with a failure; in a
worker, or in main when threads are running, `std::terminate` ends it
(`aborted`), or it is stuck for ever in the destructor of a condition variable
that a thread waits on (`hung`): that is undefined behaviour, and common
implementations wait there.

## 3. The runs

| run | instance | checks | result |
|---|---|---|---|
| `detector` | 3 workers, 4 files | 6 invariants, refinement of `JobPool` with its liveness | holds |
| `stream` | every file of at most 4 lines out of 12 different ones, 2 regexes | 5 invariants | holds |
| `stream_empty_line` | 3 lines | `EmptyLineProcessesStatement` | violated, finding 1 |
| `files` | every file system of two directories with at most two of 8 and 6 entries, two lists of process paths, limits -1, 0, 1 | 3 invariants, refinement of `Input_Files` with its liveness | holds |
| `gardener_c` | C, 2 workers, 3 jobs, two of them the same file; five kinds of content | 8 invariants, `GraphGrows` | holds |
| `gardener_rb` | Ruby, 2 workers, 2 files | `EdgesFollowSearchList`, `GraphIsWritten`, refinement of `Statement_Detector` with its fairness | holds |
| `gardener_names` | C, 2 workers, 2 files | `NamesIndependentOfThreads` | violated, finding 4 |
| `python` | 2 workers, 2 files, one of them submitted twice, four kinds of content each | 5 invariants, `AllFilesDone` | holds |
| `python_same_edge` | one job each for a file of a package and one of another directory; a name from outside the project before one of the project, and an empty `__all__` | `SkippedIfThere` | violated, findings 2 and 3 |
| `python_lists` | the instance of `python` with lists behind dots and with `as` | `ListsAsMeant` | violated, finding 5 |
| `main` | 353 command lines, up to 3 threads and 3 files, every fault | 5 invariants, `Ends` | holds |
| `main_output` | the same | `SuccessMeansGraph` | violated, finding 6 |

Every property of a passing run has a mutant in `PROJECT.json` that it rejects.

### Bounds, and why they are enough

* Three workers: one that takes a job, one that blocks and one that returns can
  be at their steps at the same time, next to main. Four files: more than
  workers, so that workers come back for more, and the queue gets empty and fills
  again. The proofs cover every other number.
* Four lines: two continued lines, the line that completes them, and one before
  or after; twelve lines are every combination of six pieces (empty, two whole
  statements, the two halves of one, and other text) with and without a
  backslash. The proofs cover every other file.
* Two directories and links between them give every shape that the walk
  distinguishes: a sub-directory, a cycle, the same file twice. `MaxLinks` is 2
  (the system allows 40), so that a cycle with an unlimited walk ends.
* Two workers, three jobs and files with two statements: two workers in `add_edge`
  for different files, for the same file, and with the same destination. The
  contents include a file found under two spellings, one found on two search
  paths, one included twice, one that does not exist, and one named by its whole
  path.
* Python: the contents have every form of import (single, list, `as`, `from`,
  `from *`, `__all__`, one and two dots), an import from outside the project
  before one of the same name inside, and a package with the name of a `.pyw`
  file. A list of three, and a file processed by two workers while a third job is
  open, let every step of one worker come between two children of another's list.
* Command lines: all of at most two arguments, which have every option, every
  outcome and every pair of options that meet, and ten longer ones for what
  takes three. Three threads and three files: a fault with one thread not
  started, one blocked and one at work, and a file for each.
* No deadlock check in the runs: the program ends, and its last state has no
  successor. `NeverStuck` and the liveness properties say that it does not stop
  earlier.

### Fairness

* `Statement_Detector`, `Include_Gardener`: weak fairness of each worker and of
  main. A thread that can run is scheduled eventually; nothing more is assumed.
  In particular nothing is asked of a mutex, so a thread may lose the race for it
  for ever. Spurious wake-ups happen, but not for ever (`<>[][~SpuriousWakeup]`):
  a thread that does nothing but wake up and block again could otherwise keep the
  mutex from the others, and no implementation of `wait()` does that.
* `Solver_Py`: weak fairness of each worker, and again nothing of the mutex.
* `File_Detector`: weak fairness of the only thread there is.
* `Main`: as `Statement_Detector`, for the workers that have been started. Faults
  have no fairness: whatever may go wrong need not.

## 4. The findings

1. An empty line that ends a continued statement reports the previous statement
   (or reads an empty optional), `src/statement_detector.cpp:90`.
2. An import in Python of a file of the project has no edge to it if an earlier
   line of the file imports something from outside the project that has the same
   name: `import b` followed by `import .b`. The vertex of the file is added, but
   `insert_edge` takes the edge to the vertex named `b` for the one it was asked
   for, `src/solver_py.cpp:140`.
3. An `__all__` in Python that is empty, or has a comma behind its last name, has
   an item without a name. In a directory that is no package it becomes a vertex
   labelled with the empty text, and an edge to it. Whatever the file imports
   after that and is not of the project has no edge: `insert_edge` also asks for
   an edge to the vertex labelled `dst_path`, which is then empty too,
   `src/solver_py.cpp:141`. This came up in the proof of `NothingLost`, whose step
   for `AddEdge` needs that no vertex has the empty label. The counterexample of
   `python_same_edge` shows both.
4. The name of a file outside the processed paths depends on the schedule if it
   is included under two spellings, `src/solver.cpp:47`; so `-j 1` and `-j 4` may
   write different graphs.
5. An item of a comma list in Python does not lead where it would lead on its own
   if there are dots in front (they are lost between the two passes of the
   child, `src/solver_py.cpp:171`) or if it is renamed with `as` behind `from`
   (the blanks around `as` are removed first, `src/statement_py.cpp:148`).
6. The program ends with status 0 and has written no graph if the file of `-o`
   cannot be opened, `src/main.cpp:99`, or if the format is the empty text, which
   `init_options` lets through, `src/main.cpp:239`.

`PROJECT.json` quotes the line that each of them contradicts.

The models follow the code, and not the text beside it, in these places too,
which have no run of their own:

* the file regex of the solver for C and C++ accepts `.c` and `.h` only
  (`src/solver_c.cpp:43`), so that sources of C++ in a processed directory are not
  found, although it is a "Solver class for C/C++/Obj-C language"
  (`inc/solver_c.h:30`);
* a statement on a last line that ends in a backslash is reported for the line
  after the last one, `src/statement_detector.cpp:137`;
* a dangling link, a link cycle without `-L`, or a directory that may not be
  listed, in a processed directory ends the program with an error
  (`src/file_detector.cpp:124` and `:119`), although "all other files"
  are said to be ignored (line 141); `EntryFails` and `FindsWhatIsReachable` say so;
* a recursive limit of 0 allows no sub-directory; `inc/file_detector.h:45` says
  that a value other than 0 is a limit;
* one thread is the default (`src/main.cpp:59`), not two (`src/main.cpp:131`), and
  graphml is supported next to dot (`src/main.cpp:217`);
* `-h` with an unsupported language shows an error and no help;
* the detector's class has the joining of the threads in its destructor as a to-do
  (`inc/statement_detector.h:47`): `Main` has what happens without it.

## 5. The proofs

All proofs are checked to the last leaf by TLAPS. They assume the named
assumptions of the modules, which TLC evaluates in the runs, and nothing else:

| assumption | says |
|---|---|
| `DetectorAssumption` | there are finitely many workers, at least one, and main is none of them |
| `StreamAssumption` | a file is a sequence of lines, a line a text and a flag |
| `GardenerAssumption` | files have paths and names, one job per file, the search returns a path or none, the lines of a report increase |
| `SearchAssumption` | the include paths are a sequence |
| `GardenerCAssumption`, `GardenerRbAssumption` | the solver of the program is the one of the language |
| `PyAssumption` | the files are those of the jobs and have paths; the lines of a report increase |
| `TextAssumption` | reports and texts are sequences, and the module behind `from` has no comma |
| `DetectorFilesAssumption` | what a file system is: finitely many directories, with entries of five kinds, none of them below itself unless there is a link on the way; at most `MaxLinks` links on a path |
| `MainAssumption` | a bound on the files, and one on the threads that an accepted command line may ask for |

### Statement_Detector_Proofs: any finite set of workers, any number of files

The safety properties are not inductive on their own. The invariant `IInv` is
built in layers, each inductive relative to those below:

* `TypeInv`: types, a busy worker holds a job, and how far main's loop is;
* `MutexInv`: the holder of the mutex is the thread inside a critical section;
* `QueueInv`: the queue is a suffix of what was submitted, and what left it is in
  one worker's hands or processed;
* `DoneInv`: the flag is up exactly from `notify_done` on, the queue is empty then
  and stays so, and workers return only when it is up;
* `NoLostWakeup`: a blocked worker sees an empty queue, and once the flag is up
  the notification is still to come; if main is blocked and the queue is empty,
  a worker is about to notify.

From it: `TypeCorrect`, `JobsOnceInOrder`, `NothingAbandoned`, `WakeupsKept`, `JoinIsComplete`,
`NoDeadlock` (when nobody can move, the mutex is free, so every worker is blocked
or gone and main is waiting or joining; `NoLostWakeup` and `DoneInv` exclude
both), and `RefinesJobPool`: every step is a step of `JobPool` or a stutter. The
step that needs an argument is `TakeJob`, where `JobPool` allows a start only while
fewer than `NumWorkers` jobs are in progress: the jobs in progress are the image
of the busy workers, and the worker that takes the job is not one of them.

### Process_Stream_Proofs: any set of files, any set of regexes

`IInv` is the types, `MultiLineIsPending`, and the two properties of the calls.
`PendingText` and `CurrentText` show that `multi_line`, or what is appended to it,
is the text of the logical line; `LineStep` that each step completes at most the
logical line of the current line; `OneMoreCall` and `NoCall` that the calls keep
up with it. `DetectLemma` is the one fact about `detect`: it returns the first
regex that matches. Theorems: `TypeCorrect`, `LinesJoinedRight`, `OneCallEach`,
`CallsAreRight`.

`CrashesThereOnly` needs one more invariant, about the lines behind:
`ForgottenSince` says when the local optional can be disengaged although
statements have been reported. Every statement that did not end at an empty line
must have been followed by a logical line that has none.

`CallsAreReport` is the link to the modules with a graph: the calls for a file are
a report as `GardenerAssumption` and `PyAssumption` ask for.

### Include_Gardener_Proofs: any workers, files, contents

`GardenerAssumption` is what is known of the parameters: the files have paths and
names, there is one job per file, the search returns a path or none, and the lines
of a report increase (as `Process_Stream` reports them). `Solver_Proofs` says of
`add_vertex` and `insert_edge` what they add and that they keep everything else.

`RefinesDetector` comes first: each step is a step of `Statement_Detector` or
leaves its variables alone, because the calls of `add_edge` happen inside its step
`Process`. So `IInv` and the theorems above hold of the whole program. On top of
it there are these layers:

* `ReportInv`: a worker that counts calls has a file in hand, at most one worker
  holds `graph_mutex`, and the holder has a call left to make, so that no two are
  in the graph at once;
* `GraphInv`: the graph is well-formed, every edge leads to a vertex, and every
  file detected has a vertex. That is what makes the source of an edge a known
  label: a worker exists only when all files are detected;
* `PhaseInv`: until all files are detected no thread has done anything, and what
  is written is the graph and stays so, because the workers have returned;
* `MadeFacts`: how many calls of a job have been made, from where the workers are;
* `VertexInv`, `NameInv`: the vertexes and their names, in terms of the calls;
* `EdgeInv`: for a file that is one job the list of its edges (`OutInv`); in
  general, each edge comes from a call (`OriginInv`), there are as many edges as
  calls, and each edge is there once per job that asked for it (`CountInv`). The
  count needs that two lines of a file ask for different edges.

Theorems: `NoUnknownLabel`, `NothingIsUndone`, `GardenerTypeCorrect`,
`WrittenIsFinal`, `VertexesAreExact`, `NamesAreTheirs`, `EdgesInOrder`,
`EdgesAreCounted`. These are all the safety properties of the module but the one
that finding 4 refutes.

### Gardener_Search_Proofs: any file system, any include paths

`SearchFindsFirst`: `search` returns the first file on a list of directories, by
taking the least position that holds one. `FoundInFront` and `NotFoundInFront`
say what a directory in front of the list changes. `ResolveFollowsC` and
`ResolveFollowsRb` put them together for each branch of `resolve`, and `EdgesOfC`
and `EdgesOfRb` carry the result to the graph: `OriginInv` gives the call that an
edge comes from.

### File_Detector_Proofs: any file system, process paths, limit

The walk is a depth-first search over paths with cycles; what it should find is
defined by levels (`DirsAt`). The proof connects them:

* `DirsAtLevels` unfolds the recursive definition. That such a function exists is
  proved by induction over the depth, with `SetInduction`.
* `WalkInv`: the call at depth `i` of the stack is in a directory of level `i`, and
  the stack is no deeper than `Room` allows. With links a directory may be entered
  again below itself, so the bound is made of the height of the forest and the
  number of links that are left.
* `ListInv`: what is on the list has a vertex, and the vertexes are those files.
* `PastInv`: the files of the list are, in order, those that lie before the current
  position of the walk. The order is `Sooner` on the ways from a process path to
  an entry; each step moves past exactly one of them. When the walk is at its end,
  everything that is wanted is past.

Theorems: `TypeCorrect`, `FindsAll`, `VertexesOfFiles`, `StepsOfInputFiles` (every
step is one of `Input_Files`, or a stutter).

### Main_Proofs: any command line, number of threads and files

A behaviour has one number of threads and one of files, but both are variables
of `Main`; so `DetectorInv(n, k)` states for all n and k what a detector of that size
keeps, and `MainInv` in which phase which of it holds. `DetectorInv` has four layers:

* `DetectorTyping`: types, where main's loop is, and the holder of the mutex;
* `DetectorQueue`: each submitted file is in the queue, in one hand, or processed,
  and what left the queue left it in order;
* `DetectorEnd`: the flag is up only from `notify_done` on, the queue is empty then,
  and a thread returns only when it is up; main is behind the joins only when
  every thread has returned;
* `DetectorWakes`: no wake-up is lost.

`MainInv` adds what main has done so far in each phase: nothing before the detector
is constructed; `Spare`, that a thread not yet started is at the start of `do_work`
with nothing in hand; `Starting`, that nothing is submitted while threads are
being started; as many threads as were asked for once the constructor is left;
and on success either the early end of `--version` and `--help` or all joins and the
output. `NewDetector` is the step that establishes `DetectorInv`: it is where the
initialisation of the queue and the flag is needed, since before it the flag may
have either value. A fault is a change of phase like any other; nothing is
assumed about when it comes.

Theorems: `TypeCorrect`, `NoneLeft` (no thread outlives main), `SuccessPromises`,
`WrittenAsAsked` (which needs that `init_options` keeps the values given:
`OptionFields`, `OptionTaken`, and `IncludePathsTaken` for the paths of `-I` in their
order), and `StartIsSafe` (`DetectorSafe`).

### Solver_Py_Proofs: any workers, files, contents, any file system

A worker has a stack of calls, and `Split` replaces one call by several, so no
counter in the state says how far a worker is. `Leaves(pending[w])` is what the
stack comes to: the calls that will take `graph_mutex`. The invariant `WorkInv`
says that these are an end of the list that the whole file comes to, and that no
two workers have the same job; so `Made`, the calls made for a job, is the
difference of two lengths. `Split` leaves it as it is, because the children of a
statement have no comma and are not split again (`ChildrenAreSingle`,
`LeavesOfChildren`), and `AddEdge` makes it one more.

`TwiceIsOnce` is the core: the edges of a file are those that one worker alone
would have added with as many calls as the fastest of the file's workers has made.
It is inductive together with `WorkInv`. The faster worker's call is the next one
of `Alone`. The slower one's call was made before, so there is an edge to its
vertex or to one with its name, and `insert_edge` changes nothing for the file
(`InsertOnce`, `LandsStays`). What is left concerns one worker: `AloneIsFirst`
says of its edges that each is for the first call that leads there, and that each
call has an edge to its own vertex unless its name was taken (`Taken`, which
`TakenIs` shows to be `NameTaken`). Theorems:

* `TwiceAsOnce`, without any further hypothesis;
* `TypeCorrect`, `NothingIsLost`, `FirstLineKept`, under the hypothesis
  `NoBlankName`: no item of a list is blank. Finding 3 is what happens otherwise.
  It is about the texts in `Reports` only: the name of a dummy vertex is never
  the empty path. For those of the run `python` it holds;
* `ImportsFollow` (`ImportsAsMeant`) under `NoBlankName` and `TextRule`: for each
  item of an import that names a file of the project, one of the file's calls
  leads to such a file. What is proved is that the graph then has an edge to the
  file itself, in every order of the workers, or the name of that call was taken.
  `TextRule` is about the text work only. It is a hypothesis because the text of an
  import with any number of items is defined by a fold, and what `split_by_comma`
  makes of it needs an induction over the items. For the texts of the run `python`
  it holds: TLC accepts it as one more invariant there.

### Only model-checked

Liveness (`Ends`, `AllFilesDone`, `GraphIsWritten`, the liveness of the abstract
specifications, the fairness part of the refinements) is out of reach of the
prover. The theorems about refinement state that the initial states and the steps
of one specification are those of the other.

Each safety property of the passing runs is stated by a theorem. Those about
`Solver_Py`, other than `TwiceIsOnce`, have a hypothesis that is not an assumption of
the module: `NoBlankName`, which finding 3 shows to be needed, and for
`ImportsAsMeant` also `TextRule`, that the text work of `Statement_Py` does what
Python means. For texts of any length `TextRule` would take an induction over
data; TLC checks what follows from it, `ImportsAsMeant`, for the texts of the run
`python`.

## 6. What is not modelled

* Python statements with tabs, and texts that are not Python (two identifiers
  with nothing but a blank between them), which the regexes let through.
* The two output formats (labels are written as they are, quotation marks
  included), logging, the regexes themselves (what they find is a parameter),
  and `is_module`, which only tests call.
* Abbreviated option names, which Boost accepts, and the wording of messages.
* A file system that changes while the program runs. `exists` followed by
  `canonical` may then throw in a worker: the effect on the program is a fault of
  `Main`, the change itself is not modelled. A file that cannot be opened reads as
  an empty one.
* A process path that may not be listed itself: `get` throws at once, as `Main` has
  it (`GetFilesThrows`).
* Overflow of line numbers, and running out of memory other than in `add_job`.

## 7. The plan

The modules planned are written. `Solver_Py` stays apart from the job queue: any
worker may take any job there, which is more than the queue allows.

The proofs planned are written as well. What could be added: `TextRule` for
imports of a single name, which needs facts about `Slashed` and
`dots_to_system_slash`; and a model of the two output formats, if their layout
should ever matter to a property.
