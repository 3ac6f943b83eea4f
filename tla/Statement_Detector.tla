------------------------- MODULE Statement_Detector -------------------------
(***************************************************************************)
(* The job queue and the worker threads of class Statement_Detector        *)
(* (src/statement_detector.cpp), together with the main thread that feeds  *)
(* the queue and waits for the workers (src/main.cpp).                     *)
(*                                                                         *)
(* job_queue and all_work_done are shared and guarded by job_queue_mutex;  *)
(* job_queue_condition is one condition variable on which workers wait for *)
(* work and main waits for the queue to be empty.  A step is one critical  *)
(* section or one call between two critical sections, so what may happen   *)
(* between an unlock and the notify_all that follows it is in the model,   *)
(* and so are spurious wake-ups.  A thread blocked in wait() is woken by   *)
(* notify_all, takes the mutex again and re-evaluates its predicate.       *)
(*                                                                         *)
(* What a worker does with a file is one step here (Process); modules that *)
(* model it in detail instantiate this one and refine that step.           *)
(***************************************************************************)
EXTENDS Naturals, Sequences, FiniteSets

CONSTANTS Workers,      (* the threads that run do_work                     *)
          MainThread,   (* the thread that runs main()                      *)
          NoThread,     (* "nobody holds the mutex"                         *)
          NumJobs       (* how many entries input_files has                 *)

(* main.cpp refuses "-j 0", and a negative number makes the constructor of *)
(* the vector of threads throw: there is at least one worker.              *)
ASSUME DetectorAssumption ==
  /\ IsFiniteSet(Workers) /\ Workers # {}
  /\ MainThread \notin Workers /\ NoThread \notin Workers \cup {MainThread}
  /\ NumJobs \in Nat

(* Jobs are numbered in the order main submits them; a file that two       *)
(* process paths reach is two jobs.                                        *)
Jobs  == 1..NumJobs
NoJob == 0

VARIABLES
  job_queue,        (* the deque: the front is position 1, the back the last *)
  all_work_done,    (* the flag that ends the workers                        *)
  job_queue_mutex,  (* the thread that holds the mutex, or NoThread          *)
  worker_pc,        (* where each worker is in do_work                       *)
  entry,            (* do_work's local variable: the job a worker holds      *)
  main_pc,          (* where main is: add_job loop, then wait_for_workers    *)
  next_job,         (* main's iterator over input_files                      *)
  processed         (* history: the jobs whose process_stream has returned   *)

workerVars == <<worker_pc, entry, processed>>
mainVars   == <<main_pc, next_job>>
queueVars  == <<job_queue, all_work_done>>
vars       == <<job_queue, all_work_done, job_queue_mutex, worker_pc, entry,
                main_pc, next_job, processed>>

WorkerLabels == {"lock", "check", "blocked", "notify", "process", "returned"}
MainLabels   == {"add", "push", "wait", "wait_check", "wait_blocked",
                 "notify_empty", "done", "set_done", "notify_done", "join",
                 "joined"}

(* The constructor has started every thread; main is about to enter its    *)
(* loop over input_files (or to skip it when there are none).              *)
Init ==
  /\ job_queue = <<>>
  /\ all_work_done = FALSE
  /\ job_queue_mutex = NoThread
  /\ worker_pc = [w \in Workers |-> "lock"]
  /\ entry = [w \in Workers |-> NoJob]
  /\ main_pc = IF NumJobs = 0 THEN "wait" ELSE "add"
  /\ next_job = 1
  /\ processed = {}

-----------------------------------------------------------------------------
(* std::mutex and std::condition_variable.                                 *)

Acquire(t) == job_queue_mutex = NoThread /\ job_queue_mutex' = t
Release    == job_queue_mutex' = NoThread

(* Broken: a notify_all that wakes no worker.                              *)
NobodyWoken == worker_pc

(* Where the workers are after notify_all: the blocked ones contend for    *)
(* the mutex again.                                                        *)
Woken == [w \in Workers |-> IF worker_pc[w] = "blocked" THEN "lock"
                                                        ELSE worker_pc[w]]

-----------------------------------------------------------------------------
(* do_work(w)                                                              *)

Goto(w, label) == worker_pc' = [worker_pc EXCEPT ![w] = label]

WorkerLock(w) ==
  /\ worker_pc[w] = "lock"
  /\ Acquire(w)
  /\ Goto(w, "check")
  /\ UNCHANGED <<queueVars, entry, mainVars, processed>>

(* wait(): the predicate is false; release the mutex and block, atomically *)
WorkerSleep(w) ==
  /\ worker_pc[w] = "check"
  /\ job_queue = <<>> /\ ~all_work_done
  /\ Release
  /\ Goto(w, "blocked")
  /\ UNCHANGED <<queueVars, entry, mainVars, processed>>

(* if (all_work_done) return;  -- whatever the queue holds                 *)
WorkerReturn(w) ==
  /\ worker_pc[w] = "check"
  /\ all_work_done
  /\ Release
  /\ Goto(w, "returned")
  /\ UNCHANGED <<queueVars, entry, mainVars, processed>>

(* Broken: takes the newest job instead of the oldest.                     *)
TakeJobFront(w) ==
  /\ worker_pc[w] = "check"
  /\ ~all_work_done /\ job_queue # <<>>
  /\ entry' = [entry EXCEPT ![w] = Head(job_queue)]
  /\ job_queue' = Tail(job_queue)
  /\ Release
  /\ Goto(w, "notify")
  /\ UNCHANGED <<all_work_done, mainVars, processed>>

(* Broken: copies the job and forgets pop_back().                          *)
TakeJobNoPop(w) ==
  /\ worker_pc[w] = "check"
  /\ ~all_work_done /\ job_queue # <<>>
  /\ entry' = [entry EXCEPT ![w] = job_queue[Len(job_queue)]]
  /\ Release
  /\ Goto(w, "notify")
  /\ UNCHANGED <<queueVars, mainVars, processed>>

(* entry = job_queue.back(); job_queue.pop_back(); lck.unlock();           *)
TakeJob(w) ==
  /\ worker_pc[w] = "check"
  /\ ~all_work_done /\ job_queue # <<>>
  /\ entry' = [entry EXCEPT ![w] = job_queue[Len(job_queue)]]
  /\ job_queue' = SubSeq(job_queue, 1, Len(job_queue) - 1)
  /\ Release
  /\ Goto(w, "notify")
  /\ UNCHANGED <<all_work_done, mainVars, processed>>

(* Broken: no notify_all after a job was taken.                            *)
NotifyTakenMissing(w) ==
  /\ worker_pc[w] = "notify"
  /\ Goto(w, "process")
  /\ UNCHANGED <<queueVars, job_queue_mutex, entry, mainVars, processed>>

(* job_queue_condition.notify_all(), with the mutex already released       *)
NotifyTaken(w) ==
  /\ worker_pc[w] = "notify"
  /\ worker_pc' = [Woken EXCEPT ![w] = "process"]
  /\ main_pc' = IF main_pc = "wait_blocked" THEN "wait" ELSE main_pc
  /\ UNCHANGED <<queueVars, job_queue_mutex, entry, next_job, processed>>

(* process_stream(ifs, entry); entry goes out of scope                     *)
Process(w) ==
  /\ worker_pc[w] = "process"
  /\ processed' = processed \cup {entry[w]}
  /\ entry' = [entry EXCEPT ![w] = NoJob]
  /\ Goto(w, "lock")
  /\ UNCHANGED <<queueVars, job_queue_mutex, mainVars>>

WorkerStep(w) ==
  \/ WorkerLock(w) \/ WorkerSleep(w) \/ WorkerReturn(w)
  \/ TakeJob(w) \/ NotifyTaken(w) \/ Process(w)

-----------------------------------------------------------------------------
(* main(): for (i : *input_files) s_detector.add_job(i);                   *)

AddJobLock ==
  /\ main_pc = "add"
  /\ Acquire(MainThread)
  /\ main_pc' = "push"
  /\ UNCHANGED <<queueVars, workerVars, next_job>>

(* Broken: main's loop runs once too often.                                *)
AddJobPushTooMany ==
  /\ main_pc = "push"
  /\ job_queue' = <<next_job>> \o job_queue
  /\ worker_pc' = Woken
  /\ Release
  /\ next_job' = next_job + 1
  /\ main_pc' = IF next_job > NumJobs THEN "wait" ELSE "add"
  /\ UNCHANGED <<all_work_done, entry, processed>>

(* push_front and notify_all under the mutex, released on return; then the *)
(* loop goes on, or ends and main calls wait_for_workers.                  *)
AddJobPush ==
  /\ main_pc = "push"
  /\ job_queue' = <<next_job>> \o job_queue
  /\ worker_pc' = Woken
  /\ Release
  /\ next_job' = next_job + 1
  /\ main_pc' = IF next_job = NumJobs THEN "wait" ELSE "add"
  /\ UNCHANGED <<all_work_done, entry, processed>>

-----------------------------------------------------------------------------
(* wait_for_workers()                                                      *)

WaitLock ==
  /\ main_pc = "wait"
  /\ Acquire(MainThread)
  /\ main_pc' = "wait_check"
  /\ UNCHANGED <<queueVars, workerVars, next_job>>

WaitSleep ==
  /\ main_pc = "wait_check"
  /\ job_queue # <<>>
  /\ Release
  /\ main_pc' = "wait_blocked"
  /\ UNCHANGED <<queueVars, workerVars, next_job>>

(* Broken: does not wait for the queue to be empty.                        *)
WaitNotAtAll ==
  /\ main_pc = "wait_check"
  /\ Release
  /\ main_pc' = "notify_empty"
  /\ UNCHANGED <<queueVars, workerVars, next_job>>

WaitEmpty ==
  /\ main_pc = "wait_check"
  /\ job_queue = <<>>
  /\ Release
  /\ main_pc' = "notify_empty"
  /\ UNCHANGED <<queueVars, workerVars, next_job>>

NotifyEmpty ==
  /\ main_pc = "notify_empty"
  /\ worker_pc' = Woken
  /\ main_pc' = "done"
  /\ UNCHANGED <<queueVars, job_queue_mutex, entry, next_job, processed>>

DoneLock ==
  /\ main_pc = "done"
  /\ Acquire(MainThread)
  /\ main_pc' = "set_done"
  /\ UNCHANGED <<queueVars, workerVars, next_job>>

SetDone ==
  /\ main_pc = "set_done"
  /\ all_work_done' = TRUE
  /\ Release
  /\ main_pc' = "notify_done"
  /\ UNCHANGED <<job_queue, workerVars, next_job>>

(* Broken: no notify_all after the flag was set.                           *)
NotifyDoneMissing ==
  /\ main_pc = "notify_done"
  /\ main_pc' = "join"
  /\ UNCHANGED <<queueVars, job_queue_mutex, workerVars, next_job>>

NotifyDone ==
  /\ main_pc = "notify_done"
  /\ worker_pc' = Woken
  /\ main_pc' = "join"
  /\ UNCHANGED <<queueVars, job_queue_mutex, entry, next_job, processed>>

(* Broken: joins one worker only.                                          *)
JoinOneWorker ==
  /\ main_pc = "join"
  /\ \E w \in Workers : worker_pc[w] = "returned"
  /\ main_pc' = "joined"
  /\ UNCHANGED <<queueVars, job_queue_mutex, workerVars, next_job>>

(* for (auto& worker : workers) worker.join();                             *)
JoinWorkers ==
  /\ main_pc = "join"
  /\ \A w \in Workers : worker_pc[w] = "returned"
  /\ main_pc' = "joined"
  /\ UNCHANGED <<queueVars, job_queue_mutex, workerVars, next_job>>

MainStep ==
  \/ AddJobLock \/ AddJobPush \/ WaitLock \/ WaitSleep \/ WaitEmpty
  \/ NotifyEmpty \/ DoneLock \/ SetDone \/ NotifyDone \/ JoinWorkers

-----------------------------------------------------------------------------
(* A wait() may return although nobody notified: the standard allows it.   *)

SpuriousWorker(w) ==
  /\ worker_pc[w] = "blocked"
  /\ Goto(w, "lock")
  /\ UNCHANGED <<queueVars, job_queue_mutex, entry, mainVars, processed>>

SpuriousMain ==
  /\ main_pc = "wait_blocked"
  /\ main_pc' = "wait"
  /\ UNCHANGED <<queueVars, job_queue_mutex, workerVars, next_job>>

SpuriousWakeup == SpuriousMain \/ \E w \in Workers : SpuriousWorker(w)

Next == MainStep \/ (\E w \in Workers : WorkerStep(w)) \/ SpuriousWakeup

Spec == Init /\ [][Next]_vars

(* Every thread that can go on is scheduled eventually.  Nothing is asked  *)
(* of the mutex (std::mutex may starve a thread that keeps losing it), and *)
(* spurious wake-ups happen, but not for ever.                             *)
Fairness ==
  /\ WF_vars(MainStep)
  /\ \A w \in Workers : WF_vars(WorkerStep(w))
  /\ <>[][~SpuriousWakeup]_vars

FairSpec == Spec /\ Fairness

-----------------------------------------------------------------------------
(* Properties                                                              *)

(* Every variable has its type; main's iterator stays within input_files.  *)
TypeOK ==
  /\ job_queue \in Seq(Jobs)
  /\ all_work_done \in BOOLEAN
  /\ job_queue_mutex \in Workers \cup {MainThread, NoThread}
  /\ worker_pc \in [Workers -> WorkerLabels]
  /\ entry \in [Workers -> Jobs \cup {NoJob}]
  /\ main_pc \in MainLabels
  /\ next_job \in 1..(NumJobs + 1)
  /\ processed \subseteq Jobs

Busy(w) == worker_pc[w] \in {"notify", "process"}
InHand  == {entry[w] : w \in {v \in Workers : Busy(v)}}

(* add_job pushes at the front and do_work pops at the back, so the queue  *)
(* always holds the most recently submitted jobs, newest first, with no    *)
(* gap and no repetition: workers take jobs in the order of input_files.   *)
QueueIsSuffix ==
  job_queue = [i \in 1..Len(job_queue) |-> next_job - i]

(* A job that left the queue is in the hands of exactly one worker or has  *)
(* been processed, never both, and no job is lost on the way.              *)
Taken == 1..(next_job - 1 - Len(job_queue))
EachJobOnce ==
  /\ Taken = processed \cup InHand
  /\ processed \cap InHand = {}
  /\ \A v, w \in Workers : Busy(v) /\ Busy(w) /\ entry[v] = entry[w] => v = w

(* do_work tests all_work_done before it looks at the queue, so a job that *)
(* is still queued when the flag is up would never be processed: the flag  *)
(* goes up, and a worker returns, only after the last job was taken.       *)
NoJobAbandoned ==
  all_work_done \/ (\E w \in Workers : worker_pc[w] = "returned")
    => job_queue = <<>> /\ next_job = NumJobs + 1

(* No wake-up is lost: a thread blocked in wait() whose predicate has      *)
(* become true is one that a notify_all still to come will wake.  This is  *)
(* what makes it harmless that do_work and wait_for_workers call           *)
(* notify_all after they have released the mutex.                          *)
NoLostWakeup ==
  /\ \A w \in Workers : worker_pc[w] = "blocked" =>
       job_queue = <<>> /\ (all_work_done => main_pc = "notify_done")
  /\ main_pc = "wait_blocked" /\ job_queue = <<>> =>
       \E w \in Workers : worker_pc[w] = "notify"

(* The threads never all wait on each other: until main has joined its     *)
(* workers, some thread can go on.                                         *)
CanGoOn(w) ==
  \/ worker_pc[w] \in {"check", "notify", "process"}
  \/ worker_pc[w] = "lock" /\ job_queue_mutex = NoThread
MainCanGoOn ==
  \/ main_pc \in {"push", "wait_check", "notify_empty", "set_done", "notify_done"}
  \/ main_pc \in {"add", "wait", "done"} /\ job_queue_mutex = NoThread
  \/ main_pc = "join" /\ \A w \in Workers : worker_pc[w] = "returned"
NeverStuck == main_pc = "joined" \/ MainCanGoOn \/ \E w \in Workers : CanGoOn(w)

(* When wait_for_workers returns, and main goes on to write the graph,     *)
(* every submitted file has been processed to its end.                     *)
JoinedAfterAllJobs == main_pc = "joined" => processed = Jobs

(* The detector does what its abstract specification promises, the          *)
(* eventual release included.                                              *)
Pool == INSTANCE JobPool WITH
          NumWorkers <- Cardinality(Workers),
          submitted  <- next_job - 1,
          started    <- next_job - 1 - Len(job_queue),
          finished   <- processed,
          released   <- main_pc = "joined"
ImplementsJobPool == Pool!Spec
=============================================================================
