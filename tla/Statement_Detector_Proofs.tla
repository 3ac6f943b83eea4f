---------------------- MODULE Statement_Detector_Proofs ----------------------
(***************************************************************************)
(* Proofs about Statement_Detector, for every finite non-empty set of      *)
(* workers and every number of files.  The inductive invariant is built in *)
(* layers, each proved with the help of the ones below it:                 *)
(*                                                                         *)
(*   TypeInv      types, which jobs a busy worker may hold, how far main's *)
(*                loop is at each of its labels                            *)
(*   MutexInv     who is inside a critical section                         *)
(*   QueueInv     QueueIsSuffix, EachJobOnce                               *)
(*   DoneInv      when the flag is up and what is true then                *)
(*   NoLostWakeup                                                          *)
(***************************************************************************)
EXTENDS Statement_Detector, TLAPS, FiniteSetTheorems, SequenceTheorems

TypeInv ==
  /\ TypeOK
  /\ \A w \in Workers : Busy(w) => entry[w] \in Jobs
  /\ IF main_pc \in {"add", "push"} THEN next_job <= NumJobs
                                    ELSE next_job = NumJobs + 1

MutexInv ==
  /\ \A w \in Workers : worker_pc[w] = "check" <=> job_queue_mutex = w
  /\ main_pc \in {"push", "wait_check", "set_done"}
       <=> job_queue_mutex = MainThread

QueueInv ==
  /\ Len(job_queue) <= next_job - 1
  /\ QueueIsSuffix
  /\ EachJobOnce

DoneInv ==
  /\ all_work_done <=> main_pc \in {"notify_done", "join", "joined"}
  /\ main_pc \in {"notify_empty", "done", "set_done", "notify_done", "join",
                  "joined"} => job_queue = <<>>
  /\ \A w \in Workers : worker_pc[w] = "returned" => all_work_done
  /\ main_pc = "joined" => \A w \in Workers : worker_pc[w] = "returned"

IInv == TypeInv /\ MutexInv /\ QueueInv /\ DoneInv /\ NoLostWakeup

-----------------------------------------------------------------------------
(* Layer 1: types.                                                         *)

(* The two sequence operations of the job queue keep it a sequence of jobs *)
(* and do what push_front and pop_back do.                                 *)
LEMMA PushFrontLemma ==
  ASSUME NEW S, NEW q \in Seq(S), NEW x \in S
  PROVE  /\ <<x>> \o q \in Seq(S)
         /\ Len(<<x>> \o q) = Len(q) + 1
         /\ \A i \in 1..(Len(q) + 1) :
              (<<x>> \o q)[i] = IF i = 1 THEN x ELSE q[i - 1]
<1>1. <<x>> \in Seq(S) /\ Len(<<x>>) = 1 /\ <<x>>[1] = x
  OBVIOUS
<1>2. QED
  BY <1>1, ConcatProperties, LenProperties

LEMMA PopBackLemma ==
  ASSUME NEW S, NEW q \in Seq(S), q # <<>>
  PROVE  /\ q[Len(q)] \in S
         /\ Len(q) \in Nat \ {0}
         /\ SubSeq(q, 1, Len(q) - 1) \in Seq(S)
         /\ Len(SubSeq(q, 1, Len(q) - 1)) = Len(q) - 1
         /\ \A i \in 1..(Len(q) - 1) : SubSeq(q, 1, Len(q) - 1)[i] = q[i]
<1>1. Len(q) \in Nat \ {0}
  BY EmptySeq, LenProperties
<1>2. \A i \in 1..Len(q) : q[i] \in S
  BY ElementOfSeq
<1>3. \A i \in 1..(Len(q) - 1) : q[i] \in S
  BY <1>1, <1>2
<1> DEFINE front == SubSeq(q, 1, Len(q) - 1)
<1>4. /\ front \in Seq(S)
      /\ Len(front) = IF 1 <= Len(q) - 1 THEN Len(q) - 1 - 1 + 1 ELSE 0
      /\ \A i \in 1..(Len(q) - 1 - 1 + 1) : front[i] = q[1 + i - 1]
  <2> HIDE DEF front
  <2>1. Len(q) - 1 \in Int
    BY <1>1
  <2>2. QED
    BY <1>3, <2>1, SubSeqProperties DEF front
<1>5. Len(front) = Len(q) - 1
  <2> HIDE DEF front
  <2> DEFINE n == Len(q)
  <2>1. n \in Nat \ {0}
    BY <1>1
  <2>2. Len(front) = IF 1 <= n - 1 THEN n - 1 - 1 + 1 ELSE 0
    BY <1>4
  <2>3. n = Len(q)
    OBVIOUS
  <2> HIDE DEF n
  <2>4. n - 1 = IF 1 <= n - 1 THEN n - 1 - 1 + 1 ELSE 0
    BY <2>1
  <2>5. QED
    BY <2>2, <2>3, <2>4
<1>6. ASSUME NEW i \in 1..(Len(q) - 1) PROVE front[i] = q[i]
  <2> HIDE DEF front
  <2>1. i \in 1..(Len(q) - 1 - 1 + 1) /\ 1 + i - 1 = i
    BY <1>1
  <2>2. QED
    BY <2>1, <1>4
<1>7. QED
  BY <1>1, <1>2, <1>4, <1>5, <1>6

LEMMA TypeInvInit == Init => TypeInv
<1> SUFFICES ASSUME Init PROVE TypeInv
  OBVIOUS
<1>1. job_queue \in Seq(Jobs)
  BY EmptySeq DEF Init
<1>2. worker_pc \in [Workers -> WorkerLabels] /\ main_pc \in MainLabels
  BY DEF Init, WorkerLabels, MainLabels
<1>3. next_job \in 1..(NumJobs + 1)
  BY DetectorAssumption DEF Init
<1>4. TypeOK
  BY <1>1, <1>2, <1>3 DEF Init, TypeOK
<1>5. QED
  BY <1>4, DetectorAssumption DEF Init, TypeInv, Busy

LEMMA TypeInvStep == TypeInv /\ [Next]_vars => TypeInv'
<1> SUFFICES ASSUME TypeInv, [Next]_vars PROVE TypeInv'
  OBVIOUS
<1> USE DetectorAssumption DEF TypeInv, TypeOK, Jobs, NoJob, Busy,
        WorkerLabels, MainLabels, Acquire, Release, Goto, Woken,
        queueVars, workerVars, mainVars
<1>1. ASSUME NEW w \in Workers, WorkerStep(w) PROVE TypeInv'
  <2>1. CASE WorkerLock(w)    BY <2>1 DEF WorkerLock
  <2>2. CASE WorkerSleep(w)   BY <2>2 DEF WorkerSleep
  <2>3. CASE WorkerReturn(w)  BY <2>3 DEF WorkerReturn
  <2>4. CASE TakeJob(w)
    <3>1. job_queue[Len(job_queue)] \in 1..NumJobs /\ job_queue' \in Seq(1..NumJobs)
      BY <2>4, PopBackLemma DEF TakeJob
    <3>2. QED
      BY <2>4, <3>1 DEF TakeJob
  <2>5. CASE NotifyTaken(w)   BY <2>5 DEF NotifyTaken
  <2>6. CASE Process(w)       BY <2>6 DEF Process
  <2>7. QED
    BY <1>1, <2>1, <2>2, <2>3, <2>4, <2>5, <2>6 DEF WorkerStep
<1>2. ASSUME MainStep PROVE TypeInv'
  <2>1. CASE AddJobLock  BY <2>1 DEF AddJobLock
  <2>2. CASE AddJobPush
    <3>1. next_job \in 1..NumJobs
      BY <2>2 DEF AddJobPush
    <3>2. job_queue' \in Seq(1..NumJobs)
      BY <2>2, <3>1, PushFrontLemma DEF AddJobPush
    <3>3. QED
      BY <2>2, <3>1, <3>2 DEF AddJobPush
  <2>3. CASE WaitLock    BY <2>3 DEF WaitLock
  <2>4. CASE WaitSleep   BY <2>4 DEF WaitSleep
  <2>5. CASE WaitEmpty   BY <2>5 DEF WaitEmpty
  <2>6. CASE NotifyEmpty BY <2>6 DEF NotifyEmpty
  <2>7. CASE DoneLock    BY <2>7 DEF DoneLock
  <2>8. CASE SetDone     BY <2>8 DEF SetDone
  <2>9. CASE NotifyDone  BY <2>9 DEF NotifyDone
  <2>10. CASE JoinWorkers BY <2>10 DEF JoinWorkers
  <2>11. QED
    BY <1>2, <2>1, <2>2, <2>3, <2>4, <2>5, <2>6, <2>7, <2>8, <2>9, <2>10
       DEF MainStep
<1>3. CASE SpuriousWakeup
  BY <1>3 DEF SpuriousWakeup, SpuriousMain, SpuriousWorker
<1>4. CASE UNCHANGED vars
  BY <1>4 DEF vars
<1>5. QED
  BY <1>1, <1>2, <1>3, <1>4 DEF Next

(* The first layer holds in every reachable state.                         *)
LEMMA TypeInvCorrect == Spec => []TypeInv
BY TypeInvInit, TypeInvStep, PTL DEF Spec

(* Every variable keeps its type, and main's iterator never leaves         *)
(* input_files, whatever the threads do.                                   *)
THEOREM TypeCorrect == Spec => []TypeOK
<1>1. TypeInv => TypeOK
  BY DEF TypeInv
<1>2. QED
  BY <1>1, TypeInvCorrect, PTL

-----------------------------------------------------------------------------
(* Layer 2: mutual exclusion.                                              *)

LEMMA MutexInvStep == TypeInv /\ MutexInv /\ [Next]_vars => MutexInv'
<1> SUFFICES ASSUME TypeInv, MutexInv, [Next]_vars PROVE MutexInv'
  OBVIOUS
<1> USE DetectorAssumption DEF TypeInv, TypeOK, MutexInv, WorkerLabels,
        MainLabels, Acquire, Release, Goto, Woken, queueVars, workerVars, mainVars
<1>1. ASSUME NEW w \in Workers, WorkerStep(w) PROVE MutexInv'
  <2>1. CASE WorkerLock(w)    BY <2>1 DEF WorkerLock
  <2>2. CASE WorkerSleep(w)   BY <2>2 DEF WorkerSleep
  <2>3. CASE WorkerReturn(w)  BY <2>3 DEF WorkerReturn
  <2>4. CASE TakeJob(w)       BY <2>4 DEF TakeJob
  <2>5. CASE NotifyTaken(w)   BY <2>5 DEF NotifyTaken
  <2>6. CASE Process(w)       BY <2>6 DEF Process
  <2>7. QED
    BY <1>1, <2>1, <2>2, <2>3, <2>4, <2>5, <2>6 DEF WorkerStep
<1>2. ASSUME MainStep PROVE MutexInv'
  <2>1. CASE AddJobLock  BY <2>1 DEF AddJobLock
  <2>2. CASE AddJobPush  BY <2>2 DEF AddJobPush
  <2>3. CASE WaitLock    BY <2>3 DEF WaitLock
  <2>4. CASE WaitSleep   BY <2>4 DEF WaitSleep
  <2>5. CASE WaitEmpty   BY <2>5 DEF WaitEmpty
  <2>6. CASE NotifyEmpty BY <2>6 DEF NotifyEmpty
  <2>7. CASE DoneLock    BY <2>7 DEF DoneLock
  <2>8. CASE SetDone     BY <2>8 DEF SetDone
  <2>9. CASE NotifyDone  BY <2>9 DEF NotifyDone
  <2>10. CASE JoinWorkers BY <2>10 DEF JoinWorkers
  <2>11. QED
    BY <1>2, <2>1, <2>2, <2>3, <2>4, <2>5, <2>6, <2>7, <2>8, <2>9, <2>10
       DEF MainStep
<1>3. CASE SpuriousWakeup
  BY <1>3 DEF SpuriousWakeup, SpuriousMain, SpuriousWorker
<1>4. CASE UNCHANGED vars
  BY <1>4 DEF vars
<1>5. QED
  BY <1>1, <1>2, <1>3, <1>4 DEF Next

LEMMA MutexCorrect == Spec => []MutexInv
<1>1. Init => MutexInv
  BY DetectorAssumption DEF Init, MutexInv
<1>2. QED
  BY <1>1, MutexInvStep, TypeInvCorrect, PTL DEF Spec

-----------------------------------------------------------------------------
(* Layer 3: which jobs are in the queue, in a worker's hands, processed.   *)

(* A step that changes neither the queue nor who holds what keeps layer 3. *)
LEMMA QueueInvFrame ==
  ASSUME TypeInv, QueueInv,
         \A w \in Workers : Busy(w)' <=> Busy(w),
         UNCHANGED <<job_queue, next_job, entry, processed>>
  PROVE  QueueInv'
<1>1. InHand' = InHand
  BY DEF InHand
<1>2. QueueIsSuffix'
  BY DEF QueueInv, QueueIsSuffix
<1>3. EachJobOnce'
  BY <1>1 DEF QueueInv, EachJobOnce, Taken
<1>4. QED
  BY <1>2, <1>3 DEF QueueInv

LEMMA IntervalExtend ==
  ASSUME NEW k \in Nat
  PROVE  1..(k + 1) = 1..k \cup {k + 1}
OBVIOUS

LEMMA TakeJobQueueInv ==
  ASSUME TypeInv, QueueInv, NEW w \in Workers, TakeJob(w)
  PROVE  QueueInv'
<1> DEFINE n == Len(job_queue)
           j == job_queue[n]
<1>1. /\ job_queue \in Seq(Jobs) /\ job_queue # <<>>
      /\ job_queue' = SubSeq(job_queue, 1, n - 1)
      /\ UNCHANGED <<next_job, processed>>
  BY DEF TypeInv, TypeOK, TakeJob, mainVars
<1>2. /\ n \in Nat \ {0}
      /\ Len(job_queue') = n - 1 /\ job_queue' \in Seq(Jobs)
      /\ \A i \in 1..(n - 1) : job_queue'[i] = job_queue[i]
  BY <1>1, PopBackLemma
<1>3. \A i \in 1..n : job_queue[i] = next_job - i
  <2>1. job_queue = [i \in 1..n |-> next_job - i]
    BY DEF QueueInv, QueueIsSuffix
  <2>2. QED
    BY <2>1
<1>4. j = next_job - n /\ next_job \in Nat /\ NumJobs \in Nat
  BY <1>2, <1>3, DetectorAssumption DEF TypeInv, TypeOK
<1>5. QueueIsSuffix'
  <2>1. DOMAIN job_queue' = 1..Len(job_queue') /\ job_queue' = [i \in DOMAIN job_queue' |-> job_queue'[i]]
    BY <1>2, LenProperties
  <2>2. \A i \in 1..Len(job_queue') : job_queue'[i] = next_job' - i
    BY <1>1, <1>2, <1>3
  <2>3. QED
    BY <2>1, <2>2 DEF QueueIsSuffix
<1>6. n <= next_job - 1 /\ Len(job_queue') <= next_job' - 1
  BY <1>1, <1>2, <1>4 DEF QueueInv
<1>7. Taken' = Taken \cup {j}
  <2> DEFINE k == next_job - 1 - n
  <2>1. /\ k \in Nat
        /\ k + 1 = next_job - n
        /\ next_job' - 1 - Len(job_queue') = k + 1
    BY <1>1, <1>2, <1>4, <1>6
  <2>2. Taken = 1..k /\ Taken' = 1..(k + 1)
    BY <2>1 DEF Taken
  <2> HIDE DEF k
  <2>3. Taken' = Taken \cup {k + 1}
    BY <2>1, <2>2, IntervalExtend
  <2>4. QED
    BY <2>1, <2>3, <1>4
<1>8. j \notin Taken
  BY <1>2, <1>4 DEF Taken
<1>9. /\ ~Busy(w) /\ Busy(w)' /\ entry'[w] = j
      /\ \A v \in Workers \ {w} : (Busy(v)' <=> Busy(v)) /\ entry'[v] = entry[v]
  BY DEF TypeInv, TypeOK, TakeJob, Goto, Busy
<1>10. InHand' = InHand \cup {j}
  BY <1>9 DEF InHand
<1>11. EachJobOnce'
  BY <1>1, <1>7, <1>8, <1>9, <1>10 DEF QueueInv, EachJobOnce, InHand
<1>12. QED
  BY <1>5, <1>6, <1>11 DEF QueueInv

LEMMA ProcessQueueInv ==
  ASSUME TypeInv, QueueInv, NEW w \in Workers, Process(w)
  PROVE  QueueInv'
<1>1. /\ processed' = processed \cup {entry[w]}
      /\ UNCHANGED <<job_queue, next_job>>
      /\ Busy(w) /\ ~Busy(w)'
      /\ \A v \in Workers \ {w} : (Busy(v)' <=> Busy(v)) /\ entry'[v] = entry[v]
  BY DEF TypeInv, TypeOK, Process, Goto, Busy, queueVars, mainVars
<1>2. InHand' = InHand \ {entry[w]} /\ entry[w] \in InHand
  BY <1>1 DEF QueueInv, EachJobOnce, InHand
<1>3. Taken' = Taken /\ QueueIsSuffix' /\ Len(job_queue') <= next_job' - 1
  BY <1>1 DEF QueueInv, QueueIsSuffix, Taken
<1>4. EachJobOnce'
  BY <1>1, <1>2, <1>3 DEF QueueInv, EachJobOnce
<1>5. QED
  BY <1>3, <1>4 DEF QueueInv

LEMMA AddJobPushQueueInv ==
  ASSUME TypeInv, QueueInv, AddJobPush
  PROVE  QueueInv'
<1> DEFINE n == Len(job_queue)
<1>1. /\ job_queue \in Seq(Jobs) /\ next_job \in Jobs
      /\ job_queue' = <<next_job>> \o job_queue
      /\ next_job' = next_job + 1
      /\ UNCHANGED <<entry, processed>>
  BY DetectorAssumption DEF TypeInv, TypeOK, AddJobPush, Jobs
<1>2. /\ job_queue' \in Seq(Jobs)
      /\ Len(job_queue') = n + 1
      /\ \A i \in 1..(n + 1) :
           job_queue'[i] = IF i = 1 THEN next_job ELSE job_queue[i - 1]
  BY <1>1, PushFrontLemma
<1>3. n \in Nat /\ next_job \in Nat
  BY <1>1, LenProperties, DetectorAssumption DEF Jobs
<1>4. \A i \in 1..n : job_queue[i] = next_job - i
  <2>1. job_queue = [i \in 1..n |-> next_job - i]
    BY DEF QueueInv, QueueIsSuffix
  <2>2. QED
    BY <2>1
<1>5. QueueIsSuffix'
  <2>1. DOMAIN job_queue' = 1..Len(job_queue') /\ job_queue' = [i \in DOMAIN job_queue' |-> job_queue'[i]]
    BY <1>2, LenProperties
  <2>2. ASSUME NEW i \in 1..Len(job_queue') PROVE job_queue'[i] = next_job' - i
    <3>1. CASE i = 1  BY <3>1, <1>1, <1>2, <1>3
    <3>2. CASE i # 1
      <4>1. i - 1 \in 1..n
        BY <3>2, <1>2, <1>3
      <4>2. job_queue'[i] = next_job - (i - 1)
        BY <4>1, <3>2, <1>2, <1>4
      <4>3. QED
        BY <4>2, <1>1, <1>3
    <3>3. QED
      BY <3>1, <3>2
  <2>3. QED
    BY <2>1, <2>2 DEF QueueIsSuffix
<1>6. Taken' = Taken /\ Len(job_queue') <= next_job' - 1
  <2>1. next_job' - 1 - Len(job_queue') = next_job - 1 - n
    BY <1>1, <1>2, <1>3
  <2>2. n <= next_job - 1
    BY DEF QueueInv
  <2>3. QED
    BY <2>1, <2>2, <1>1, <1>2, <1>3 DEF Taken
<1>7. \A v \in Workers : Busy(v)' <=> Busy(v)
  BY DEF AddJobPush, Woken, Busy, TypeInv, TypeOK
<1>8. EachJobOnce'
  BY <1>1, <1>6, <1>7 DEF QueueInv, EachJobOnce, InHand
<1>9. QED
  BY <1>5, <1>6, <1>8 DEF QueueInv

LEMMA QueueInvStep == TypeInv /\ QueueInv /\ [Next]_vars => QueueInv'
<1> SUFFICES ASSUME TypeInv, QueueInv, [Next]_vars PROVE QueueInv'
  OBVIOUS
<1> DEFINE Frame == /\ \A w \in Workers : Busy(w)' <=> Busy(w)
                    /\ UNCHANGED <<job_queue, next_job, entry, processed>>
<1> USE DEF TypeInv, TypeOK, Busy, Goto, Woken, queueVars, workerVars, mainVars
<1>1. ASSUME NEW w \in Workers, WorkerStep(w) PROVE QueueInv'
  <2>1. CASE WorkerLock(w)
    <3>1. Frame BY <2>1 DEF WorkerLock
    <3>2. QED   BY <3>1, QueueInvFrame
  <2>2. CASE WorkerSleep(w)
    <3>1. Frame BY <2>2 DEF WorkerSleep
    <3>2. QED   BY <3>1, QueueInvFrame
  <2>3. CASE WorkerReturn(w)
    <3>1. Frame BY <2>3 DEF WorkerReturn
    <3>2. QED   BY <3>1, QueueInvFrame
  <2>4. CASE TakeJob(w)
    BY <2>4, TakeJobQueueInv
  <2>5. CASE NotifyTaken(w)
    <3>1. Frame BY <2>5 DEF NotifyTaken
    <3>2. QED   BY <3>1, QueueInvFrame
  <2>6. CASE Process(w)
    BY <2>6, ProcessQueueInv
  <2>7. QED
    BY <1>1, <2>1, <2>2, <2>3, <2>4, <2>5, <2>6 DEF WorkerStep
<1>2. ASSUME MainStep PROVE QueueInv'
  <2>1. CASE AddJobPush
    BY <2>1, AddJobPushQueueInv
  <2>2. CASE ~AddJobPush
    <3>1. Frame
      BY <1>2, <2>2 DEF MainStep, AddJobLock, WaitLock, WaitSleep, WaitEmpty,
         NotifyEmpty, DoneLock, SetDone, NotifyDone, JoinWorkers
    <3>2. QED
      BY <3>1, QueueInvFrame
  <2>3. QED
    BY <2>1, <2>2
<1>3. CASE SpuriousWakeup
  <2>1. Frame
    BY <1>3 DEF SpuriousWakeup, SpuriousMain, SpuriousWorker
  <2>2. QED
    BY <2>1, QueueInvFrame
<1>4. CASE UNCHANGED vars
  <2>1. Frame BY <1>4 DEF vars
  <2>2. QED   BY <2>1, QueueInvFrame
<1>5. QED
  BY <1>1, <1>2, <1>3, <1>4 DEF Next

LEMMA QueueInvInit == Init => QueueInv
<1> SUFFICES ASSUME Init PROVE QueueInv
  OBVIOUS
<1>1. Len(job_queue) = 0 /\ job_queue = <<>> /\ next_job = 1
  BY DEF Init
<1>2. QueueIsSuffix
  BY <1>1 DEF QueueIsSuffix
<1>3. InHand = {} /\ Taken = {} /\ processed = {}
  BY <1>1 DEF Init, InHand, Busy, Taken
<1>4. \A w \in Workers : ~Busy(w)
  BY DEF Init, Busy
<1>5. QED
  BY <1>1, <1>2, <1>3, <1>4 DEF QueueInv, EachJobOnce

LEMMA QueueCorrect == Spec => []QueueInv
BY QueueInvInit, QueueInvStep, TypeInvCorrect, PTL DEF Spec

-----------------------------------------------------------------------------
(* Layer 4: the end of the program.                                        *)

LEMMA DoneInvStep == TypeInv /\ DoneInv /\ [Next]_vars => DoneInv'
<1> SUFFICES ASSUME TypeInv, DoneInv, [Next]_vars PROVE DoneInv'
  OBVIOUS
<1> USE DEF TypeInv, TypeOK, DoneInv, WorkerLabels, MainLabels,
        Acquire, Release, Goto, Woken, queueVars, workerVars, mainVars
<1>1. ASSUME NEW w \in Workers, WorkerStep(w) PROVE DoneInv'
  <2>1. CASE WorkerLock(w)    BY <2>1 DEF WorkerLock
  <2>2. CASE WorkerSleep(w)   BY <2>2 DEF WorkerSleep
  <2>3. CASE WorkerReturn(w)  BY <2>3 DEF WorkerReturn
  <2>4. CASE TakeJob(w)       BY <2>4 DEF TakeJob
  <2>5. CASE NotifyTaken(w)   BY <2>5 DEF NotifyTaken
  <2>6. CASE Process(w)       BY <2>6 DEF Process
  <2>7. QED
    BY <1>1, <2>1, <2>2, <2>3, <2>4, <2>5, <2>6 DEF WorkerStep
<1>2. ASSUME MainStep PROVE DoneInv'
  <2>1. CASE AddJobLock  BY <2>1 DEF AddJobLock
  <2>2. CASE AddJobPush  BY <2>2 DEF AddJobPush
  <2>3. CASE WaitLock    BY <2>3 DEF WaitLock
  <2>4. CASE WaitSleep   BY <2>4 DEF WaitSleep
  <2>5. CASE WaitEmpty   BY <2>5 DEF WaitEmpty
  <2>6. CASE NotifyEmpty BY <2>6 DEF NotifyEmpty
  <2>7. CASE DoneLock    BY <2>7 DEF DoneLock
  <2>8. CASE SetDone     BY <2>8 DEF SetDone
  <2>9. CASE NotifyDone  BY <2>9 DEF NotifyDone
  <2>10. CASE JoinWorkers BY <2>10 DEF JoinWorkers
  <2>11. QED
    BY <1>2, <2>1, <2>2, <2>3, <2>4, <2>5, <2>6, <2>7, <2>8, <2>9, <2>10
       DEF MainStep
<1>3. CASE SpuriousWakeup
  BY <1>3 DEF SpuriousWakeup, SpuriousMain, SpuriousWorker
<1>4. CASE UNCHANGED vars
  BY <1>4 DEF vars
<1>5. QED
  BY <1>1, <1>2, <1>3, <1>4 DEF Next

LEMMA DoneCorrect == Spec => []DoneInv
<1>1. Init => DoneInv
  BY DEF Init, DoneInv
<1>2. QED
  BY <1>1, DoneInvStep, TypeInvCorrect, PTL DEF Spec

-----------------------------------------------------------------------------
(* Layer 5: no lost wake-up.                                               *)

LEMMA NoLostWakeupStep ==
  TypeInv /\ DoneInv /\ NoLostWakeup /\ [Next]_vars => NoLostWakeup'
<1> SUFFICES ASSUME TypeInv, DoneInv, NoLostWakeup, [Next]_vars
             PROVE  NoLostWakeup'
  OBVIOUS
<1> USE DEF TypeInv, TypeOK, DoneInv, NoLostWakeup, WorkerLabels, MainLabels,
        Acquire, Release, Goto, Woken, queueVars, workerVars, mainVars
<1>1. ASSUME NEW w \in Workers, WorkerStep(w) PROVE NoLostWakeup'
  <2>1. CASE WorkerLock(w)    BY <2>1 DEF WorkerLock
  <2>2. CASE WorkerSleep(w)   BY <2>2 DEF WorkerSleep
  <2>3. CASE WorkerReturn(w)  BY <2>3 DEF WorkerReturn
  <2>4. CASE TakeJob(w)       BY <2>4 DEF TakeJob
  <2>5. CASE NotifyTaken(w)   BY <2>5 DEF NotifyTaken
  <2>6. CASE Process(w)       BY <2>6 DEF Process
  <2>7. QED
    BY <1>1, <2>1, <2>2, <2>3, <2>4, <2>5, <2>6 DEF WorkerStep
<1>2. ASSUME MainStep PROVE NoLostWakeup'
  <2>1. CASE AddJobLock  BY <2>1 DEF AddJobLock
  <2>2. CASE AddJobPush  BY <2>2 DEF AddJobPush
  <2>3. CASE WaitLock    BY <2>3 DEF WaitLock
  <2>4. CASE WaitSleep   BY <2>4 DEF WaitSleep
  <2>5. CASE WaitEmpty   BY <2>5 DEF WaitEmpty
  <2>6. CASE NotifyEmpty BY <2>6 DEF NotifyEmpty
  <2>7. CASE DoneLock    BY <2>7 DEF DoneLock
  <2>8. CASE SetDone     BY <2>8 DEF SetDone
  <2>9. CASE NotifyDone  BY <2>9 DEF NotifyDone
  <2>10. CASE JoinWorkers BY <2>10 DEF JoinWorkers
  <2>11. QED
    BY <1>2, <2>1, <2>2, <2>3, <2>4, <2>5, <2>6, <2>7, <2>8, <2>9, <2>10
       DEF MainStep
<1>3. CASE SpuriousWakeup
  BY <1>3 DEF SpuriousWakeup, SpuriousMain, SpuriousWorker
<1>4. CASE UNCHANGED vars
  BY <1>4 DEF vars
<1>5. QED
  BY <1>1, <1>2, <1>3, <1>4 DEF Next

(* The invariant behind every safety property of the detector.             *)
THEOREM Invariance == Spec => []IInv
<1>1. Init => NoLostWakeup
  BY DEF Init, NoLostWakeup
<1>2. Spec => []NoLostWakeup
  BY <1>1, NoLostWakeupStep, TypeInvCorrect, DoneCorrect, PTL DEF Spec
<1>3. QED
  BY <1>2, TypeInvCorrect, MutexCorrect, QueueCorrect, DoneCorrect, PTL DEF IInv

-----------------------------------------------------------------------------
(* The safety properties.                                                  *)

(* A notify_all that a blocked thread needs is always still to come.       *)
THEOREM WakeupsKept == Spec => []NoLostWakeup
BY Invariance, PTL DEF IInv

(* Jobs leave the queue in the order main submitted them, and each is      *)
(* processed by one worker, once.                                          *)
THEOREM JobsOnceInOrder == Spec => [](QueueIsSuffix /\ EachJobOnce)
<1>1. IInv => QueueIsSuffix /\ EachJobOnce
  BY DEF IInv, QueueInv
<1>2. QED
  BY <1>1, Invariance, PTL

(* No job is left in the queue when the flag is up or a worker has gone.   *)
THEOREM NothingAbandoned == Spec => []NoJobAbandoned
<1>1. IInv => NoJobAbandoned
  BY DEF IInv, TypeInv, DoneInv, NoJobAbandoned
<1>2. QED
  BY <1>1, Invariance, PTL

LEMMA AllProcessedAtJoin == IInv => JoinedAfterAllJobs
<1> SUFFICES ASSUME IInv, main_pc = "joined" PROVE processed = Jobs
  BY DEF JoinedAfterAllJobs
<1>1. /\ job_queue = <<>> /\ next_job = NumJobs + 1
      /\ \A w \in Workers : worker_pc[w] = "returned"
  BY DEF IInv, TypeInv, DoneInv
<1>2. InHand = {}
  BY <1>1 DEF InHand, Busy
<1>3. Taken = 1..NumJobs
  BY <1>1, DetectorAssumption DEF Taken
<1>4. QED
  BY <1>2, <1>3 DEF IInv, QueueInv, EachJobOnce, Jobs

(* When wait_for_workers returns, every file has been processed.           *)
THEOREM JoinIsComplete == Spec => []JoinedAfterAllJobs
BY AllProcessedAtJoin, Invariance, PTL

(* No lost wake-up, and the threads never all wait on each other.          *)
THEOREM NoDeadlock == Spec => [](NoLostWakeup /\ NeverStuck)
<1>1. ASSUME IInv, ~NeverStuck PROVE FALSE
  <2> USE <1>1 DEF IInv, TypeInv, TypeOK
  <2>1. /\ main_pc \in MainLabels /\ main_pc # "joined"
        /\ ~MainCanGoOn
        /\ \A w \in Workers : ~CanGoOn(w)
    BY DEF NeverStuck
  <2>2. job_queue_mutex = NoThread
    BY <2>1 DEF MutexInv, CanGoOn, MainCanGoOn
  <2>3. \A w \in Workers : worker_pc[w] \in {"blocked", "returned"}
    BY <2>1, <2>2 DEF CanGoOn, WorkerLabels
  <2>4. main_pc \in {"wait_blocked", "join"}
    BY <2>1, <2>2 DEF MainCanGoOn, MainLabels
  <2>5. CASE main_pc = "wait_blocked"
    <3>1. \A w \in Workers : worker_pc[w] = "blocked"
      BY <2>3, <2>5 DEF DoneInv
    <3>2. job_queue = <<>>
      BY <3>1, DetectorAssumption DEF NoLostWakeup
    <3>3. QED
      BY <2>5, <3>1, <3>2 DEF NoLostWakeup
  <2>6. CASE main_pc = "join"
    <3>1. PICK w \in Workers : worker_pc[w] = "blocked"
      BY <2>1, <2>3, <2>6 DEF MainCanGoOn
    <3>2. QED
      BY <2>6, <3>1 DEF DoneInv, NoLostWakeup
  <2>7. QED
    BY <2>4, <2>5, <2>6
<1>2. IInv => NoLostWakeup /\ NeverStuck
  BY <1>1 DEF IInv
<1>3. QED
  BY <1>2, Invariance, PTL

-----------------------------------------------------------------------------
(* The refinement.                                                         *)

(* When a worker is about to take a job, the others hold fewer jobs than   *)
(* there are workers.                                                      *)
LEMMA WorkerToSpare ==
  ASSUME TypeInv, NEW w \in Workers, ~Busy(w)
  PROVE  Cardinality(InHand) < Cardinality(Workers)
<1> DEFINE B == {v \in Workers : Busy(v)}
           f == [v \in B |-> entry[v]]
<1>1. IsFiniteSet(Workers)
  BY DetectorAssumption
<1>2. B \in SUBSET Workers /\ B # Workers
  OBVIOUS
<1>3. /\ IsFiniteSet(B)
      /\ Cardinality(B) <= Cardinality(Workers)
      /\ Cardinality(Workers) # Cardinality(B)
  BY <1>1, <1>2, FS_Subset
<1>4. f \in Surjection(B, InHand)
  BY DEF Surjection, InHand
<1>5. IsFiniteSet(InHand) /\ Cardinality(InHand) <= Cardinality(B)
  BY <1>3, <1>4, FS_Surjection
<1>6. /\ Cardinality(Workers) \in Nat
      /\ Cardinality(B) \in Nat
      /\ Cardinality(InHand) \in Nat
  BY <1>1, <1>3, <1>5, FS_CardinalityType
<1>7. QED
  BY <1>3, <1>5, <1>6

(* In JobPool's terms: the jobs in progress are those in a worker's hands. *)
LEMMA InProgressIsInHand == IInv => Pool!InProgress = InHand
BY DEF IInv, QueueInv, EachJobOnce, Taken, Pool!InProgress

LEMMA TakeJobStarts ==
  ASSUME IInv, NEW w \in Workers, TakeJob(w)
  PROVE  Pool!Start
<1>1. /\ job_queue \in Seq(Jobs) /\ job_queue # <<>>
      /\ job_queue' = SubSeq(job_queue, 1, Len(job_queue) - 1)
      /\ UNCHANGED <<next_job, processed, main_pc>>
      /\ next_job \in Nat
  BY DetectorAssumption DEF IInv, TypeInv, TypeOK, TakeJob, mainVars
<1>2. Len(job_queue) \in Nat \ {0} /\ Len(job_queue') = Len(job_queue) - 1
  BY <1>1, PopBackLemma
<1>3. Pool!Cardinality(Pool!InProgress) < Cardinality(Workers)
  <2>1. Cardinality(Pool!InProgress) < Cardinality(Workers)
    BY InProgressIsInHand, WorkerToSpare DEF IInv, TakeJob, Busy
  <2>2. Pool!Cardinality(Pool!InProgress) = Cardinality(Pool!InProgress)
    BY Zenon DEF Pool!Cardinality, Cardinality
  <2>3. QED
    BY <2>1, <2>2
<1>4. /\ next_job - 1 - Len(job_queue) < next_job - 1
      /\ next_job' - 1 - Len(job_queue') = next_job - 1 - Len(job_queue) + 1
  BY <1>1, <1>2
<1>5. QED
  BY <1>1, <1>3, <1>4 DEF Pool!Start

LEMMA AddJobPushSubmits == IInv /\ AddJobPush => Pool!Submit
<1> SUFFICES ASSUME IInv, AddJobPush PROVE Pool!Submit
  OBVIOUS
<1>1. /\ job_queue \in Seq(Jobs) /\ next_job \in Jobs
      /\ job_queue' = <<next_job>> \o job_queue
      /\ next_job' = next_job + 1
      /\ processed' = processed
      /\ main_pc # "joined" /\ main_pc' # "joined"
  BY DetectorAssumption DEF IInv, TypeInv, TypeOK, AddJobPush, Jobs
<1>2. Len(job_queue') = Len(job_queue) + 1 /\ Len(job_queue) \in Nat
  BY <1>1, PushFrontLemma, LenProperties
<1>3. next_job \in Nat /\ next_job <= NumJobs /\ NumJobs \in Nat
  BY <1>1, DetectorAssumption DEF Jobs
<1>4. /\ next_job - 1 < NumJobs
      /\ next_job' - 1 = next_job - 1 + 1
      /\ next_job' - 1 - Len(job_queue') = next_job - 1 - Len(job_queue)
  BY <1>1, <1>2, <1>3
<1>5. QED
  BY <1>1, <1>4 DEF Pool!Submit

LEMMA ProcessFinishes ==
  ASSUME IInv, NEW w \in Workers, Process(w)
  PROVE  \E j \in Pool!InProgress : Pool!Finish(j)
<1>1. entry[w] \in Pool!InProgress
  BY InProgressIsInHand DEF Process, InHand, Busy
<1>2. Pool!Finish(entry[w])
  BY <1>1 DEF Process, Pool!Finish, queueVars, mainVars
<1>3. QED
  BY <1>1, <1>2

LEMMA JoinReleases == IInv /\ IInv' /\ JoinWorkers => Pool!Release
<1> SUFFICES ASSUME IInv, IInv', JoinWorkers PROVE Pool!Release
  OBVIOUS
<1>1. /\ main_pc = "join" /\ main_pc' = "joined"
      /\ UNCHANGED <<job_queue, next_job, processed>>
      /\ \A w \in Workers : worker_pc[w] = "returned"
  BY DEF JoinWorkers, queueVars, workerVars
<1>2. job_queue = <<>> /\ next_job = NumJobs + 1 /\ InHand = {}
  BY <1>1 DEF IInv, TypeInv, DoneInv, InHand, Busy
<1>3. processed = 1..NumJobs
  BY <1>2, DetectorAssumption DEF IInv, QueueInv, EachJobOnce, Taken
<1>4. QED
  BY <1>1, <1>3 DEF Pool!Release

LEMMA PoolInit == Init => Pool!Init
<1> SUFFICES ASSUME Init PROVE Pool!Init
  OBVIOUS
<1>1. Len(job_queue) = 0 /\ next_job = 1 /\ processed = {}
  BY DEF Init
<1>2. next_job - 1 = 0 /\ next_job - 1 - Len(job_queue) = 0
  BY <1>1
<1>3. (main_pc = "joined") = FALSE
  BY DEF Init
<1>4. QED
  BY <1>1, <1>2, <1>3 DEF Pool!Init

LEMMA PoolStep == IInv /\ IInv' /\ [Next]_vars => [Pool!Next]_(Pool!vars)
<1> SUFFICES ASSUME IInv, IInv', [Next]_vars PROVE [Pool!Next]_(Pool!vars)
  OBVIOUS
<1> DEFINE Frame == /\ UNCHANGED <<job_queue, next_job, processed>>
                    /\ (main_pc' = "joined") = (main_pc = "joined")
<1>0. Frame => UNCHANGED Pool!vars
  BY DEF Pool!vars
<1> USE DEF queueVars, workerVars, mainVars
<1>1. ASSUME NEW w \in Workers, WorkerStep(w)
      PROVE  [Pool!Next]_(Pool!vars)
  <2>1. CASE TakeJob(w)
    BY <2>1, TakeJobStarts DEF Pool!Next
  <2>2. CASE Process(w)
    BY <2>2, ProcessFinishes DEF Pool!Next
  <2>3. CASE ~TakeJob(w) /\ ~Process(w)
    BY <1>0, <1>1, <2>3
       DEF WorkerStep, WorkerLock, WorkerSleep, WorkerReturn, NotifyTaken
  <2>4. QED
    BY <2>1, <2>2, <2>3
<1>2. ASSUME MainStep PROVE [Pool!Next]_(Pool!vars)
  <2>1. CASE AddJobPush
    BY <2>1, AddJobPushSubmits DEF Pool!Next
  <2>2. CASE JoinWorkers
    BY <2>2, JoinReleases DEF Pool!Next
  <2>3. CASE ~AddJobPush /\ ~JoinWorkers
    <3>1. Frame
      BY <1>2, <2>3 DEF MainStep, AddJobLock, WaitLock, WaitSleep, WaitEmpty,
         NotifyEmpty, DoneLock, SetDone, NotifyDone
    <3>2. QED
      BY <1>0, <3>1
  <2>4. QED
    BY <2>1, <2>2, <2>3
<1>3. CASE SpuriousWakeup
  BY <1>0, <1>3 DEF SpuriousWakeup, SpuriousMain, SpuriousWorker
<1>4. CASE UNCHANGED vars
  BY <1>0, <1>4 DEF vars
<1>5. QED
  BY <1>1, <1>2, <1>3, <1>4 DEF Next

(* The detector implements the safety part of JobPool, for any number of   *)
(* workers and files: each of its steps is a step of JobPool or none.      *)
THEOREM RefinesJobPool == Spec => Pool!Safety
BY PoolInit, PoolStep, Invariance, PTL DEF Spec, Pool!Safety
=============================================================================
