----------------------------- MODULE Main_Proofs -----------------------------
(***************************************************************************)
(* Proofs about Main, for every set of command lines, every number of      *)
(* threads and every number of files.                                      *)
(*                                                                         *)
(* A behaviour has one number of threads and of files, but these are       *)
(* variables of Main.  So what its detector preserves is stated here for   *)
(* all n and k (DetectorInv), along the layers of the invariant of         *)
(* Statement_Detector_Proofs: types, the queue, the end, the wake-ups.     *)
(* MainInv then says in which phase which of it holds.                     *)
(***************************************************************************)
EXTENDS Main, TLAPS, SequenceTheorems

BusyLabels == {"notify", "process"}
QueueLeft  == {"notify_empty", "done", "set_done", "notify_done", "join", "joined"}

Busy(w)   == worker_pc[w] \in BusyLabels
InHand(n) == {entry[w] : w \in {v \in 1..n : Busy(v)}}
Taken     == 1..(next_job - 1 - Len(job_queue))

(* A detector with n threads for k files.                                  *)
DetectorTyping(n, k) ==
  /\ Detector(n, k)!TypeOK
  /\ \A w \in 1..n : Busy(w) => entry[w] \in 1..k
  /\ IF main_pc \in {"add", "push"} THEN next_job <= k ELSE next_job = k + 1

DetectorQueue(n) ==
  /\ Len(job_queue) <= next_job - 1
  /\ job_queue = [i \in 1..Len(job_queue) |-> next_job - i]
  /\ Taken = processed \cup InHand(n) /\ processed \cap InHand(n) = {}
  /\ \A v, w \in 1..n : Busy(v) /\ Busy(w) /\ entry[v] = entry[w] => v = w

DetectorEnd(n) ==
  /\ all_work_done <=> main_pc \in {"notify_done", "join", "joined"}
  /\ main_pc \in QueueLeft => job_queue = <<>>
  /\ \A w \in 1..n : worker_pc[w] = "returned" => all_work_done
  /\ main_pc = "joined" => \A w \in 1..n : worker_pc[w] = "returned"

DetectorWakes(n) ==
  /\ \A w \in 1..n : worker_pc[w] = "blocked" =>
       job_queue = <<>> /\ (all_work_done => main_pc = "notify_done")
  /\ main_pc = "wait_blocked" /\ job_queue = <<>> =>
       \E w \in 1..n : worker_pc[w] = "notify"

DetectorInv(n, k) ==
  DetectorTyping(n, k) /\ DetectorQueue(n) /\ DetectorEnd(n) /\ DetectorWakes(n)

-----------------------------------------------------------------------------
(* What push_front and pop_back do to a queue.                             *)
LEMMA PushFrontLemma ==
  ASSUME NEW S, NEW q \in Seq(S), NEW x \in S
  PROVE  /\ <<x>> \o q \in Seq(S)
         /\ Len(<<x>> \o q) = Len(q) + 1
         /\ \A i \in 1..(Len(q) + 1) :
              (<<x>> \o q)[i] = IF i = 1 THEN x ELSE q[i - 1]
<1>1. <<x>> \in Seq(S) /\ Len(<<x>>) = 1 /\ <<x>>[1] = x
  OBVIOUS
<1>2. QED
  BY <1>1, ConcatProperties, LenProperties

LEMMA PopBackLemma ==
  ASSUME NEW S, NEW q \in Seq(S), q # <<>>
  PROVE  /\ q[Len(q)] \in S
         /\ Len(q) \in Nat \ {0}
         /\ SubSeq(q, 1, Len(q) - 1) \in Seq(S)
         /\ Len(SubSeq(q, 1, Len(q) - 1)) = Len(q) - 1
         /\ \A i \in 1..(Len(q) - 1) : SubSeq(q, 1, Len(q) - 1)[i] = q[i]
<1>1. Len(q) \in Nat \ {0}
  BY EmptySeq, LenProperties
<1>2. \A i \in 1..Len(q) : q[i] \in S
  BY ElementOfSeq
<1> DEFINE n     == Len(q)
           front == SubSeq(q, 1, n - 1)
<1>3. n \in Nat \ {0} /\ n - 1 \in Int /\ \A i \in 1..(n - 1) : q[i] \in S
  BY <1>1, <1>2
<1>4. /\ front \in Seq(S)
      /\ Len(front) = IF 1 <= n - 1 THEN n - 1 - 1 + 1 ELSE 0
      /\ \A i \in 1..(n - 1 - 1 + 1) : front[i] = q[1 + i - 1]
  <2> HIDE DEF n
  <2>1. QED
    BY <1>3, SubSeqProperties
<1> HIDE DEF n, front
<1>5. Len(front) = n - 1 /\ \A i \in 1..(n - 1) : front[i] = q[i]
  BY <1>3, <1>4
<1>6. QED
  BY <1>1, <1>2, <1>4, <1>5 DEF n, front

-----------------------------------------------------------------------------
(* The detector.                                                           *)

LEMMA DetectorTypingStep ==
  ASSUME NEW n \in Nat, NEW k \in Nat, DetectorTyping(n, k),
         Detector(n, k)!Next
  PROVE  DetectorTyping(n, k)'
<1> USE DEF DetectorTyping, Busy, BusyLabels, Detector!TypeOK, Detector!Jobs,
        Detector!NoJob, Detector!WorkerLabels, Detector!MainLabels,
        Detector!Acquire, Detector!Release, Detector!Goto, Detector!Woken,
        Detector!queueVars, Detector!workerVars, Detector!mainVars
<1>1. ASSUME NEW w \in 1..n, Detector(n, k)!WorkerStep(w)
      PROVE  DetectorTyping(n, k)'
  <2>1. CASE Detector(n, k)!WorkerLock(w)    BY <2>1 DEF Detector!WorkerLock
  <2>2. CASE Detector(n, k)!WorkerSleep(w)   BY <2>2 DEF Detector!WorkerSleep
  <2>3. CASE Detector(n, k)!WorkerReturn(w)  BY <2>3 DEF Detector!WorkerReturn
  <2>4. CASE Detector(n, k)!TakeJob(w)
    <3>1. job_queue[Len(job_queue)] \in 1..k /\ job_queue' \in Seq(1..k)
      BY <2>4, PopBackLemma DEF Detector!TakeJob
    <3>2. QED
      BY <2>4, <3>1 DEF Detector!TakeJob
  <2>5. CASE Detector(n, k)!NotifyTaken(w)   BY <2>5 DEF Detector!NotifyTaken
  <2>6. CASE Detector(n, k)!Process(w)       BY <2>6 DEF Detector!Process
  <2>7. QED
    BY <1>1, <2>1, <2>2, <2>3, <2>4, <2>5, <2>6 DEF Detector!WorkerStep
<1>2. ASSUME Detector(n, k)!MainStep PROVE DetectorTyping(n, k)'
  <2>1. CASE Detector(n, k)!AddJobLock  BY <2>1 DEF Detector!AddJobLock
  <2>2. CASE Detector(n, k)!AddJobPush
    <3>1. next_job \in 1..k
      BY <2>2 DEF Detector!AddJobPush
    <3>2. job_queue' \in Seq(1..k)
      BY <2>2, <3>1, PushFrontLemma DEF Detector!AddJobPush
    <3>3. QED
      BY <2>2, <3>1, <3>2 DEF Detector!AddJobPush
  <2>3. CASE Detector(n, k)!WaitLock    BY <2>3 DEF Detector!WaitLock
  <2>4. CASE Detector(n, k)!WaitSleep   BY <2>4 DEF Detector!WaitSleep
  <2>5. CASE Detector(n, k)!WaitEmpty   BY <2>5 DEF Detector!WaitEmpty
  <2>6. CASE Detector(n, k)!NotifyEmpty BY <2>6 DEF Detector!NotifyEmpty
  <2>7. CASE Detector(n, k)!DoneLock    BY <2>7 DEF Detector!DoneLock
  <2>8. CASE Detector(n, k)!SetDone     BY <2>8 DEF Detector!SetDone
  <2>9. CASE Detector(n, k)!NotifyDone  BY <2>9 DEF Detector!NotifyDone
  <2>10. CASE Detector(n, k)!JoinWorkers BY <2>10 DEF Detector!JoinWorkers
  <2>11. QED
    BY <1>2, <2>1, <2>2, <2>3, <2>4, <2>5, <2>6, <2>7, <2>8, <2>9, <2>10
       DEF Detector!MainStep
<1>3. CASE Detector(n, k)!SpuriousWakeup
  BY <1>3 DEF Detector!SpuriousWakeup, Detector!SpuriousMain, Detector!SpuriousWorker
<1>4. QED
  BY <1>1, <1>2, <1>3 DEF Detector!Next

LEMMA DetectorEndStep ==
  ASSUME NEW n \in Nat, NEW k \in Nat, DetectorTyping(n, k), DetectorEnd(n),
         Detector(n, k)!Next
  PROVE  DetectorEnd(n)'
<1> USE DEF DetectorTyping, DetectorEnd, QueueLeft, Detector!TypeOK,
        Detector!WorkerLabels, Detector!MainLabels,
        Detector!Acquire, Detector!Release, Detector!Goto, Detector!Woken,
        Detector!queueVars, Detector!workerVars, Detector!mainVars
<1>1. ASSUME NEW w \in 1..n, Detector(n, k)!WorkerStep(w)
      PROVE  DetectorEnd(n)'
  <2>1. CASE Detector(n, k)!WorkerLock(w)    BY <2>1 DEF Detector!WorkerLock
  <2>2. CASE Detector(n, k)!WorkerSleep(w)   BY <2>2 DEF Detector!WorkerSleep
  <2>3. CASE Detector(n, k)!WorkerReturn(w)  BY <2>3 DEF Detector!WorkerReturn
  <2>4. CASE Detector(n, k)!TakeJob(w)       BY <2>4 DEF Detector!TakeJob
  <2>5. CASE Detector(n, k)!NotifyTaken(w)   BY <2>5 DEF Detector!NotifyTaken
  <2>6. CASE Detector(n, k)!Process(w)       BY <2>6 DEF Detector!Process
  <2>7. QED
    BY <1>1, <2>1, <2>2, <2>3, <2>4, <2>5, <2>6 DEF Detector!WorkerStep
<1>2. ASSUME Detector(n, k)!MainStep PROVE DetectorEnd(n)'
  <2>1. CASE Detector(n, k)!AddJobLock  BY <2>1 DEF Detector!AddJobLock
  <2>2. CASE Detector(n, k)!AddJobPush  BY <2>2 DEF Detector!AddJobPush
  <2>3. CASE Detector(n, k)!WaitLock    BY <2>3 DEF Detector!WaitLock
  <2>4. CASE Detector(n, k)!WaitSleep   BY <2>4 DEF Detector!WaitSleep
  <2>5. CASE Detector(n, k)!WaitEmpty   BY <2>5 DEF Detector!WaitEmpty
  <2>6. CASE Detector(n, k)!NotifyEmpty BY <2>6 DEF Detector!NotifyEmpty
  <2>7. CASE Detector(n, k)!DoneLock    BY <2>7 DEF Detector!DoneLock
  <2>8. CASE Detector(n, k)!SetDone     BY <2>8 DEF Detector!SetDone
  <2>9. CASE Detector(n, k)!NotifyDone  BY <2>9 DEF Detector!NotifyDone
  <2>10. CASE Detector(n, k)!JoinWorkers BY <2>10 DEF Detector!JoinWorkers
  <2>11. QED
    BY <1>2, <2>1, <2>2, <2>3, <2>4, <2>5, <2>6, <2>7, <2>8, <2>9, <2>10
       DEF Detector!MainStep
<1>3. CASE Detector(n, k)!SpuriousWakeup
  BY <1>3 DEF Detector!SpuriousWakeup, Detector!SpuriousMain, Detector!SpuriousWorker
<1>4. QED
  BY <1>1, <1>2, <1>3 DEF Detector!Next

LEMMA DetectorWakesStep ==
  ASSUME NEW n \in Nat, NEW k \in Nat, DetectorTyping(n, k), DetectorEnd(n),
         DetectorWakes(n), Detector(n, k)!Next
  PROVE  DetectorWakes(n)'
<1> USE DEF DetectorTyping, DetectorEnd, DetectorWakes, QueueLeft, Detector!TypeOK,
        Detector!WorkerLabels, Detector!MainLabels,
        Detector!Acquire, Detector!Release, Detector!Goto, Detector!Woken,
        Detector!queueVars, Detector!workerVars, Detector!mainVars
<1>1. ASSUME NEW w \in 1..n, Detector(n, k)!WorkerStep(w)
      PROVE  DetectorWakes(n)'
  <2>1. CASE Detector(n, k)!WorkerLock(w)    BY <2>1 DEF Detector!WorkerLock
  <2>2. CASE Detector(n, k)!WorkerSleep(w)   BY <2>2 DEF Detector!WorkerSleep
  <2>3. CASE Detector(n, k)!WorkerReturn(w)  BY <2>3 DEF Detector!WorkerReturn
  <2>4. CASE Detector(n, k)!TakeJob(w)       BY <2>4 DEF Detector!TakeJob
  <2>5. CASE Detector(n, k)!NotifyTaken(w)   BY <2>5 DEF Detector!NotifyTaken
  <2>6. CASE Detector(n, k)!Process(w)       BY <2>6 DEF Detector!Process
  <2>7. QED
    BY <1>1, <2>1, <2>2, <2>3, <2>4, <2>5, <2>6 DEF Detector!WorkerStep
<1>2. ASSUME Detector(n, k)!MainStep PROVE DetectorWakes(n)'
  <2>1. CASE Detector(n, k)!AddJobLock  BY <2>1 DEF Detector!AddJobLock
  <2>2. CASE Detector(n, k)!AddJobPush  BY <2>2 DEF Detector!AddJobPush
  <2>3. CASE Detector(n, k)!WaitLock    BY <2>3 DEF Detector!WaitLock
  <2>4. CASE Detector(n, k)!WaitSleep   BY <2>4 DEF Detector!WaitSleep
  <2>5. CASE Detector(n, k)!WaitEmpty   BY <2>5 DEF Detector!WaitEmpty
  <2>6. CASE Detector(n, k)!NotifyEmpty BY <2>6 DEF Detector!NotifyEmpty
  <2>7. CASE Detector(n, k)!DoneLock    BY <2>7 DEF Detector!DoneLock
  <2>8. CASE Detector(n, k)!SetDone     BY <2>8 DEF Detector!SetDone
  <2>9. CASE Detector(n, k)!NotifyDone  BY <2>9 DEF Detector!NotifyDone
  <2>10. CASE Detector(n, k)!JoinWorkers BY <2>10 DEF Detector!JoinWorkers
  <2>11. QED
    BY <1>2, <2>1, <2>2, <2>3, <2>4, <2>5, <2>6, <2>7, <2>8, <2>9, <2>10
       DEF Detector!MainStep
<1>3. CASE Detector(n, k)!SpuriousWakeup
  BY <1>3 DEF Detector!SpuriousWakeup, Detector!SpuriousMain, Detector!SpuriousWorker
<1>4. QED
  BY <1>1, <1>2, <1>3 DEF Detector!Next

(* A step that neither changes the queue nor who holds what.               *)
LEMMA DetectorQueueFrame ==
  ASSUME NEW n \in Nat, DetectorQueue(n),
         \A w \in 1..n : Busy(w)' <=> Busy(w),
         UNCHANGED <<job_queue, next_job, entry, processed>>
  PROVE  DetectorQueue(n)'
<1>1. InHand(n)' = InHand(n) /\ Taken' = Taken
  BY DEF InHand, Taken
<1>2. QED
  BY <1>1 DEF DetectorQueue

LEMMA IntervalExtend ==
  ASSUME NEW m \in Nat
  PROVE  1..(m + 1) = 1..m \cup {m + 1}
OBVIOUS

LEMMA TakeJobQueue ==
  ASSUME NEW n \in Nat, NEW k \in Nat, DetectorTyping(n, k), DetectorQueue(n),
         NEW w \in 1..n, Detector(n, k)!TakeJob(w)
  PROVE  DetectorQueue(n)'
<1> DEFINE l == Len(job_queue)
           j == job_queue[l]
<1>1. /\ job_queue \in Seq(1..k) /\ job_queue # <<>>
      /\ job_queue' = SubSeq(job_queue, 1, l - 1)
      /\ next_job' = next_job /\ processed' = processed
      /\ next_job \in 1..(k + 1)
  BY DEF DetectorTyping, Detector!TypeOK, Detector!TakeJob, Detector!mainVars,
         Detector!Jobs
<1>2. /\ l \in Nat \ {0}
      /\ Len(job_queue') = l - 1 /\ job_queue' \in Seq(1..k)
      /\ \A i \in 1..(l - 1) : job_queue'[i] = job_queue[i]
  BY <1>1, PopBackLemma
<1>3. \A i \in 1..l : job_queue[i] = next_job - i
  <2>1. job_queue = [i \in 1..l |-> next_job - i]
    BY DEF DetectorQueue
  <2>2. QED
    BY <2>1
<1>4. j = next_job - l /\ next_job \in Nat
  BY <1>1, <1>2, <1>3
<1>5. job_queue' = [i \in 1..Len(job_queue') |-> next_job' - i]
  <2>1. DOMAIN job_queue' = 1..Len(job_queue')
        /\ job_queue' = [i \in DOMAIN job_queue' |-> job_queue'[i]]
    BY <1>2, LenProperties
  <2>2. \A i \in 1..Len(job_queue') : job_queue'[i] = next_job' - i
    BY <1>1, <1>2, <1>3
  <2>3. QED
    BY <2>1, <2>2
<1>6. l <= next_job - 1 /\ Len(job_queue') <= next_job' - 1
  BY <1>1, <1>2, <1>4 DEF DetectorQueue
<1>7. Taken' = Taken \cup {j}
  <2> DEFINE m == next_job - 1 - l
  <2>1. /\ m \in Nat
        /\ m + 1 = next_job - l
        /\ next_job' - 1 - Len(job_queue') = m + 1
    BY <1>1, <1>2, <1>4, <1>6
  <2>2. Taken = 1..m /\ Taken' = 1..(m + 1)
    BY <2>1 DEF Taken
  <2> HIDE DEF m
  <2>3. Taken' = Taken \cup {m + 1}
    BY <2>1, <2>2, IntervalExtend
  <2>4. QED
    BY <2>1, <2>3, <1>4
<1>8. j \notin Taken
  BY <1>2, <1>4 DEF Taken
<1>9. /\ ~Busy(w) /\ Busy(w)' /\ entry'[w] = j
      /\ \A v \in (1..n) \ {w} : (Busy(v)' <=> Busy(v)) /\ entry'[v] = entry[v]
  BY DEF DetectorTyping, Detector!TypeOK, Detector!TakeJob, Detector!Goto, Busy,
         BusyLabels
<1>10. InHand(n)' = InHand(n) \cup {j}
  BY <1>9 DEF InHand
<1>11. j \notin InHand(n) /\ j \notin processed
  BY <1>8 DEF DetectorQueue
<1>12. /\ Taken' = processed' \cup InHand(n)'
       /\ processed' \cap InHand(n)' = {}
  BY <1>1, <1>7, <1>10, <1>11 DEF DetectorQueue
<1>13. ASSUME NEW u \in 1..n, NEW v \in 1..n, Busy(u)', Busy(v)',
              entry'[u] = entry'[v]
       PROVE  u = v
  <2>1. \A x \in (1..n) \ {w} : Busy(x)' => Busy(x) /\ entry'[x] # j
    BY <1>9, <1>11 DEF InHand
  <2>2. CASE u # w /\ v # w
    BY <1>9, <1>13, <2>1, <2>2 DEF DetectorQueue
  <2>3. CASE u = w \/ v = w
    BY <1>9, <1>13, <2>1, <2>3
  <2>4. QED
    BY <2>2, <2>3
<1>14. QED
  BY <1>5, <1>6, <1>12, <1>13 DEF DetectorQueue

LEMMA ProcessQueue ==
  ASSUME NEW n \in Nat, NEW k \in Nat, DetectorTyping(n, k), DetectorQueue(n),
         NEW w \in 1..n, Detector(n, k)!Process(w)
  PROVE  DetectorQueue(n)'
<1>1. /\ processed' = processed \cup {entry[w]}
      /\ job_queue' = job_queue /\ next_job' = next_job
      /\ Busy(w) /\ ~Busy(w)'
      /\ \A v \in (1..n) \ {w} : (Busy(v)' <=> Busy(v)) /\ entry'[v] = entry[v]
  BY DEF DetectorTyping, Detector!TypeOK, Detector!Process, Detector!Goto, Busy,
         BusyLabels, Detector!queueVars, Detector!mainVars
<1>2. InHand(n)' = InHand(n) \ {entry[w]} /\ entry[w] \in InHand(n)
  BY <1>1 DEF DetectorQueue, InHand
<1>3. Taken' = Taken
  BY <1>1 DEF Taken
<1>4. QED
  BY <1>1, <1>2, <1>3 DEF DetectorQueue

LEMMA AddJobQueue ==
  ASSUME NEW n \in Nat, NEW k \in Nat, DetectorTyping(n, k), DetectorQueue(n),
         Detector(n, k)!AddJobPush
  PROVE  DetectorQueue(n)'
<1> DEFINE l == Len(job_queue)
<1>1. /\ job_queue \in Seq(1..k) /\ next_job \in 1..k
      /\ job_queue' = <<next_job>> \o job_queue
      /\ next_job' = next_job + 1 /\ entry' = entry /\ processed' = processed
  BY DEF DetectorTyping, Detector!TypeOK, Detector!AddJobPush, Detector!Jobs
<1>2. /\ job_queue' \in Seq(1..k)
      /\ Len(job_queue') = l + 1
      /\ \A i \in 1..(l + 1) :
           job_queue'[i] = IF i = 1 THEN next_job ELSE job_queue[i - 1]
  BY <1>1, PushFrontLemma
<1>3. l \in Nat /\ next_job \in Nat
  BY <1>1, LenProperties
<1>4. \A i \in 1..l : job_queue[i] = next_job - i
  <2>1. job_queue = [i \in 1..l |-> next_job - i]
    BY DEF DetectorQueue
  <2>2. QED
    BY <2>1
<1>5. job_queue' = [i \in 1..Len(job_queue') |-> next_job' - i]
  <2>1. DOMAIN job_queue' = 1..Len(job_queue')
        /\ job_queue' = [i \in DOMAIN job_queue' |-> job_queue'[i]]
    BY <1>2, LenProperties
  <2>2. ASSUME NEW i \in 1..Len(job_queue') PROVE job_queue'[i] = next_job' - i
    <3>1. CASE i = 1
      BY <3>1, <1>1, <1>2, <1>3
    <3>2. CASE i # 1
      <4>1. i - 1 \in 1..l
        BY <3>2, <1>2, <1>3
      <4>2. job_queue'[i] = next_job - (i - 1)
        BY <4>1, <3>2, <1>2, <1>4
      <4>3. QED
        BY <4>2, <1>1, <1>3
    <3>3. QED
      BY <3>1, <3>2
  <2>3. QED
    BY <2>1, <2>2
<1>6. Taken' = Taken /\ Len(job_queue') <= next_job' - 1
  <2>1. next_job' - 1 - Len(job_queue') = next_job - 1 - l
    BY <1>1, <1>2, <1>3
  <2>2. l <= next_job - 1
    BY DEF DetectorQueue
  <2>3. QED
    BY <2>1, <2>2, <1>1, <1>2, <1>3 DEF Taken
<1>7. \A v \in 1..n : Busy(v)' <=> Busy(v)
  BY DEF Detector!AddJobPush, Detector!Woken, Busy, BusyLabels, DetectorTyping,
         Detector!TypeOK
<1>8. InHand(n)' = InHand(n)
  BY <1>1, <1>7 DEF InHand
<1>9. QED
  BY <1>1, <1>5, <1>6, <1>7, <1>8 DEF DetectorQueue

LEMMA DetectorQueueStep ==
  ASSUME NEW n \in Nat, NEW k \in Nat, DetectorTyping(n, k), DetectorQueue(n),
         Detector(n, k)!Next
  PROVE  DetectorQueue(n)'
<1> DEFINE Frame == /\ \A w \in 1..n : Busy(w)' <=> Busy(w)
                    /\ UNCHANGED <<job_queue, next_job, entry, processed>>
<1> USE DEF DetectorTyping, Busy, BusyLabels, Detector!TypeOK, Detector!Goto,
        Detector!Woken, Detector!queueVars, Detector!workerVars, Detector!mainVars
<1>1. ASSUME NEW w \in 1..n, Detector(n, k)!WorkerStep(w)
      PROVE  DetectorQueue(n)'
  <2>1. CASE Detector(n, k)!TakeJob(w)
    BY <2>1, TakeJobQueue
  <2>2. CASE Detector(n, k)!Process(w)
    BY <2>2, ProcessQueue
  <2>3. CASE ~Detector(n, k)!TakeJob(w) /\ ~Detector(n, k)!Process(w)
    <3>1. Frame
      BY <1>1, <2>3 DEF Detector!WorkerStep, Detector!WorkerLock,
         Detector!WorkerSleep, Detector!WorkerReturn, Detector!NotifyTaken
    <3>2. QED
      BY <3>1, DetectorQueueFrame
  <2>4. QED
    BY <2>1, <2>2, <2>3
<1>2. ASSUME Detector(n, k)!MainStep PROVE DetectorQueue(n)'
  <2>1. CASE Detector(n, k)!AddJobPush
    BY <2>1, AddJobQueue
  <2>2. CASE ~Detector(n, k)!AddJobPush
    <3>1. Frame
      BY <1>2, <2>2 DEF Detector!MainStep, Detector!AddJobLock, Detector!WaitLock,
         Detector!WaitSleep, Detector!WaitEmpty, Detector!NotifyEmpty,
         Detector!DoneLock, Detector!SetDone, Detector!NotifyDone,
         Detector!JoinWorkers
    <3>2. QED
      BY <3>1, DetectorQueueFrame
  <2>3. QED
    BY <2>1, <2>2
<1>3. CASE Detector(n, k)!SpuriousWakeup
  <2>1. Frame
    BY <1>3 DEF Detector!SpuriousWakeup, Detector!SpuriousMain,
                Detector!SpuriousWorker
  <2>2. QED
    BY <2>1, DetectorQueueFrame
<1>4. QED
  BY <1>1, <1>2, <1>3 DEF Detector!Next

(* What the detector does keeps all of it; and when main has joined the    *)
(* workers, every file has been processed.                                 *)
LEMMA DetectorStep ==
  ASSUME NEW n \in Nat, NEW k \in Nat, DetectorInv(n, k), Detector(n, k)!Next
  PROVE  DetectorInv(n, k)'
BY DetectorTypingStep, DetectorQueueStep, DetectorEndStep, DetectorWakesStep
   DEF DetectorInv

LEMMA DetectorJoined ==
  ASSUME NEW n \in Nat, NEW k \in Nat, DetectorInv(n, k), main_pc = "joined"
  PROVE  processed = 1..k
<1>1. /\ next_job = k + 1 /\ job_queue = <<>>
      /\ \A w \in 1..n : worker_pc[w] = "returned"
  BY DEF DetectorInv, DetectorTyping, DetectorEnd, QueueLeft
<1>2. InHand(n) = {}
  BY <1>1 DEF InHand, Busy, BusyLabels
<1>3. Taken = 1..k
  BY <1>1 DEF Taken
<1>4. QED
  BY <1>2, <1>3 DEF DetectorInv, DetectorQueue

(* What Statement_Detector says of it.                                     *)
LEMMA DetectorPromises ==
  ASSUME NEW n \in Nat, NEW k \in Nat, DetectorInv(n, k)
  PROVE  /\ Detector(n, k)!EachJobOnce
         /\ Detector(n, k)!NoJobAbandoned
         /\ Detector(n, k)!NoLostWakeup
         /\ Detector(n, k)!JoinedAfterAllJobs
<1>1. Detector(n, k)!EachJobOnce
  BY DEF DetectorInv, DetectorQueue, Detector!EachJobOnce, Detector!InHand,
         Detector!Taken, Detector!Busy, InHand, Taken, Busy, BusyLabels
<1>2. Detector(n, k)!NoJobAbandoned
  BY DEF DetectorInv, DetectorTyping, DetectorEnd, QueueLeft,
         Detector!NoJobAbandoned
<1>3. Detector(n, k)!NoLostWakeup
  BY DEF DetectorInv, DetectorWakes, Detector!NoLostWakeup
<1>4. Detector(n, k)!JoinedAfterAllJobs
  BY DetectorJoined DEF Detector!JoinedAfterAllJobs, Detector!Jobs
<1>5. QED
  BY <1>1, <1>2, <1>3, <1>4

-----------------------------------------------------------------------------
(* The command line.                                                       *)

(* When the first parse accepts a line, an option of it that may be given  *)
(* once has the value given.                                               *)
LEMMA GivenOnce ==
  ASSUME NEW line, NEW opt \in FirstOptions, ~FirstParseThrows(line)
  PROVE  /\ Given(line, opt) <=> Places(line, opt) # {}
         /\ \A i \in Places(line, opt) : GivenValue(line, opt) = line[i].value
<1>1. \A i, j \in Places(line, opt) : i = j
  BY DEF FirstParseThrows
<1>2. ASSUME NEW i \in Places(line, opt)
      PROVE  (CHOOSE j \in Places(line, opt) : TRUE) = i
  BY <1>1
<1>3. QED
  BY <1>2 DEF GivenValue, Given, Places

(* What the outcomes of init_options say about the line.                   *)
LEMMA Outcomes ==
  ASSUME NEW line
  PROVE  /\ init_options(line) = "version" => Given(line, "version")
         /\ init_options(line) = "help" => Given(line, "help")
         /\ init_options(line) = "accepted" =>
              /\ ~FirstParseThrows(line)
              /\ ~HasUnknown(line)
              /\ language(line) \in Languages
              /\ ~ThreadsRefused(line)
              /\ ~FormatRefused(line)
BY DEF init_options

LEMMA OptionFields ==
  ASSUME NEW line
  PROVE  /\ options(line).n_threads = NumberGiven(line, "threads", 1)
         /\ options(line).format = Value(line, "format", "dot")
         /\ options(line).out_file = Value(line, "out-file", "")
         /\ options(line).include_paths = IncludePaths(line)
<1>1. options(line).n_threads = NumberGiven(line, "threads", 1)
  BY DEF options
<1>2. options(line).format = Value(line, "format", "dot")
  BY DEF options
<1>3. options(line).out_file = Value(line, "out-file", "")
  BY DEF options
<1>4. options(line).include_paths = IncludePaths(line)
  BY DEF options
<1>5. QED
  BY <1>1, <1>2, <1>3, <1>4

(* The include paths of an accepted line are the values of all options of  *)
(* that kind: one of another language would be unknown.                    *)
LEMMA IncludePathsTaken ==
  ASSUME NEW line, init_options(line) = "accepted"
  PROVE  IncludePaths(line) =
           Values(line, {"I", "c-include-path", "ruby-include-path"})
<1> DEFINE names == {"I", "c-include-path", "ruby-include-path"}
           own   == IncludeOptions(language(line))
<1>1. language(line) \in Languages /\ ~HasUnknown(line)
  BY Outcomes
<1>2. own \subseteq names /\ names \cap SecondOptions(language(line)) \subseteq own
  BY <1>1 DEF Languages, IncludeOptions, SecondOptions, FirstOptions, FlagOptions,
              NumberOptions, TextOptions, VectorOptions
<1>3. \A i \in 1..Len(line) : line[i].opt \in own <=> line[i].opt \in names
  BY <1>1, <1>2 DEF HasUnknown
<1>4. {i \in 1..Len(line) : line[i].opt \in own}
        = {i \in 1..Len(line) : line[i].opt \in names}
  BY <1>3
<1>5. QED
  BY <1>4 DEF IncludePaths, Values

(* An accepted line asks for some number of threads other than 0.          *)
LEMMA ThreadsAsked ==
  ASSUME NEW line \in CommandLines, init_options(line) = "accepted"
  PROVE  /\ options(line).n_threads \in Int \ {0}
         /\ options(line).n_threads <= MaxThreads
<1>1. options(line).n_threads = NumberGiven(line, "threads", 1)
  BY DEF options
<1>2. ~FirstParseThrows(line) /\ NumberGiven(line, "threads", 1) # 0
  BY Outcomes DEF ThreadsRefused
<1>3. ASSUME Given(line, "threads")
      PROVE  Number(GivenValue(line, "threads")) \in Int
  <2>1. PICK i \in 1..Len(line) : line[i].opt = "threads"
    BY <1>3 DEF Given
  <2>2. "threads" \in FirstOptions /\ i \in Places(line, "threads")
    BY <2>1 DEF FirstOptions, NumberOptions, Places
  <2>3. GivenValue(line, "threads") = line[i].value
    BY <1>2, <2>2, GivenOnce
  <2>4. Number(line[i].value) # BadNumber
    BY <1>2, <2>1 DEF FirstParseThrows, NumberOptions
  <2>5. QED
    BY <2>3, <2>4, MainAssumption
<1>4. NumberGiven(line, "threads", 1) \in Int
  BY <1>3 DEF NumberGiven
<1>5. QED
  BY <1>1, <1>2, <1>4, MainAssumption

(* Without arguments there would be one thread.                            *)
LEMMA DefaultThreads == Defaults.n_threads = 1
<1>1. ~Given(<<>>, "threads")
  BY DEF Given
<1>2. QED
  BY <1>1 DEF Defaults, options, NumberGiven

-----------------------------------------------------------------------------
(* The inductive invariant.                                                *)

Accepted  == init_options(command_line) = "accepted" /\ opts = options(command_line)
Unstarted == num_started = 0 /\ output = Nothing

(* The threads that are not started have done nothing.                     *)
Spare ==
  \A w \in 1..opts.n_threads :
    w > num_started => worker_pc[w] = "lock" /\ entry[w] = 0

(* There is a detector, or there was one.                                  *)
Constructed ==
  /\ Accepted
  /\ opts.n_threads \in 1..MaxThreads
  /\ num_started \in 0..opts.n_threads
  /\ Spare
  /\ \E n \in 1..MaxThreads, k \in 0..MaxFiles :
       n = opts.n_threads /\ k = num_files /\ DetectorInv(n, k)

(* main has done nothing with the detector.                                *)
Starting == next_job = 1 /\ main_pc \in {"add", "wait"}

WrittenGraph ==
  IF Opened /\ opts.format \in Formats
  THEN [to |-> opts.out_file, format |-> opts.format,
        search |-> opts.include_paths, jobs |-> processed]
  ELSE Nothing

MainInv ==
  /\ phase \in Phases /\ command_line \in CommandLines
  /\ num_files \in 0..MaxFiles
  /\ phase = "options" => Unstarted /\ opts = Defaults
  /\ phase \in {"get", "construct"} => Unstarted /\ Accepted
  /\ phase \in {"threads", "detector", "unwinding", "aborted", "hung"}
       => Constructed /\ output = Nothing
  /\ phase = "threads" => Starting
  /\ phase = "detector" => num_started = opts.n_threads
  /\ phase = "failure" => Unstarted /\ (opts = Defaults \/ Accepted)
  /\ phase = "success" =>
       \/ /\ Unstarted /\ opts = Defaults
          /\ Given(command_line, "version") \/ Given(command_line, "help")
       \/ /\ Constructed /\ main_pc = "joined"
          /\ num_started = opts.n_threads /\ output = WrittenGraph

-----------------------------------------------------------------------------
(* Steps that leave the detector as it is, or nearly.                      *)
LEMMA DetectorKept ==
  ASSUME NEW n \in Nat, NEW k \in Nat, DetectorInv(n, k),
         job_queue_mutex' \in {job_queue_mutex, NoThread},
         UNCHANGED <<job_queue, all_work_done, worker_pc, entry, main_pc,
                     next_job, processed>>
  PROVE  DetectorInv(n, k)'
<1>1. DetectorTyping(n, k)'
  BY DEF DetectorInv, DetectorTyping, Busy, Detector!TypeOK
<1>2. DetectorQueue(n)'
  BY DetectorQueueFrame DEF DetectorInv, Busy
<1>3. DetectorEnd(n)' /\ DetectorWakes(n)'
  BY DEF DetectorInv, DetectorEnd, DetectorWakes
<1>4. QED
  BY <1>1, <1>2, <1>3 DEF DetectorInv

LEMMA ConstructedKept ==
  ASSUME Constructed, num_started' \in num_started..opts.n_threads,
         job_queue_mutex' \in {job_queue_mutex, NoThread},
         UNCHANGED <<command_line, opts, num_files, job_queue, all_work_done,
                     worker_pc, entry, main_pc, next_job, processed>>
  PROVE  Constructed'
<1>1. PICK n \in 1..MaxThreads : \E k \in 0..MaxFiles :
        n = opts.n_threads /\ k = num_files /\ DetectorInv(n, k)
  BY DEF Constructed
<1>2. PICK k \in 0..MaxFiles :
        n = opts.n_threads /\ k = num_files /\ DetectorInv(n, k)
  BY <1>1
<1>3. DetectorInv(n, k)'
  <2>1. n \in Nat /\ k \in Nat
    BY MainAssumption
  <2>2. QED
    BY <1>2, <2>1, DetectorKept
<1>4. num_started' \in 0..opts.n_threads /\ num_started' >= num_started
  <2>1. num_started \in 0..opts.n_threads /\ opts.n_threads \in Nat
    BY MainAssumption DEF Constructed
  <2>2. QED
    BY <2>1
<1>5. Spare'
  <2>1. num_started \in Nat /\ num_started' \in Nat
    BY <1>4, MainAssumption DEF Constructed
  <2>2. QED
    BY <1>4, <2>1 DEF Constructed, Spare
<1>6. QED
  BY <1>2, <1>3, <1>4, <1>5 DEF Constructed, Accepted

(* Who has not started does not move.                                      *)
LEMMA SpareStep ==
  ASSUME NEW n \in Nat, NEW k \in Nat, n = opts.n_threads, DetectorTyping(n, k),
         num_started \in 0..n, Spare, opts' = opts, num_started' = num_started,
         \/ Detector(n, k)!MainStep \/ Detector(n, k)!SpuriousWakeup
         \/ \E w \in 1..num_started : Detector(n, k)!WorkerStep(w)
  PROVE  Spare'
<1> SUFFICES ASSUME NEW v \in 1..n, v > num_started
             PROVE  worker_pc'[v] = "lock" /\ entry'[v] = 0
  BY DEF Spare
<1> USE DEF Spare, DetectorTyping, Detector!TypeOK, Detector!Goto,
        Detector!Woken, Detector!queueVars, Detector!workerVars, Detector!mainVars
<1>1. CASE Detector(n, k)!MainStep
  BY <1>1 DEF Detector!MainStep, Detector!AddJobLock, Detector!AddJobPush,
     Detector!WaitLock, Detector!WaitSleep, Detector!WaitEmpty,
     Detector!NotifyEmpty, Detector!DoneLock, Detector!SetDone,
     Detector!NotifyDone, Detector!JoinWorkers
<1>2. CASE Detector(n, k)!SpuriousWakeup
  BY <1>2 DEF Detector!SpuriousWakeup, Detector!SpuriousMain, Detector!SpuriousWorker
<1>3. CASE \E w \in 1..num_started : Detector(n, k)!WorkerStep(w)
  <2>1. PICK w \in 1..num_started : Detector(n, k)!WorkerStep(w)
    BY <1>3
  <2>2. v # w /\ w \in 1..n
    OBVIOUS
  <2>3. QED
    BY <2>1, <2>2 DEF Detector!WorkerStep, Detector!WorkerLock,
       Detector!WorkerSleep, Detector!WorkerReturn, Detector!TakeJob,
       Detector!NotifyTaken, Detector!Process
<1>4. QED
  BY <1>1, <1>2, <1>3

(* A step of the detector.                                                 *)
LEMMA ConstructedStep ==
  ASSUME Constructed, UNCHANGED <<environment, programVars>>,
         NEW n \in 0..MaxThreads, NEW k \in 0..MaxFiles,
         n = opts.n_threads, k = num_files,
         \/ Detector(n, k)!MainStep \/ Detector(n, k)!SpuriousWakeup
         \/ \E w \in 1..num_started : Detector(n, k)!WorkerStep(w)
  PROVE  Constructed'
<1>1. n \in Nat /\ k \in Nat /\ n \in 1..MaxThreads
  BY MainAssumption DEF Constructed
<1>2. DetectorInv(n, k)
  BY DEF Constructed
<1>3. Detector(n, k)!Next
  <2>1. num_started \in 0..n
    BY DEF Constructed
  <2>2. \A w \in 1..num_started : w \in 1..n
    BY <1>1, <2>1
  <2>3. QED
    BY <2>2 DEF Detector!Next
<1>4. DetectorInv(n, k)'
  BY <1>1, <1>2, <1>3, DetectorStep
<1>5. Spare'
  BY <1>1, <1>2, SpareStep DEF Constructed, DetectorInv, programVars
<1>6. QED
  BY <1>1, <1>4, <1>5 DEF Constructed, Accepted, environment, programVars

(* The constructor: the members as they are initialised, and the vector of *)
(* threads.                                                                *)
LEMMA NewDetector ==
  ASSUME MainInv, ConstructDetector
  PROVE  Constructed' /\ Starting'
<1>1. /\ Accepted /\ Unstarted /\ opts.n_threads >= 0
      /\ command_line \in CommandLines /\ num_files \in 0..MaxFiles
      /\ UNCHANGED <<command_line, opts, num_files, num_started, output>>
  BY DEF MainInv, ConstructDetector, environment
<1>2. opts.n_threads \in 1..MaxThreads
  <2>1. opts.n_threads \in Int \ {0} /\ opts.n_threads <= MaxThreads
    BY <1>1, ThreadsAsked DEF Accepted
  <2>2. QED
    BY <1>1, <2>1, MainAssumption
<1> DEFINE n == opts.n_threads
           k == num_files
<1>3. n \in 1..MaxThreads /\ k \in 0..MaxFiles /\ n \in Nat /\ k \in Nat
  BY <1>1, <1>2, MainAssumption
<1>4. /\ worker_pc' = [w \in 1..n |-> "lock"] /\ entry' = [w \in 1..n |-> 0]
      /\ main_pc' = IF k = 0 THEN "wait" ELSE "add"
      /\ job_queue' = <<>> /\ all_work_done' = FALSE /\ job_queue_mutex' = NoThread
      /\ next_job' = 1 /\ processed' = {}
  BY DEF ConstructDetector
<1>5. ASSUME NEW m \in Nat, NEW j \in Nat, m = n, j = k PROVE DetectorInv(m, j)'
  <2>1. DetectorTyping(m, j)'
    <3>1. /\ job_queue' \in Seq(1..j) /\ all_work_done' \in BOOLEAN
          /\ next_job' \in 1..(j + 1) /\ processed' \subseteq 1..j
      <4>1. <<>> \in Seq(1..j) /\ 1 \in 1..(j + 1)
        BY EmptySeq
      <4>2. all_work_done' \in BOOLEAN
        BY <1>4, Zenon
      <4>3. QED
        BY <1>4, <4>1, <4>2
    <3>2. /\ worker_pc' \in [1..m -> Detector(m, j)!WorkerLabels]
          /\ entry' \in [1..m -> 1..j \cup {0}]
          /\ main_pc' \in Detector(m, j)!MainLabels
      BY <1>4, <1>5 DEF Detector!WorkerLabels, Detector!MainLabels
    <3>3. Detector(m, j)!TypeOK'
      BY <1>4, <3>1, <3>2 DEF Detector!TypeOK, Detector!Jobs, Detector!NoJob
    <3>4. QED
      BY <1>4, <1>5, <3>3 DEF DetectorTyping, Busy, BusyLabels
  <2>2. DetectorEnd(m)' /\ DetectorWakes(m)'
    BY <1>4, <1>5 DEF DetectorEnd, DetectorWakes, QueueLeft
  <2>3. DetectorQueue(m)'
    <3>1. InHand(m)' = {} /\ \A w \in 1..m : ~Busy(w)'
      BY <1>4, <1>5 DEF InHand, Busy, BusyLabels
    <3>2. Len(job_queue') = 0
      BY <1>4
    <3>3. Taken' = {}
      BY <1>4, <3>2 DEF Taken
    <3>4. QED
      BY <1>4, <3>1, <3>2, <3>3 DEF DetectorQueue
  <2>4. QED
    BY <2>1, <2>2, <2>3 DEF DetectorInv
<1>6. \E m \in 1..MaxThreads, j \in 0..MaxFiles :
        m = opts'.n_threads /\ j = num_files' /\ DetectorInv(m, j)'
  <2>1. PICK m \in 1..MaxThreads : m = n
    BY <1>3
  <2>2. PICK j \in 0..MaxFiles : j = k
    BY <1>3
  <2>3. m \in Nat /\ j \in Nat
    BY MainAssumption
  <2>4. DetectorInv(m, j)'
    BY <1>5, <2>1, <2>2, <2>3
  <2>5. QED
    BY <1>1, <2>1, <2>2, <2>4
<1>7. Accepted' /\ opts'.n_threads \in 1..MaxThreads /\ num_started' \in 0..opts'.n_threads
  BY <1>1, <1>2 DEF Accepted, Unstarted
<1>8. Spare'
  BY <1>1, <1>4 DEF Spare
<1>9. Starting'
  BY <1>4 DEF Starting
<1>10. QED
  BY <1>6, <1>7, <1>8, <1>9 DEF Constructed

-----------------------------------------------------------------------------
(* The steps of the program.                                               *)

LEMMA BeforeDetector ==
  ASSUME MainInv,
         \/ InitOptions \/ GetFiles \/ GetFilesThrows
         \/ ConstructDetector \/ ConstructDetectorThrows
  PROVE  MainInv'
<1> USE DEF environment, detectorVars, Goto, Phases
<1>1. CASE InitOptions
  <2> DEFINE outcome == init_options(command_line)
  <2>1. /\ phase = "options" /\ Unstarted /\ opts = Defaults
        /\ UNCHANGED <<environment, num_files, num_started, output, detectorVars>>
    BY <1>1 DEF MainInv, InitOptions
  <2>2. Unstarted'
    BY <2>1 DEF Unstarted
  <2>3. CASE outcome = "accepted"
    <3>1. phase' = "get" /\ Accepted'
      BY <1>1, <2>1, <2>3 DEF InitOptions, Accepted
    <3>2. QED
      BY <2>1, <2>2, <3>1 DEF MainInv
  <2>4. CASE outcome \in {"version", "help"}
    <3>1. phase' = "success" /\ opts' = opts
      BY <1>1, <2>4 DEF InitOptions
    <3>2. Given(command_line, "version") \/ Given(command_line, "help")
      BY <2>4, Outcomes
    <3>3. QED
      BY <2>1, <2>2, <3>1, <3>2 DEF MainInv
  <2>5. CASE outcome \notin {"accepted", "version", "help"}
    <3>1. phase' = "failure" /\ opts' = opts
      BY <1>1, <2>5 DEF InitOptions
    <3>2. QED
      BY <2>1, <2>2, <3>1 DEF MainInv
  <2>6. QED
    BY <2>3, <2>4, <2>5
<1>2. CASE GetFiles
  <2>1. Unstarted' /\ Accepted' /\ phase' = "construct"
    BY <1>2 DEF MainInv, GetFiles, Unstarted, Accepted
  <2>2. QED
    BY <1>2, <2>1 DEF MainInv, GetFiles
<1>3. CASE GetFilesThrows \/ ConstructDetectorThrows
  <2>1. Unstarted' /\ Accepted' /\ phase' = "failure"
    BY <1>3 DEF MainInv, GetFilesThrows, ConstructDetectorThrows, Unstarted, Accepted
  <2>2. QED
    BY <1>3, <2>1 DEF MainInv, GetFilesThrows, ConstructDetectorThrows
<1>4. CASE ConstructDetector
  <2>1. Constructed' /\ Starting'
    BY <1>4, NewDetector
  <2>2. phase' = "threads" /\ output' = Nothing
    BY <1>4 DEF MainInv, ConstructDetector, Unstarted
  <2>3. QED
    BY <1>4, <2>1, <2>2 DEF MainInv, ConstructDetector
<1>5. QED
  BY <1>1, <1>2, <1>3, <1>4

LEMMA WithDetector ==
  ASSUME MainInv,
         \/ StartThread \/ ThreadsStarted \/ StartThreadThrows \/ AddJobThrows
         \/ DestroyThreads \/ DestroyCondition
         \/ \E w \in 1..MaxThreads : ProcessThrows(w)
  PROVE  MainInv'
<1> USE DEF environment, detectorVars, Goto, Phases
<1>1. /\ Constructed /\ output = Nothing
      /\ phase \in {"threads", "detector", "unwinding"}
      /\ phase = "detector" => num_started = opts.n_threads
      /\ phase = "threads" => Starting
  BY DEF MainInv, StartThread, ThreadsStarted, StartThreadThrows, AddJobThrows,
         DestroyThreads, DestroyCondition, ProcessThrows, HasDetector
<1>2. /\ UNCHANGED <<command_line, opts, num_files, job_queue, all_work_done,
                     worker_pc, entry, main_pc, next_job, processed, output>>
      /\ job_queue_mutex' \in {job_queue_mutex, NoThread}
  BY DEF StartThread, ThreadsStarted, StartThreadThrows, AddJobThrows,
         DestroyThreads, DestroyCondition, ProcessThrows
<1>3. opts.n_threads \in Nat \ {0} /\ num_started \in 0..opts.n_threads
  BY <1>1, MainAssumption DEF Constructed
<1>4. num_started' \in num_started..opts.n_threads
  BY <1>3 DEF StartThread, ThreadsStarted, StartThreadThrows, AddJobThrows,
              DestroyThreads, DestroyCondition, ProcessThrows
<1>5. Constructed'
  BY <1>1, <1>2, <1>4, ConstructedKept
<1>6. \/ phase' = "threads" /\ Starting'
      \/ phase' \in {"unwinding", "aborted", "hung"}
      \/ phase' = "detector" /\ num_started' = opts'.n_threads
      \/ phase' = "failure" /\ num_started' = 0
  BY <1>1, <1>2, <1>3 DEF StartThread, ThreadsStarted, StartThreadThrows, AddJobThrows,
     DestroyThreads, DestroyCondition, ProcessThrows, ThrowInMain, Starting
<1>7. QED
  BY <1>1, <1>2, <1>5, <1>6 DEF MainInv, Unstarted, Constructed

LEMMA DetectorRuns ==
  ASSUME MainInv,
         \/ DetectorMain \/ (\E w \in 1..MaxThreads : DetectorWorker(w))
         \/ SpuriousWakeup
  PROVE  MainInv'
<1>1. /\ HasDetector /\ UNCHANGED <<environment, programVars>>
      /\ \E n \in 0..MaxThreads, k \in 0..MaxFiles :
           /\ n = opts.n_threads /\ k = num_files
           /\ \/ phase = "detector" /\ Detector(n, k)!MainStep
              \/ Detector(n, k)!SpuriousWakeup
              \/ \E w \in 1..num_started : Detector(n, k)!WorkerStep(w)
  <2>1. CASE DetectorMain
    BY <2>1 DEF DetectorMain, HasDetector
  <2>2. CASE SpuriousWakeup
    BY <2>2 DEF SpuriousWakeup
  <2>3. CASE \E w \in 1..MaxThreads : DetectorWorker(w)
    <3>1. PICK w \in 1..MaxThreads : DetectorWorker(w)
      BY <2>3
    <3>2. PICK n \in 1..MaxThreads : \E k \in 0..MaxFiles :
            n = opts.n_threads /\ k = num_files /\ Detector(n, k)!WorkerStep(w)
      BY <3>1 DEF DetectorWorker
    <3>3. PICK k \in 0..MaxFiles :
            n = opts.n_threads /\ k = num_files /\ Detector(n, k)!WorkerStep(w)
      BY <3>2
    <3>4. w \in 1..num_started
      BY <3>1, MainAssumption
         DEF DetectorWorker, HasDetector, MainInv, Constructed
    <3>5. n \in 0..MaxThreads
      BY MainAssumption
    <3>6. QED
      BY <3>1, <3>3, <3>4, <3>5 DEF DetectorWorker
  <2>4. QED
    BY <2>1, <2>2, <2>3
<1>2. Constructed /\ output = Nothing
  BY <1>1 DEF MainInv, HasDetector
<1>3. Constructed'
  BY <1>1, <1>2, ConstructedStep
<1>4. phase = "threads" => Starting'
  BY <1>1 DEF MainInv, Starting, Detector!WorkerStep, Detector!WorkerLock,
     Detector!WorkerSleep, Detector!WorkerReturn, Detector!TakeJob,
     Detector!NotifyTaken, Detector!Process, Detector!SpuriousWakeup,
     Detector!SpuriousMain, Detector!SpuriousWorker, Detector!mainVars
<1>5. QED
  BY <1>1, <1>2, <1>3, <1>4 DEF MainInv, HasDetector, environment, programVars

LEMMA MainInvStep ==
  ASSUME MainInv, [Next]_mainVars
  PROVE  MainInv'
<1>1. CASE WriteGraph
  <2>1. /\ Constructed /\ num_started = opts.n_threads /\ main_pc = "joined"
        /\ phase' = "success" /\ output = Nothing /\ output' = WrittenGraph
        /\ UNCHANGED <<environment, opts, num_files, num_started, detectorVars>>
    BY <1>1 DEF MainInv, WriteGraph, Goto, WrittenGraph
  <2>2. Constructed'
    BY <2>1, ConstructedKept DEF Constructed, environment, detectorVars
  <2>3. WrittenGraph' = WrittenGraph
    BY <2>1 DEF WrittenGraph, Opened, environment, detectorVars
  <2>4. QED
    BY <2>1, <2>2, <2>3 DEF MainInv, Phases, environment, detectorVars
<1>2. CASE UNCHANGED mainVars
  <2>1. UNCHANGED <<command_line, out_file_opens, phase, opts, num_files, num_started, output>>
        /\ UNCHANGED detectorVars
    BY <1>2 DEF mainVars, environment, programVars
  <2>2. Constructed => Constructed'
    BY <2>1, ConstructedKept DEF Constructed, detectorVars
  <2>3. Unstarted' = Unstarted /\ Accepted' = Accepted /\ Starting' = Starting
        /\ WrittenGraph' = WrittenGraph
    BY <2>1 DEF Unstarted, Accepted, Starting, WrittenGraph, Opened, detectorVars
  <2>4. QED
    BY <2>1, <2>2, <2>3 DEF MainInv, detectorVars
<1>3. QED
  BY <1>1, <1>2, BeforeDetector, WithDetector, DetectorRuns DEF Next, MainStep, Fault

LEMMA MainInvariance == Spec => []MainInv
<1>1. ASSUME Init PROVE MainInv
  <2>1. /\ command_line \in CommandLines /\ phase = "options" /\ opts = Defaults
        /\ num_files = 0 /\ num_started = 0 /\ output = Nothing
    BY <1>1 DEF Init
  <2>2. num_files \in 0..MaxFiles
    BY <2>1, MainAssumption
  <2>3. QED
    BY <2>1, <2>2 DEF MainInv, Phases, Unstarted
<1>2. MainInv /\ [Next]_mainVars => MainInv'
  BY MainInvStep
<1>3. QED
  BY <1>1, <1>2, PTL DEF Spec

-----------------------------------------------------------------------------
(* The theorems.                                                           *)

LEMMA ConstructedType ==
  ASSUME Constructed
  PROVE  /\ opts.n_threads \in 1..MaxThreads
         /\ num_started <= opts.n_threads /\ num_started \in 0..MaxThreads
         /\ processed \subseteq 1..num_files
         /\ \E n \in 0..MaxThreads, k \in 0..MaxFiles :
              n = opts.n_threads /\ k = num_files /\ Detector(n, k)!TypeOK
<1>1. /\ opts.n_threads \in 1..MaxThreads /\ num_started \in 0..opts.n_threads
      /\ \E n \in 1..MaxThreads, k \in 0..MaxFiles :
           n = opts.n_threads /\ k = num_files /\ DetectorInv(n, k)
  BY DEF Constructed
<1>2. \E n \in 0..MaxThreads, k \in 0..MaxFiles :
        n = opts.n_threads /\ k = num_files /\ Detector(n, k)!TypeOK
  BY <1>1 DEF DetectorInv, DetectorTyping
<1>3. processed \subseteq 1..num_files
  BY <1>2 DEF Detector!TypeOK, Detector!Jobs
<1>4. QED
  BY <1>1, <1>2, <1>3, MainAssumption

(* Every variable of the program keeps its type, whatever goes wrong: in   *)
(* particular the constructor never starts more threads than its vector    *)
(* has, and there are no more than the command line may ask for.           *)
THEOREM TypeCorrect == Spec => []TypeOK
<1>1. ASSUME MainInv PROVE TypeOK
  <2>1. opts.n_threads <= MaxThreads
    <3>1. opts = Defaults => opts.n_threads <= MaxThreads
      BY DefaultThreads, MainAssumption
    <3>2. Accepted => opts.n_threads <= MaxThreads
      BY <1>1, ThreadsAsked DEF MainInv, Accepted
    <3>3. opts = Defaults \/ Accepted
      BY <1>1 DEF MainInv, Phases, Constructed
    <3>4. QED
      BY <3>1, <3>2, <3>3
  <2>2. num_started \in 0..MaxThreads /\ output.jobs \subseteq 1..num_files
    <3>1. ASSUME output = Nothing PROVE output.jobs \subseteq 1..num_files
      BY <3>1 DEF Nothing
    <3>2. CASE Unstarted
      <4>1. num_started \in 0..MaxThreads
        BY <3>2, MainAssumption DEF Unstarted
      <4>2. QED
        BY <3>1, <3>2, <4>1 DEF Unstarted
    <3>3. CASE Constructed /\ (output = Nothing \/ output = WrittenGraph)
      <4>1. num_started \in 0..MaxThreads /\ processed \subseteq 1..num_files
        BY <3>3, ConstructedType
      <4>2. CASE output = [to |-> opts.out_file, format |-> opts.format,
                          search |-> opts.include_paths, jobs |-> processed]
        <5>1. output.jobs = processed
          BY <4>2
        <5>2. QED
          BY <4>1, <5>1
      <4>3. QED
        BY <3>1, <3>3, <4>1, <4>2 DEF WrittenGraph
    <3>4. QED
      BY <1>1, <3>2, <3>3 DEF MainInv, Phases
  <2>3. HasDetector => Constructed
    BY <1>1 DEF MainInv, HasDetector
  <2>4. QED
    BY <1>1, <2>1, <2>2, <2>3, ConstructedType DEF MainInv, TypeOK
<1>2. QED
  BY <1>1, MainInvariance, PTL

(* When the program exits, by returning from main or by exit(), none of    *)
(* its threads is alive: either none was started, or all were joined.      *)
THEOREM NoneLeft == Spec => []NoThreadOutlivesMain
<1>1. ASSUME MainInv, phase \in {"success", "failure"}, NEW w \in 1..num_started
      PROVE  worker_pc[w] = "returned"
  <2>1. Constructed /\ main_pc = "joined" /\ num_started = opts.n_threads
    BY <1>1 DEF MainInv, Unstarted
  <2>2. QED
    BY <1>1, <2>1 DEF Constructed, DetectorInv, DetectorEnd
<1>2. MainInv => NoThreadOutlivesMain
  BY <1>1 DEF NoThreadOutlivesMain
<1>3. QED
  BY <1>2, MainInvariance, PTL

(* An option of an accepted line that may be given once: the value given,  *)
(* or the default.                                                         *)
LEMMA OptionTaken ==
  ASSUME NEW line, init_options(line) = "accepted", NEW opt \in FirstOptions,
         NEW default
  PROVE  /\ \A i \in 1..Len(line) : line[i].opt = opt =>
              /\ Value(line, opt, default) = line[i].value
              /\ NumberGiven(line, opt, default) = Number(line[i].value)
         /\ ~Given(line, opt) =>
              /\ Value(line, opt, default) = default
              /\ NumberGiven(line, opt, default) = default
<1>1. ~FirstParseThrows(line)
  BY Outcomes
<1>2. \A i \in 1..Len(line) : line[i].opt = opt =>
         Given(line, opt) /\ GivenValue(line, opt) = line[i].value
  BY <1>1, GivenOnce DEF Places, Given
<1>3. QED
  BY <1>2 DEF Value, NumberGiven

(* An exit status of 0 promises the graph of all files, with the two       *)
(* exceptions that SuccessIsComplete names.                                *)
THEOREM SuccessPromises == Spec => []SuccessIsComplete
<1>1. ASSUME MainInv PROVE SuccessIsComplete
  <2> SUFFICES ASSUME phase = "success",
                      ~Given(command_line, "version"), ~Given(command_line, "help")
               PROVE  \/ output.jobs = 1..num_files /\ output # Nothing
                      \/ ~out_file_opens /\ Given(command_line, "out-file")
                      \/ \E i \in 1..Len(command_line) :
                           command_line[i].opt = "format" /\ command_line[i].value = ""
    BY DEF SuccessIsComplete
  <2>1. Constructed /\ main_pc = "joined" /\ output = WrittenGraph
    BY <1>1 DEF MainInv
  <2>2. init_options(command_line) = "accepted" /\ opts = options(command_line)
    BY <2>1 DEF Constructed, Accepted
  <2>3. "out-file" \in FirstOptions /\ "format" \in FirstOptions
    BY DEF FirstOptions, TextOptions
  <2>4. CASE Opened /\ opts.format \in Formats
    <3>1. output = [to |-> opts.out_file, format |-> opts.format,
                          search |-> opts.include_paths, jobs |-> processed]
      BY <2>1, <2>4 DEF WrittenGraph
    <3>2. output # Nothing
      BY <2>4, <3>1 DEF Nothing, Formats
    <3>3. PICK n \in 1..MaxThreads, k \in 0..MaxFiles :
            k = num_files /\ DetectorInv(n, k)
      BY <2>1 DEF Constructed
    <3>4. n \in Nat /\ k \in Nat
      BY MainAssumption
    <3>5. processed = 1..k
      BY <2>1, <3>3, <3>4, DetectorJoined
    <3>6. QED
      BY <3>1, <3>2, <3>3, <3>5
  <2>5. CASE ~Opened
    <3>1. Value(command_line, "out-file", "") # "" /\ ~out_file_opens
      BY <2>2, <2>5 DEF Opened, options
    <3>2. Given(command_line, "out-file")
      BY <3>1 DEF Value
    <3>3. QED
      BY <3>1, <3>2
  <2>6. CASE opts.format \notin Formats
    <3>1. Value(command_line, "format", "dot") = ""
      BY <2>2, <2>6, Outcomes DEF FormatRefused, options
    <3>2. PICK i \in 1..Len(command_line) : command_line[i].opt = "format"
      BY <3>1 DEF Value, Given
    <3>3. Value(command_line, "format", "dot") = command_line[i].value
      <4>1. \A opt \in FirstOptions : opt = "format" =>
              Value(command_line, opt, "dot") = command_line[i].value
        BY <2>2, <3>2, OptionTaken
      <4>2. QED
        BY <2>3, <4>1
    <3>4. QED
      BY <3>1, <3>2, <3>3
  <2>7. QED
    BY <2>4, <2>5, <2>6
<1>2. QED
  BY <1>1, MainInvariance, PTL

(* What was written is in the format and at the place that the command     *)
(* line asks for, with all the include paths it gives, by as many threads  *)
(* as it asks for.                                                         *)
THEOREM WrittenAsAsked == Spec => []OutputAsAsked
<1>1. ASSUME MainInv, output # Nothing PROVE OutputAsAsked
  <2>1. /\ Constructed /\ num_started = opts.n_threads /\ output = WrittenGraph
        /\ output = [to |-> opts.out_file, format |-> opts.format,
                          search |-> opts.include_paths, jobs |-> processed]
    BY <1>1 DEF MainInv, Phases, Unstarted, WrittenGraph
  <2>2. init_options(command_line) = "accepted" /\ opts = options(command_line)
    BY <2>1 DEF Constructed, Accepted
  <2>3. /\ num_started = NumberGiven(command_line, "threads", 1)
        /\ output.format = Value(command_line, "format", "dot")
        /\ output.to = Value(command_line, "out-file", "")
        /\ output.search = IncludePaths(command_line)
    <3>1. /\ output.format = opts.format /\ output.to = opts.out_file
          /\ output.search = opts.include_paths
      BY <2>1
    <3>2. QED
      BY <2>1, <2>2, <3>1, OptionFields
  <2>4. {"threads", "format", "out-file"} \subseteq FirstOptions
    BY DEF FirstOptions, TextOptions, NumberOptions
  <2>5. QED
    BY <2>2, <2>3, <2>4, OptionTaken, IncludePathsTaken DEF OutputAsAsked
<1>2. MainInv => OutputAsAsked
  BY <1>1 DEF OutputAsAsked
<1>3. QED
  BY <1>2, MainInvariance, PTL

(* However the threads are started, and whatever fails while they run, the *)
(* detector keeps the promises that Statement_Detector makes for one whose *)
(* threads are all there; and those that are started early wait.           *)
THEOREM StartIsSafe == Spec => []DetectorSafe
<1>1. ASSUME MainInv, HasDetector PROVE DetectorSafe
  <2>1. Constructed /\ (phase = "threads" => Starting)
    BY <1>1 DEF MainInv, HasDetector
  <2>2. PICK n \in 1..MaxThreads : \E k \in 0..MaxFiles :
          n = opts.n_threads /\ k = num_files /\ DetectorInv(n, k)
    BY <2>1 DEF Constructed
  <2>3. PICK k \in 0..MaxFiles :
          n = opts.n_threads /\ k = num_files /\ DetectorInv(n, k)
    BY <2>2
  <2>4. n \in Nat /\ k \in Nat /\ n \in 0..MaxThreads
    BY MainAssumption
  <2>5. /\ Detector(n, k)!EachJobOnce /\ Detector(n, k)!NoJobAbandoned
        /\ Detector(n, k)!NoLostWakeup /\ Detector(n, k)!JoinedAfterAllJobs
    BY <2>3, <2>4, DetectorPromises
  <2>6. num_started \in 0..n /\ DOMAIN worker_pc = 1..n
    BY <2>1, <2>3 DEF Constructed, DetectorInv, DetectorTyping, Detector!TypeOK
  <2>7. ASSUME phase = "threads"
        PROVE  /\ processed = {}
               /\ \A w \in 1..num_started :
                    worker_pc[w] \in {"lock", "check", "blocked"}
    <3>1. /\ next_job = 1 /\ job_queue \in Seq(1..k) /\ ~all_work_done
          /\ worker_pc \in [1..n -> Detector(n, k)!WorkerLabels]
      BY <2>1, <2>3, <2>7 DEF Starting, DetectorInv, DetectorEnd, DetectorTyping,
                              Detector!TypeOK, Detector!Jobs
    <3>2. Taken = {}
      <4>1. Len(job_queue) \in Nat
        BY <3>1, LenProperties
      <4>2. QED
        BY <3>1, <4>1 DEF Taken
    <3>3. processed = {} /\ \A w \in 1..n : ~Busy(w)
      <4>1. processed = {} /\ InHand(n) = {}
        BY <2>3, <3>2 DEF DetectorInv, DetectorQueue
      <4>2. \A w \in 1..n : Busy(w) => entry[w] \in InHand(n)
        BY DEF InHand
      <4>3. QED
        BY <4>1, <4>2
    <3>4. \A w \in 1..n : worker_pc[w] # "returned"
      BY <2>3, <3>1 DEF DetectorInv, DetectorEnd
    <3>5. \A w \in 1..num_started : w \in 1..n
      BY <2>4, <2>6
    <3>6. QED
      BY <3>1, <3>3, <3>4, <3>5 DEF Busy, BusyLabels, Detector!WorkerLabels
  <2>8. \A w \in DOMAIN worker_pc :
          w > num_started => worker_pc[w] = "lock" /\ entry[w] = 0
    BY <2>1, <2>3, <2>6 DEF Constructed, Spare
  <2>9. QED
    BY <2>3, <2>4, <2>5, <2>7, <2>8 DEF DetectorSafe
<1>2. MainInv => DetectorSafe
  BY <1>1 DEF DetectorSafe
<1>3. QED
  BY <1>2, MainInvariance, PTL
=============================================================================
